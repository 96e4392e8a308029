--------------------------- MODULE MCVulnPipeline ---------------------------
(* Instances of VulnPipeline for TLC. *)
EXTENDS VulnPipeline, TLC

CONSTANTS t1, t2, s1, s2, s3, s4, f1, f2

\* Seeds are interchangeable; targets are not, the catalog sets them apart.
SeedSymmetry == Permutations({s1, s2, s3, s4})
=============================================================================
