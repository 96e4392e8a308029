------------------------- MODULE MCBoundaryPipeline -------------------------
(* Instances of BoundaryPipeline for TLC. *)
EXTENDS BoundaryPipeline, TLC

CONSTANTS t1, t2

\* Targets are interchangeable.
TargetSymmetry == Permutations({t1, t2})

\* batch_id values
BatchIds == 1..MaxBatches
=============================================================================
