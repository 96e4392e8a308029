------------------------- MODULE MCStartupRecovery -------------------------
EXTENDS StartupRecovery

CONSTANTS a, b, c, d
=============================================================================
