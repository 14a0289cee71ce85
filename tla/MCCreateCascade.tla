--------------------------- MODULE MCCreateCascade ---------------------------
EXTENDS CreateCascade
MCAttempts == 1..N
=============================================================================
