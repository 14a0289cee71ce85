---------------------------- MODULE MCGmnOperations ----------------------------
EXTENDS GmnOperations
=============================================================================
