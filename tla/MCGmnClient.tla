------------------------------ MODULE MCGmnClient ------------------------------
EXTENDS GmnClient
=============================================================================
