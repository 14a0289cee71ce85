--------------------------- MODULE MCStreamProcess ---------------------------
EXTENDS StreamProcessProperties
=============================================================================
