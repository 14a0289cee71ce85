--------------------------- MODULE MCSeedLauncher ---------------------------
EXTENDS SeedLauncher
=============================================================================
