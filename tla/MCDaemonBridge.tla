--------------------------- MODULE MCDaemonBridge ---------------------------
EXTENDS DaemonBridge
=============================================================================
