---------------------------- MODULE MCSeedDaemon ----------------------------
EXTENDS SeedDaemonProperties
=============================================================================
