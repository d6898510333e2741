--------------------------- MODULE MCDaemonClient ---------------------------
EXTENDS DaemonClient

=============================================================================
