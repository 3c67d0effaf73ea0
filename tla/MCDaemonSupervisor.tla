------------------------- MODULE MCDaemonSupervisor -------------------------
\* DaemonSupervisor for TLC: the constants come from the configurations.
EXTENDS DaemonSupervisor
=============================================================================
