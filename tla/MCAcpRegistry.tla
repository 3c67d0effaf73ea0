---------------------------- MODULE MCAcpRegistry ----------------------------
\* AcpRegistry for TLC: the constants come from the configurations.
EXTENDS AcpRegistry
=============================================================================
