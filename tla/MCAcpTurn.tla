------------------------------ MODULE MCAcpTurn ------------------------------
\* AcpTurn for TLC: the constants come from the configurations.
EXTENDS AcpTurn
=============================================================================
