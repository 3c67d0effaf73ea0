---------------------------- MODULE MCRelayTunnel ----------------------------
\* RelayTunnel for TLC: the constants come from the configurations.
EXTENDS RelayTunnel
=============================================================================
