-------------------------- MODULE MCTerminalSessions --------------------------
\* TerminalSessions for TLC: the constants come from the configurations.
EXTENDS TerminalSessions
=============================================================================
