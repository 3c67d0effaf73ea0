-------------------------- MODULE MCWorkspaceSync --------------------------
\* WorkspaceSync for TLC: the constants come from the configurations.
EXTENDS WorkspaceSync
=============================================================================
