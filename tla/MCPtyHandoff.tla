----------------------------- MODULE MCPtyHandoff -----------------------------
(***************************************************************************)
(* PtyHandoff on small instances.                                          *)
(***************************************************************************)
EXTENDS PtyHandoff
=============================================================================
