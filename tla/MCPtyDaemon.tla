---------------------------- MODULE MCPtyDaemon ----------------------------
(* Small instances of PtyDaemon for TLC. *)
EXTENDS PtyDaemon, TLC

ConnSymmetry == Permutations(Conns)
=============================================================================
