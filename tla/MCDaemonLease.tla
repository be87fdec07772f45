--------------------------- MODULE MCDaemonLease ---------------------------
(* DaemonLease on small instances.  Connections, windows and rows are      *)
(* interchangeable, so the safety runs use their permutations.             *)
EXTENDS DaemonLease, TLC

Symmetry == Permutations(Conn) \cup Permutations(Window)
============================================================================
