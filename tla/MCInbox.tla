------------------------------ MODULE MCInbox ------------------------------
(* Inbox on small instances. *)
EXTENDS Inbox, TLC

CONSTANTS a, b, c, d, p, q

Symmetry == Permutations(Remote) \cup Permutations(Msg \ Remote) \cup Permutations(Reader)
============================================================================
