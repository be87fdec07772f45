---------------------------- MODULE MCWindowLease ----------------------------
(* WindowLease on small instances: two labels of one daemon, or one host.   *)
EXTENDS WindowLease, TLC

CONSTANTS h1, h2, d1

OneRoot == [h \in Host |-> d1]

\* A count that grows, one leave with a count to tell, or a leave and the one
\* that supersedes it.
CountsAndLeaves == {<<2, 0>>, <<1, 1>>, <<0, 2>>}
ManyLeaves      == {<<1, 3>>}

HostSymmetry == Permutations(Host)
============================================================================
