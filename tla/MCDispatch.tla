----------------------------- MODULE MCDispatch -----------------------------
(* Instances of Dispatch for TLC: one or two workers, two jobs.            *)
EXTENDS Dispatch, TLC

CONSTANTS n1, n2, h1, h2, w1, w2, j1, j2, p1, g1, g2, g3

MCHashOf   == [j \in Job |-> IF j = j2 THEN h2 ELSE h1]
MCSameHash == [j \in Job |-> h1]

\* A worker of its own for every node.
MCOwnNode  == [w \in Worker |-> IF w = w2 THEN {n2} ELSE {n1}]
MCWorkerOf == [r \in Run |-> IF r = g3 THEN w2 ELSE w1]

Goroutines == Permutations(Run)
=============================================================================
