----------------------------- MODULE MCJobQueue -----------------------------
(* Instances of JobQueue for TLC: two accounts, two contents, four rows.   *)
EXTENDS JobQueue, TLC

CONSTANTS u1, u2, pw, h1, h2, a1, a2, a3, b1, b2, p1, t1, t2, s1

\* a1 and a3 are the same account's requests for h1; b1 and b2 are another's.
MCOwner == (a1 :> u1) @@ (a2 :> u1) @@ (a3 :> u1) @@ (b1 :> u2) @@ (b2 :> u2) @@ (p1 :> pw)
MCHashOf == (a1 :> h1) @@ (a2 :> h2) @@ (a3 :> h1) @@ (b1 :> h1) @@ (b2 :> h2) @@ (p1 :> h2)
MCSize == (a1 :> 0) @@ (a2 :> 2) @@ (a3 :> 0) @@ (b1 :> 3) @@ (b2 :> 0) @@ (p1 :> 2)

\* The constants of the rows the instance uses.
MCOwnerOf  == [j \in JobId |-> MCOwner[j]]
MCHashOfOf == [j \in JobId |-> MCHashOf[j]]
MCSizeOf   == [j \in JobId |-> MCSize[j]]
MCSlots    == [u \in User |-> 1]

Sessions == Permutations(ApiTx)
=============================================================================
