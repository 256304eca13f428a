----------------------------- MODULE MCBlobStore ----------------------------
(* Instances of BlobStore for TLC: two contents that share one blob.       *)
EXTENDS BlobStore, TLC

CONSTANTS n1, n2, h1, h2, k1, k2, r1, r2, r3, r4, d1, d2, w1, w2

MCKeyOf  == [h \in Hash |-> k1]
MCHashOf == [r \in Row |-> IF r \in {r1, r2} THEN h1 ELSE h2]
MCNodeOf == [g \in Engine |-> IF g \in {d2, w2} THEN n2 ELSE n1]
MCHomeOf == [r \in Seeded |-> IF r = r2 THEN n2 ELSE n1]
=============================================================================
