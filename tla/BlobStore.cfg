SPECIFICATION Spec
CONSTANTS
  n1 = n1 n2 = n2 h1 = h1 h2 = h2 k1 = k1 k2 = k2
  r1 = r1 r2 = r2 r3 = r3 r4 = r4 d1 = d1 d2 = d2 w1 = w1 w2 = w2
  Node = {n1}
  Hash = {h1, h2}
  Key = {k1}
  Row = {r1, r3}
  KeyOf <- MCKeyOf
  HashOf <- MCHashOf
  Worker = {p1}
  Req = {q1}
  Daily = {d1}
  Watch = {w1}
  NodeOf <- MCNodeOf
  Seeded = {r1}
  HomeOf <- MCHomeOf
  NoHash = NoHash NoKey = NoKey NoRow = NoRow NoNode = NoNode
  MaxPublish = 1
  MaxCrash = 0

INVARIANTS StoreInv SteadyIsKept

