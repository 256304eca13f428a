SPECIFICATION Spec
CONSTANTS
  n1 = n1 n2 = n2 h1 = h1 h2 = h2 k1 = k1 k2 = k2
  r1 = r1 r2 = r2 r3 = r3 r4 = r4 d1 = d1 d2 = d2 w1 = w1 w2 = w2
  Node = {n1, n2}
  Hash = {h1, h2}
  Key = {k1}
  Row = {r1, r2}
  KeyOf <- MCKeyOf
  HashOf <- MCHashOf
  Worker = {}
  Req = {}
  Daily = {d1, d2}
  Watch = {}
  NodeOf <- MCNodeOf
  Seeded = {r1, r2}
  HomeOf <- MCHomeOf
  NoHash = NoHash NoKey = NoKey NoRow = NoRow NoNode = NoNode
  MaxPublish = 0
  MaxCrash = 0

INVARIANT OtherNodeKeepsContent
