SPECIFICATION Spec
CONSTANTS
  u1 = u1 u2 = u2 pw = pw h1 = h1 h2 = h2
  a1 = a1 a2 = a2 a3 = a3 b1 = b1 b2 = b2 p1 = p1
  JobId = {a1, a2, b2}
  User = {u1, u2, pw}
  Accountless = {pw}
  Hash = {h1, h2}
  Owner <- MCOwnerOf
  HashOf <- MCHashOfOf
  Gated = {a1, b2}
  Size <- MCSizeOf
  Priority = {0}
  WorkStatus = {"downloading"}
  MaxConcurrent <- MCSlots
  MaxQueued = 1
  Budget = 5
  InitialHeadroom = 2
  PromoteHeadroom = 5
  UnknownSize = 5
  t1 = t1 t2 = t2 s1 = s1
  ApiTx = {t1, t2}
  SchedTx = {s1}
  NoTx = NoTx
  NoJob = NoJob
  MaxTime = 3
INVARIANTS IInv SlotCap OneClaimPerHash 
PROPERTIES NoBypass PoolSpec
SYMMETRY Sessions
CHECK_DEADLOCK FALSE
