SPECIFICATION FairSpec
CONSTANTS
  u1 = u1 u2 = u2 pw = pw h1 = h1 h2 = h2
  a1 = a1 a2 = a2 a3 = a3 b1 = b1 b2 = b2 p1 = p1
  JobId = {a1, a2, b1}
  User = {u1, u2, pw}
  Accountless = {pw}
  Hash = {h1, h2}
  Owner <- MCOwnerOf
  HashOf <- MCHashOfOf
  Gated = {a2}
  Size <- MCSizeOf
  Priority = {0}
  WorkStatus = {}
  MaxConcurrent <- MCSlots
  MaxQueued = 2
  Budget = 8
  InitialHeadroom = 1
  PromoteHeadroom = 5
  UnknownSize = 5
  t1 = t1 t2 = t2 s1 = s1
  ApiTx = {t1}
  SchedTx = {s1}
  NoTx = NoTx
  NoJob = NoJob
  MaxTime = 3

PROPERTY QueuedLeaves

CHECK_DEADLOCK FALSE
