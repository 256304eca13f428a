SPECIFICATION FairSpec
CONSTANTS
  n1 = n1 n2 = n2 h1 = h1 h2 = h2 w1 = w1 w2 = w2
  j1 = j1 j2 = j2 p1 = p1 g1 = g1 g2 = g2 g3 = g3
  Job = {j1}
  Hash = {h1, h2}
  HashOf <- MCSameHash
  Prewarm = {}
  Node = {n1}
  Blank = n1
  Worker = {w1}
  Serves <- MCOwnNode
  Targets <- MCOwnNode
  Run = {g1, g2}
  WorkerOf <- MCWorkerOf
  NoRun = NoRun NoJob = NoJob NoNode = NoNode
  MaxActive = 1
  MaxAdmit = 2
  MaxLoss = 1
  MaxCrash = 1
PROPERTY JobEnds
