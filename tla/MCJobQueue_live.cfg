SPECIFICATION FairSpec
CONSTANTS
  j1 = j1  j2 = j2  j3 = j3
  w1 = w1  w2 = w2
  r1 = r1  r2 = r2
  h1 = h1
  None = None
  Jobs = {j1, j2, j3}
  Rels = {r1, r2}
  Types = {"pre", "delayed"}
  Workers = {w1, w2}
  Closers = {c1}
  RelOf <- RelOne
  TypeOf <- TypeDelay
  HashOf <- Hashes
  Prio <- RankTwo
  WorkerOf <- Shared
  Duplicated = {}
  Delayed = {"delayed"}
  HasHandler = {"pre", "delayed"}
  Terminating = {}
  TryLimit <- LimitMix
  WorkerBufLen = 1
  CollectJobs = 2
  MaxAdding = 1
  MaxErrs = 1
  MaxTxErrs = 0
  MaxCrashes = 0
  CanReactivate = FALSE
INVARIANTS
  NoDuplicates
  ClosedOnlyByClose
PROPERTIES
  JobsSettle
  
  
