SPECIFICATION Spec
CONSTANTS
  j1 = j1  j2 = j2  j3 = j3
  w1 = w1  w2 = w2
  r1 = r1  r2 = r2
  h1 = h1
  None = None
  Jobs = {j1, j2}
  Rels = {r1}
  Types = {"pre", "terminate", "orphan"}
  Workers = {w1}
  Closers = {}
  RelOf <- RelTwo
  TypeOf <- TypeTerm
  HashOf <- NoHashes
  Prio <- RankTwo
  WorkerOf <- Shared
  Duplicated = {}
  Delayed = {}
  HasHandler = {"pre", "terminate"}
  Terminating = {"terminate"}
  TryLimit <- LimitMix
  WorkerBufLen = 1
  CollectJobs = 2
  MaxAdding = 1
  MaxErrs = 0
  MaxTxErrs = 0
  MaxCrashes = 0
  CanReactivate = FALSE
PROPERTIES
  CanceledNotRetried
CHECK_DEADLOCK FALSE
