SPECIFICATION Spec
CONSTANTS
  j1 = j1  j2 = j2  j3 = j3
  w1 = w1  w2 = w2
  r1 = r1  r2 = r2
  h1 = h1
  None = None
  Jobs = {j1, j2, j3}
  Rels = {r1, r2}
  Types = {"pre", "terminate", "orphan"}
  Workers = {w1, w2}
  Closers = {}
  RelOf <- RelTwo
  TypeOf <- TypeTerm
  HashOf <- NoHashes
  Prio <- RankTwo
  WorkerOf <- Spread
  Duplicated = {}
  Delayed = {}
  HasHandler = {"pre", "terminate"}
  Terminating = {"terminate"}
  TryLimit <- LimitMix
  WorkerBufLen = 1
  CollectJobs = 2
  MaxAdding = 2
  MaxErrs = 0
  MaxTxErrs = 1
  MaxCrashes = 1
  CanReactivate = TRUE
INVARIANTS
  TypeOK
  IInv
  OneHandlerPerRelated
  RunningNotSettled
  TriesRespectLimit
PROPERTIES
  DoneIsFinal
  ImplementsExecution
CHECK_DEADLOCK FALSE
