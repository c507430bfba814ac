\* A handler returns a result whose timestamps cannot be subtracted.
SPECIFICATION Spec
CONSTANTS
  j1 = j1
  j2 = j2
  t1 = t1
  t2 = t2
  n1 = n1
  NoThread = NoThread
  NoJob = NoJob
  Jobs <- TwoJobs
  Threads = {t1, t2}
  Names = {n1}
  Timed = {j1}
  Priority <- MCPriority
  HandlerName <- MCHandlerName
  Returns <- AllValues
  Offered <- WorkerResults
INVARIANTS
  WorkerSurvivesHandlers
