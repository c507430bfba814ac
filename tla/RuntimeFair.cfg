\* One job with a timeout and one without, handlers that may hang.
SPECIFICATION FairSpec
CONSTANTS
  j1 = j1
  j2 = j2
  t1 = t1
  t2 = t2
  n1 = n1
  NoThread = NoThread
  NoJob = NoJob
  Jobs <- TwoJobs
  Threads = {t1, t2}
  Names = {n1}
  Timed = {j1}
  Priority <- MCPriority
  HandlerName <- MCHandlerName
  Returns <- GoodValues
  Offered <- WorkerResults
INVARIANTS
  RunningIsHeld
  DrainedBeforeClose
PROPERTIES
  CallsReturn
  CancellationSettles
  AcceptedIsSettled
