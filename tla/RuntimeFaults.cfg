\* Two jobs, two threads, handlers that may end the worker's loop.
SPECIFICATION Spec
CONSTANTS
  j1 = j1
  j2 = j2
  t1 = t1
  t2 = t2
  n1 = n1
  NoThread = NoThread
  NoJob = NoJob
  Jobs <- TwoJobs
  Threads = {t1, t2}
  Names = {n1}
  Timed = {j1}
  Priority <- EqualPriority
  HandlerName <- MCHandlerName
  Returns <- AllValues
  Offered <- WorkerResults
SYMMETRY ThreadSymmetry
INVARIANTS
  TypeOK
  OneLoop
  NothingLost
  SuccessIsEarned
  StoppedIsSettled
PROPERTIES
  SettledNeverStarts
  NoOvertaking
  LifecycleSpec
