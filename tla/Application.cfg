\* Lifespans of one application, any of which may fail, and a request of any kind.
SPECIFICATION Spec
CONSTANTS
  r1 = r1
  None = None
  Request = {r1}
INVARIANTS
  ServingIsHealthy
  DownIsStopped
  AnswersTellWhatHappened
PROPERTIES
  ShutdownEnds
