\* Two callers that share entries, snapshots, failed writes and restarts.
SPECIFICATION Spec
CONSTANTS
  None = None
  Callers = {w1, w2}
  Ids = {e1, e2}
  Contents = {text}
  TextSize <- MCTextSize
SYMMETRY CallersAndIds
INVARIANTS
  AnsweredIsRemembered
  PersistedIsOnDisk
  StoreIsIndexed
