\* Every command, value and registry of the bounded sets.
SPECIFICATION Spec
CONSTANTS
  Depth = 2
  Sent <- MCSent
  Foreign <- MCForeign
  Given <- MCGiven
INVARIANTS
  EnabledIsUsable
  RefusedBeforehand
  ShownIsHarmless
  
  LoadingIsComplete
CHECK_DEADLOCK FALSE
