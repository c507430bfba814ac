\* A connecting call, two commands and a disconnecting call; the bridge may never answer.
SPECIFICATION FairSpec
CONSTANTS
  c1 = c1
  c2 = c2
  c3 = c3
  c4 = c4
  NoCall = NoCall
  Calls = {c1, c2, c3, c4}
  Kinds <- MCKinds
  Replies <- MCReplies
  AutoConnect = TRUE
INVARIANTS
  NoClientForgotten
  SuccessIsAnswered
PROPERTIES
  ClosingIsNotUsed
  CallsReturn
CHECK_DEADLOCK FALSE
