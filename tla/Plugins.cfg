\* Plugins and subscribers that may raise.
SPECIFICATION Spec
CONSTANTS
  p1 = p1
  p2 = p2
  p3 = p3
  h1 = h1
  h2 = h2
  None = None
  Plugin = {p1, p2, p3}
  Name <- SharedName
  Handler = {h1, h2}
  MaxHandlers = 3
INVARIANTS
  AllAreTold
PROPERTIES
  StopUnloads
