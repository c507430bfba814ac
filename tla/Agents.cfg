\* Dispatches of three tasks among lifecycle calls and changes of the registry.
SPECIFICATION AgentSpec
CONSTANTS
  t1 = t1
  t2 = t2
  t3 = t3
  custom = custom
  spare = spare
  work = work
  NoAgent = NoAgent
  Tasks = {t1, t2, t3}
  Agents = {custom, spare}
  Names = {"Custom"}
  Capabilities = {work}
  NameOf <- MCNameOf
  Rank <- MCRank
  Priority <- MCPriority
  Enabled = {custom, spare}
  Offers <- MCOffers
  Required <- MCRequired
  Revoked = {t3}
  Diagnostic = {}
  Stubs = {}
  Answers <- MCAnswers
  Installed = {custom}
  Scripts = {"start_agent", "restart_agent", "pause"}
  Changing = {"Custom"}
SYMMETRY TaskSymmetry
INVARIANTS
  BusyIsServed
  ReportsAreTerminal
CHECK_DEADLOCK FALSE
