\* Two concurrent plans; a task that others depend on may time out.
SPECIFICATION Spec
CONSTANTS
  t1 = t1
  t2 = t2
  t3 = t3
  t4 = t4
  missing = missing
  r1 = r1
  r2 = r2
  echo = echo
  custom = custom
  work = work
  other = other
  NoAgent = NoAgent
  Tasks = {t1, t2, t3, t4}
  Agents = {echo, custom}
  Names = {"Diagnostic", "Custom"}
  Capabilities = {work, other}
  NameOf <- MCNameOf
  Rank <- MCRank
  Priority <- MCPriority
  Enabled = {echo, custom}
  Offers <- MCOffers
  Required <- MCRequired
  Revoked = {}
  Diagnostic = {echo}
  Stubs = {}
  Answers <- MCAnswers
  Installed = {echo, custom}
  Scripts = {}
  Changing = {}
  Requests = {r1, r2}
  Plan <- MCPlan
  DependsOn <- MCDependsOn
  Timed = {t1}
INVARIANTS
  SuccessIsExecuted
  DependentsWait
  AbandonedIsStopped
  AllReported
  TrackerIsHonest
PROPERTIES
  ContractSpec
CHECK_DEADLOCK FALSE
