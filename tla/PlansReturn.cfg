\* Liveness: an agent may hang in execute() and be resumed; one task of the plan
\* cannot be resolved.
SPECIFICATION FairSpec
CONSTANTS
  t1 = t1
  t2 = t2
  t3 = t3
  t4 = t4
  missing = missing
  r1 = r1
  r2 = r2
  echo = echo
  custom = custom
  work = work
  other = other
  NoAgent = NoAgent
  Tasks = {t1, t3, t4}
  Agents = {custom}
  Names = {"Custom"}
  Capabilities = {work, other}
  NameOf <- MCNameOf
  Rank <- MCRank
  Priority <- MCPriority
  Enabled = {custom}
  Offers <- MCOffers
  Required <- MCRequired
  Revoked = {}
  Diagnostic = {}
  Stubs = {}
  Answers <- MCAnswers
  Installed = {custom}
  Scripts = {"resume"}
  Changing = {}
  Requests = {r1}
  Plan <- OnePlan
  DependsOn <- MCDependsOn
  Timed = {t1, t4}
PROPERTY
  RequestsReturn
CHECK_DEADLOCK FALSE
