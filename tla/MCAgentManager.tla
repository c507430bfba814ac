---------------------------- MODULE MCAgentManager ----------------------------
(***************************************************************************)
(* Three tasks, one of them cancelled, for an agent of the caller's own    *)
(* and a second instance of the same name that may replace it.             *)
(***************************************************************************)
EXTENDS AgentManager, TLC

CONSTANTS t1, t2, t3, custom, spare, work

MCNameOf   == [a \in Agents |-> "Custom"]
MCRank     == [n \in Names |-> 1]
MCPriority == [a \in Agents |-> 0]
MCOffers   == [a \in Agents |-> {work}]
MCRequired == [t \in Tasks |-> {work}]

\* A success, an exception, a SystemExit, a value of another type, a failure
\* with neither timing nor text, and one whose start has no time zone.
Unfinished == [Failed("FAILED", "OWN") EXCEPT !.finished = FALSE, !.duration = FALSE,
                                              !.error = FALSE]
MCAnswers ==
  {Succeeded, [Succeeded EXCEPT !.form = "raised"], [Succeeded EXCEPT !.form = "exit"],
   [Succeeded EXCEPT !.form = "value"], Unfinished, [Unfinished EXCEPT !.zones.started = FALSE]}

TaskSymmetry == Permutations({t1, t2})
==============================================================================
