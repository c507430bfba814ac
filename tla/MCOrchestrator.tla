---------------------------- MODULE MCOrchestrator ----------------------------
(***************************************************************************)
(* Two requests: one plan of three tasks, of which the second depends on   *)
(* the first and the third has a dependency no plan contains, and a plan   *)
(* of one task.  Or one request, with the two that depend on no other task *)
(* before the one that cannot be resolved.                                 *)
(***************************************************************************)
EXTENDS Orchestrator, TLC

CONSTANTS t1, t2, t3, t4, missing, r1, r2, echo, custom, work, other

MCPlan      == (r1 :> <<t2, t1, t3>>) @@ (r2 :> <<t4>>)
OnePlan     == [r \in Requests |-> <<t1, t4, t3>>]
MCDependsOn == [t \in Tasks |-> CASE t = t2 -> {t1} [] t = t3 -> {missing} [] OTHER -> {}]

MCNameOf   == [a \in Agents |-> IF a = echo THEN "Diagnostic" ELSE "Custom"]
MCRank     == [n \in Names |-> IF n = "Custom" THEN 1 ELSE 2]
MCPriority == [a \in Agents |-> IF a = echo THEN 1 ELSE 0]
MCOffers   == [a \in Agents |-> IF a = echo THEN {work} ELSE {work, other}]
MCRequired == [t \in Tasks |-> IF t = t2 THEN {other} ELSE {work}]

\* The custom agent succeeds, raises, exits, or returns a result of no time zone.
MCAnswers ==
  {Succeeded, [Succeeded EXCEPT !.form = "raised"], [Succeeded EXCEPT !.form = "exit"],
   [Succeeded EXCEPT !.finished = FALSE, !.zones.started = FALSE]}
==============================================================================
