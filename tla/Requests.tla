------------------------------ MODULE Requests -------------------------------
(***************************************************************************)
(* A development request from its endpoint to its answer:                  *)
(* backend/api/routes/brain.py and orchestrator.py, the                    *)
(* DevelopmentRequestService, the Brain's decision and the rule-based      *)
(* Planner, while the application starts and stops.  What becomes of the   *)
(* plan is in Orchestrator, what becomes of the entry in ProjectMemory.    *)
(***************************************************************************)
EXTENDS Application

CONSTANTS Request, None

Endpoint == {"/brain/analyze", "/brain/execute", "/orchestrator/request"}

\* A text by its first word: "echoes" is any longer word, or word and sign,
\* that begins with diagnostic or echo.  An empty text has no word and no
\* blanks, a blank one no word; a long one is over 10000 characters.
Text ==
  {t \in [word : {"", "diagnostic", "echo", "echoes", "other"},
          mentions : {"api", "ui", "neither"},   \* anywhere in it
          blanks : BOOLEAN,                      \* before the word
          long : BOOLEAN] :
     t.word = "" => t.mentions = "neither" /\ (t.long => t.blanks)}

Empty(t) == t.word = "" /\ ~t.blanks
IsBlank(t) == t.word = ""

VARIABLES
  pc,        \* [Request -> where its call is]
  endpoint,  \* [Request -> Endpoint]
  text,      \* [Request -> Text]
  goals,     \* [Request -> what the Brain decided, or None]
  jobs,      \* SUBSET Request: those that queued a job
  entries,   \* SUBSET Request: those with an entry in memory
  warned,    \* SUBSET Request: those answered with a warning
  answer     \* [Request -> status code or None]

asked == <<endpoint, text>>
requestVars == <<pc, asked, goals, jobs, entries, warned, answer>>
vars == <<appVars, requestVars>>

Nothing == [word |-> "", mentions |-> "neither", blanks |-> FALSE, long |-> FALSE]

Init ==
  /\ AppInit
  /\ pc = [r \in Request |-> "unsent"]
  /\ endpoint = [r \in Request |-> "/brain/analyze"] /\ text = [r \in Request |-> Nothing]
  /\ goals = [r \in Request |-> None] /\ answer = [r \in Request |-> None]
  /\ jobs = {} /\ entries = {} /\ warned = {}

Goes(r, from, to) == pc[r] = from /\ pc' = [pc EXCEPT ![r] = to]

Answers(r, from, status) ==
  Goes(r, from, "answered") /\ answer' = [answer EXCEPT ![r] = status]

\* A client asks for something.
Ask(r) ==
  /\ Goes(r, "unsent", "new")
  /\ \E e \in Endpoint, t \in Text :
       endpoint' = [endpoint EXCEPT ![r] = e] /\ text' = [text EXCEPT ![r] = t]
  /\ UNCHANGED <<goals, jobs, entries, warned, answer>>

\* The body of /brain/execute has 1 to 10000 characters.
Valid(r) ==
  endpoint[r] = "/brain/execute" => ~Empty(text[r]) /\ ~text[r].long

Reject(r) ==
  /\ \/ ~Valid(r) /\ Answers(r, "new", 422)
     \/ Valid(r) /\ ~container /\ Answers(r, "new", 503)
  /\ UNCHANGED <<asked, goals, jobs, entries, warned>>

Accept(r) ==
  /\ Valid(r) /\ container
  /\ Goes(r, "new", IF endpoint[r] = "/orchestrator/request" THEN "planning" ELSE "analyzing")
  /\ UNCHANGED <<asked, goals, jobs, entries, warned, answer>>

------------------------------------------------------------------------------
(* Brain and Planner *)

\* DecisionEngine.decide: what the request begins with, then what is in it.
Diagnostic(t) == t.word \in {"diagnostic", "echo", "echoes"}

Scope(t) ==
  CASE t.mentions = "api" -> "define-implementation-scope"
    [] t.mentions = "ui" -> "define-ui-scope"
    [] OTHER -> "define-project-scope"

Decision(t) == IF Diagnostic(t) THEN "execute-diagnostic" ELSE Scope(t)

\* Every goal is kept, whether or not it can be executed.
Analyze(r) ==
  /\ goals' = [goals EXCEPT ![r] = Decision(text[r])]
  /\ IF endpoint[r] = "/brain/analyze"
     THEN Answers(r, "analyzing", 200)
     ELSE Goes(r, "analyzing", "planning") /\ UNCHANGED answer
  /\ UNCHANGED <<asked, jobs, entries, warned>>

\* Planner._extract_diagnostic_payload.
Supported(t) == t.word \in {"diagnostic", "echo"}

PlanRefused(r) ==
  /\ \/ IsBlank(text[r]) /\ Answers(r, "planning", 400)
     \/ ~IsBlank(text[r]) /\ ~Supported(text[r]) /\ Answers(r, "planning", 422)
     \/ Supported(text[r]) /\ ~started /\ Answers(r, "planning", 503)
  /\ UNCHANGED <<asked, goals, jobs, entries, warned>>

Plan(r) ==
  /\ Supported(text[r]) /\ started
  /\ Goes(r, "planning", "executing")
  /\ UNCHANGED <<asked, goals, jobs, entries, warned, answer>>

\* A Runtime stopped in between makes a failed task, not an error.
Execute(r) ==
  /\ jobs' = IF started THEN jobs \cup {r} ELSE jobs
  /\ IF endpoint[r] = "/orchestrator/request"
     THEN Answers(r, "executing", 200)
     ELSE Goes(r, "executing", "storing") /\ UNCHANGED answer
  /\ UNCHANGED <<asked, goals, entries, warned>>

\* Whatever building or storing the entry raises becomes a warning; the entry
\* may be in memory all the same.
FaultStore(r) ==
  /\ \/ entries' = entries \cup {r} /\ UNCHANGED warned /\ Answers(r, "storing", 200)
     \/ UNCHANGED <<entries, warned>> /\ Answers(r, "storing", 500)
  /\ UNCHANGED <<asked, goals, jobs>>

Store(r) ==
  /\ Answers(r, "storing", 200)
  /\ \/ entries' = entries \cup {r} /\ UNCHANGED warned
     \/ entries' \in {entries, entries \cup {r}} /\ warned' = warned \cup {r}
  /\ UNCHANGED <<asked, goals, jobs>>

Handle(r) ==
  \/ Reject(r) \/ Accept(r) \/ Analyze(r)
  \/ PlanRefused(r) \/ Plan(r) \/ Execute(r) \/ Store(r)

Next ==
  \/ AppNext /\ UNCHANGED requestVars
  \/ (\E r \in Request : Ask(r) \/ Handle(r)) /\ UNCHANGED appVars

\* A request is worked on by its thread, whatever the lifespan does.
Fairness ==
  /\ WF_vars(LifespanGoesOn /\ UNCHANGED requestVars)
  /\ \A r \in Request : WF_vars(Handle(r) /\ UNCHANGED appVars)

Spec == Init /\ [][Next]_vars /\ Fairness

------------------------------------------------------------------------------
(* Properties *)

\* Every variable has its type.
RequestTypeOK ==
  /\ AppTypeOK
  /\ pc \in [Request -> {"unsent", "new", "analyzing", "planning", "executing", "storing",
                         "answered"}]
  /\ goals \in [Request -> {None, "execute-diagnostic", "define-implementation-scope",
                            "define-ui-scope", "define-project-scope"}]
  /\ jobs \subseteq Request /\ entries \subseteq Request /\ warned \subseteq Request
  /\ \A r \in Request : (answer[r] = None) = (pc[r] # "answered")

\* An answer tells what has happened, wherever the Runtime stops on the way:
\* only a request that is answered with 200 has queued or stored anything; what
\* has been executed leaves an entry in memory or a warning in the answer
\* (development_request_service.py:47-56; docs/EXECUTION_PIPELINE.md:73); and
\* what the Planner lets through is what the Brain has decided to execute,
\* although each reads the text by rules of its own (decision_engine.py:15,
\* planner.py:82-90).
AnswersTellWhatHappened ==
  \A r \in Request : pc[r] = "answered" =>
    /\ r \in jobs \cup entries => answer[r] = 200
    /\ endpoint[r] = "/brain/execute" =>
         /\ answer[r] = 200 => r \in entries \cup warned
         /\ r \in jobs => goals[r] = "execute-diagnostic"
    /\ endpoint[r] = "/brain/analyze" => r \notin jobs \cup entries
==============================================================================
