---------------------------- MODULE StepExecutors -----------------------------
(***************************************************************************)
(* What one step of a plan does when the engine runs it: the executors of  *)
(* services/executors that call a database, a web service or a language    *)
(* model, and the datasources they look up (the /admin/datasources         *)
(* routes).  A step looks its datasource up, makes its call, and turns     *)
(* what comes back into success or failure; evidence is written on the     *)
(* side and its failure is passed over.                                    *)
(***************************************************************************)
EXTENDS Naturals, FiniteSets

CONSTANTS
    Sources,        \* names of datasources
    Steps,          \* the steps being executed
    NoSource

VARIABLES
    sources,        \* orchestration.datasources by name
    exec,           \* the steps under execution and their results
    bundles         \* the steps evidence was saved for, here or over HTTP by graphql

executorVars == <<sources, exec, bundles>>

\* What a call ends in.  "refused" is an error status (or an SQL error),
\* "lost" no answer in time, "unreadable" an answer that is not JSON, "invalid"
\* JSON that does not match the step's schema or lacks what the caller needs,
\* "says_failed" a model's answer whose own status is "failed", "blocked" an
\* adapter's answer that the safety gate stopped.
Answers == {"ok", "refused", "lost", "unreadable", "invalid", "says_failed", "blocked"}

\* How the executor of a kind behaves: what it needs before it calls ("source":
\* its datasource; "either": that or a full URL in the path; "nothing": it falls
\* back to a mock service; "given": what the plan's author wrote, a URL, a
\* template, a prompt or a known operation, and the model's key), which answers
\* raise nothing in it, and whether it saves evidence.
SqlExecutor      == [needs |-> "source", accepts |-> {"ok"}, saves |-> TRUE]
RestExecutor     == [needs |-> "either", accepts |-> {"ok", "invalid", "says_failed"}, saves |-> TRUE]
GraphqlExecutor  == [needs |-> "nothing", accepts |-> {"ok", "invalid", "says_failed"}, saves |-> TRUE]
\* A webhook asks only for a status below 400.
WebhookExecutor  == [needs |-> "given", accepts |-> {"ok", "unreadable", "invalid", "says_failed"},
                     saves |-> FALSE]
DocumentGenerateExecutor == [needs |-> "given", accepts |-> {"ok"}, saves |-> FALSE]
AiTransformExecutor      == [needs |-> "given", accepts |-> {"ok", "invalid", "says_failed"}, saves |-> TRUE]
\* A schema error is reported in the output of a step that succeeds.
PromptRunExecutor        == [needs |-> "given", accepts |-> {"ok", "invalid", "says_failed"}, saves |-> FALSE]
\* The answer must carry a result even when the safety gate blocked it.
AdapterAnalyzeExecutor   == [needs |-> "given", accepts |-> {"ok", "blocked", "says_failed"}, saves |-> FALSE]

\* The registry; the other kinds have modules of their own.
Registry ==
    [sql |-> SqlExecutor, rest |-> RestExecutor, graphql |-> GraphqlExecutor,
     webhook |-> WebhookExecutor, document_generate |-> DocumentGenerateExecutor,
     ai_transform |-> AiTransformExecutor, prompt_run |-> PromptRunExecutor,
     adapter_analyze |-> AdapterAnalyzeExecutor]

Kinds == DOMAIN Registry

NotRun == [pc |-> "new", kind |-> "none", answer |-> "none", status |-> "none", found |-> FALSE]

ExecutorInit ==
    /\ sources = [n \in Sources |-> NoSource]
    /\ exec = [s \in Steps |-> NotRun]
    /\ bundles = {}

-----------------------------------------------------------------------------
(* The datasource routes. *)

SourceRows == [on : BOOLEAN, host : BOOLEAN]

create_source(n, row) ==
    /\ sources[n] = NoSource
    /\ sources' = [sources EXCEPT ![n] = row]
    /\ UNCHANGED <<exec, bundles>>

\* Fields that are null are left as they are: a host cannot be taken away.
update_source(n, row) ==
    /\ sources[n] # NoSource
    /\ sources' = [sources EXCEPT ![n] = [on |-> row.on, host |-> @.host \/ row.host]]
    /\ UNCHANGED <<exec, bundles>>

delete_source(n) ==
    /\ sources[n] # NoSource
    /\ sources' = [sources EXCEPT ![n] = NoSource]
    /\ UNCHANGED <<exec, bundles>>

-----------------------------------------------------------------------------
(* Executing a step. *)

\* The row with that name, if it is active and has a host; a lookup that fails
\* counts as none.
_get_datasource_config(n, reached) == reached /\ sources[n] # NoSource /\ sources[n].on /\ sources[n].host

\* Whether there is something to call.
Callable(kind, found, given) ==
    CASE Registry[kind].needs = "source"  -> found
      [] Registry[kind].needs = "either"  -> found \/ given
      [] Registry[kind].needs = "nothing" -> TRUE
      [] OTHER                            -> given

\* ai_transform keeps evidence of a call it could not make, too.
Prepare(s, kind, n, reached, given) ==
    /\ exec[s] = NotRun
    /\ LET found == _get_datasource_config(n, reached)
           can   == Callable(kind, found, given)
       IN  /\ exec' = [exec EXCEPT ![s] = [NotRun EXCEPT !.pc = IF can THEN "call" ELSE "done",
                           !.kind = kind, !.found = found,
                           !.status = IF can THEN "none" ELSE "failed"]]
           /\ bundles' \in {bundles} \cup (IF ~can /\ kind = "ai_transform" THEN {bundles \cup {s}} ELSE {})
    /\ UNCHANGED sources

\* Mutant: whatever ai_transform returns is a result.
ResultTrusted(kind, a) ==
    IF a \in Registry[kind].accepts \/ kind = "ai_transform" THEN "success" ELSE "failed"

\* AiTransformExecutor turns every error into a result with a status, which its
\* adapter turns back into a failure, together with an answer of the model that
\* says so of itself; the others let the error through to the adapter.
ResultOf(kind, a) ==
    IF a \in Registry[kind].accepts /\ ~(kind = "ai_transform" /\ a = "says_failed")
    THEN "success" ELSE "failed"

\* Evidence is written after the call, by ai_transform whatever came of it.
_save_evidence(kind, a) ==
    Registry[kind].saves /\ (a \in Registry[kind].accepts \/ kind = "ai_transform")

Answer(s, a) ==
    /\ exec[s].pc = "call"
    /\ a = "blocked" => exec[s].kind = "adapter_analyze"
    /\ exec' = [exec EXCEPT ![s].pc = "done", ![s].answer = a,
                            ![s].status = ResultOf(exec[s].kind, a)]
    /\ bundles' \in {bundles} \cup (IF _save_evidence(exec[s].kind, a) THEN {bundles \cup {s}} ELSE {})
    /\ UNCHANGED sources

ExecutorNext ==
    \/ \E n \in Sources : \/ \E row \in SourceRows : create_source(n, row) \/ update_source(n, row)
                          \/ delete_source(n)
    \/ \E s \in Steps :
         \/ \E kind \in Kinds, n \in Sources, reached \in BOOLEAN, given \in BOOLEAN :
               Prepare(s, kind, n, reached, given)
         \/ \E a \in Answers : Answer(s, a)

-----------------------------------------------------------------------------

\* A step counts as a success, on which the steps that depend on it go ahead,
\* only when the call it stands for was made and answered: never after an error
\* status, a lost call or, but for a webhook, an answer that could not be read.
\* A database step was moreover given an active datasource with a host when it
\* looked, and evidence of a database or web call exists only if it was
\* answered, although executors catch errors at four different levels.
SuccessWasAnswered ==
    \A s \in Steps :
        LET e == exec[s]
        IN  /\ e.status = "success" =>
                 /\ e.answer \notin {"none", "refused", "lost"}
                 /\ e.answer = "unreadable" => e.kind = "webhook"
                 /\ e.kind = "sql" => e.found
            /\ s \in bundles /\ e.kind # "ai_transform" => e.status = "success"

=============================================================================
