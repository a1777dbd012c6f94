------------------------------ MODULE PromptRuns ------------------------------
(***************************************************************************)
(* Running a prompt (PromptBuilder core/prompt_orchestrator.py with its    *)
(* validation, context and compiler) and what runs prompts: the run        *)
(* endpoint, test cases and their evaluations, and documents made from a   *)
(* prompt's output.  The prompt's blocks, inputs and bindings are live     *)
(* rows that its editors replace while runs are under way; a version gives *)
(* only the guardrails.  Versions are created and published here in one    *)
(* step each: module PromptVersions takes those handlers apart.            *)
(***************************************************************************)
EXTENDS Naturals, Sequences, FiniteSets

CONSTANTS
    Prompts,        \* ids given out in order
    PNames,         \* names of variables, inputs and bindings
    InputDefs,      \* [name, required, default]
    BindDefs,       \* [name, source]
    Guards,         \* sets of guardrails a version may have
    Answers,        \* [taint, json, good, names]: what the model may answer
    Runs, Cases, MaxPromptVersions,
    NoPrompt, NoRun, NoCase, GoneCase

\* The values the parameters of a call may have, and the rows of the tables.
ParamSets  == [PNames -> {"none", "ok", "bad"}]
PromptRows == [status : {"draft", "archived"}, blocks : SUBSET PNames, inputs : SUBSET InputDefs,
               bindings : SUBSET BindDefs,
               vers : Seq([status : {"draft", "published", "archived"}, guard : Guards])]
RunRows    == [on : Prompts, status : {"running", "success", "error"}]
CaseRow    == [on : Prompts, params : ParamSets, checks : BOOLEAN]

\* No run has the number 0; no row is a row.
ASSUME PromptAssumption ==
    /\ Runs \subseteq Nat \ {0}
    /\ InputDefs \subseteq [name : PNames, required : BOOLEAN, default : {"none", "ok", "bad"}]
    /\ NoPrompt \notin PromptRows /\ NoRun \notin RunRows
    /\ {NoCase, GoneCase} \cap (CaseRow \cup Cases) = {} /\ NoCase # GoneCase

VARIABLES
    prm,        \* prompts with their blocks, inputs, bindings and versions
    prun,       \* prompt_runs by id
    preq,       \* the request of each run: where it stands and what it has read
    told,       \* what its caller was told
    tcase,      \* prompt_test_cases by id
    evals,      \* prompt_evaluations
    sweep,      \* test cases an evaluation of all of them still has to run
    docs        \* runs whose document Template Builder has a job for

promptVars == <<prm, prun, preq, told, tcase, evals, sweep, docs>>

Unstarted == [pc |-> "none"]

PromptInit ==
    /\ prm = [p \in Prompts |-> NoPrompt] /\ prun = [r \in Runs |-> NoRun]
    /\ preq = [r \in Runs |-> Unstarted] /\ told = [r \in Runs |-> "nothing"]
    /\ tcase = [c \in Cases |-> NoCase] /\ evals = {} /\ sweep = {} /\ docs = {}

Made == {p \in Prompts : prm[p] # NoPrompt}

\* The test cases there are; an id is not used twice.
CaseRows == {c \in Cases : tcase[c] \notin {NoCase, GoneCase}}

runVars == <<prun, preq, told, evals, sweep, docs>>

-----------------------------------------------------------------------------
(* Editing (api/prompts.py).  Blocks, inputs and bindings are replaced as a  *)
(* whole in one transaction.                                                 *)

AddPrompt(p, row) ==
    /\ prm[p] = NoPrompt /\ \A o \in Prompts : o < p => o \in Made
    /\ prm' = [prm EXCEPT ![p] = row]
    /\ UNCHANGED <<runVars, tcase>>

create_prompt(p) ==
    AddPrompt(p, [status |-> "draft", blocks |-> {}, inputs |-> {}, bindings |-> {}, vers |-> <<>>])

\* Everything but the versions, and a draft again.
duplicate_prompt(p, q) ==
    q \in Made /\ AddPrompt(p, [prm[q] EXCEPT !.status = "draft", !.vers = <<>>])

\* Any status the caller names.
update_prompt(p, st) ==
    /\ p \in Made
    /\ prm' = [prm EXCEPT ![p].status = st]
    /\ UNCHANGED <<runVars, tcase>>

replace_prompt_blocks(p, B) ==
    p \in Made /\ prm' = [prm EXCEPT ![p].blocks = B] /\ UNCHANGED <<runVars, tcase>>

\* UNIQUE (prompt_id, name).
replace_prompt_inputs(p, I) ==
    /\ p \in Made /\ \A x, y \in I : x.name = y.name => x = y
    /\ prm' = [prm EXCEPT ![p].inputs = I]
    /\ UNCHANGED <<runVars, tcase>>

replace_prompt_context_bindings(p, B) ==
    p \in Made /\ prm' = [prm EXCEPT ![p].bindings = B] /\ UNCHANGED <<runVars, tcase>>

DraftVersion(p, g) ==
    /\ p \in Made /\ Len(prm[p].vers) < MaxPromptVersions
    /\ prm' = [prm EXCEPT ![p].vers = Append(@, [status |-> "draft", guard |-> g])]
    /\ UNCHANGED <<runVars, tcase>>

PublishVersion(p) ==
    /\ p \in Made /\ prm[p].vers # <<>>
    /\ LET n == Len(prm[p].vers)
       IN  prm' = [prm EXCEPT ![p].vers = [i \in 1..n |->
                    [@[i] EXCEPT !.status = IF i = n THEN "published" ELSE "archived"]]]
    /\ UNCHANGED <<runVars, tcase>>

-----------------------------------------------------------------------------
(* The algorithms of a run. *)

HighestOf(p, V) == IF V = {} THEN 0 ELSE CHOOSE v \in V : \A w \in V : w <= v

WithStatus(p, st) == {v \in DOMAIN prm[p].vers : prm[p].vers[v].status = st}

\* 0: no version, and then no guardrails; the run goes ahead.
_load_version(p, spec, allow_draft) ==
    LET v == IF spec = "latest" THEN HighestOf(p, DOMAIN prm[p].vers)
             ELSE HighestOf(p, WithStatus(p, "published"))
    IN  IF v = 0 /\ allow_draft THEN HighestOf(p, WithStatus(p, "draft")) ELSE v

GuardOf(p, v) == IF v = 0 THEN {} ELSE prm[p].vers[v].guard

\* `params' gives each name "none", "ok" or "bad": of another type, or against
\* the pattern, the enum or the bounds of its input.
_check_type(value) == value # "bad"

\* A default stands in for an absent value.
InputError(i, params) ==
    LET value == IF params[i.name] = "none" THEN i.default ELSE params[i.name]
    IN  IF value = "none" THEN i.required ELSE ~_check_type(value)

validate_runtime_params(I, params) == {i.name : i \in {x \in I : InputError(x, params)}}

Given(params) == {n \in PNames : params[n] # "none"}

\* The bindings that have a value; one that fails is only noted.
resolve_context(B, params, up) ==
    {b.name : b \in {x \in B :
        CASE x.source = "runtime" -> x.name \in Given(params)
          [] x.source = "static"  -> TRUE
          [] OTHER                -> up}}

\* The variables left in the text: the defaults of inputs are not among the
\* values it is filled with.
compile_prompt(blocks, params, context) == blocks \ (Given(params) \cup context)

\* Mutant: the topics are looked at only when safe mode is off.
BlockedUnlessSafe(guard, ans) ==
    IF "safe_mode" \in guard THEN ans.taint \cap {"safe_mode"} ELSE ans.taint \cap guard

\* The guardrails an answer breaks: _check_safe_mode, then
\* _check_topic_restrictions.
Blocked(guard, ans) == ans.taint \cap guard

\* A failed check raises, unparseable JSON answers "error"; missing fields of the
\* output schema are only traced.
Outcome(guard, ans) == IF Blocked(guard, ans) = {} /\ ans.json THEN "success" ELSE "error"

-----------------------------------------------------------------------------
(* A run, step by step. *)

Running(r) == preq[r].pc \in {"load", "llm", "persist", "evaluate", "document"}

\* STEP 1, 2: the prompt and its version; an unknown prompt is a 404.
BeginRun(r, kind, p, spec, allow, params, c, checks) ==
    /\ preq[r] = Unstarted /\ p \in Made /\ \A o \in Runs : o < r => preq[o] # Unstarted
    /\ LET v == _load_version(p, spec, allow)
       IN  preq' = [preq EXCEPT ![r] =
                [pc |-> "load", kind |-> kind, on |-> p, version |-> v, guard |-> GuardOf(p, v),
                 params |-> params, case |-> c, checks |-> checks]]
    /\ UNCHANGED <<prm, prun, told, tcase, evals, docs>>

\* What an answer that is an error leads to: a test is evaluated all the same.
AfterError(q) == [q EXCEPT !.pc = IF q.kind = "test" THEN "evaluate" ELSE "done"]

\* STEP 3, 4: the live rows.  The failed run is recorded, if the database lets it.
ValidationFails(r, saved) ==
    /\ preq[r].pc = "load"
    /\ validate_runtime_params(prm[preq[r].on].inputs, preq[r].params) # {}
    /\ prun' = IF saved THEN [prun EXCEPT ![r] = [on |-> preq[r].on, status |-> "error"]] ELSE prun
    /\ preq' = [preq EXCEPT ![r] = AfterError([kind |-> @.kind, on |-> @.on, case |-> @.case,
                                               checks |-> @.checks, pc |-> "done", run |-> FALSE, error |-> TRUE])]
    /\ told' = [told EXCEPT ![r] = "error"]
    /\ UNCHANGED <<prm, tcase, evals, sweep, docs>>

\* STEP 5, 6, 7: context, compilation, and the row, which may fail to be inserted.
CompileAndRecord(r, up, saved) ==
    /\ preq[r].pc = "load"
    /\ LET q == preq[r]
           x == prm[q.on]
       IN  /\ validate_runtime_params(x.inputs, q.params) = {}
           /\ prun' = IF saved THEN [prun EXCEPT ![r] = [on |-> q.on, status |-> "running"]] ELSE prun
           /\ preq' = [preq EXCEPT ![r] =
                [pc |-> "llm", kind |-> q.kind, on |-> q.on, guard |-> q.guard, case |-> q.case,
                 checks |-> q.checks, missing |-> compile_prompt(x.blocks, q.params, resolve_context(x.bindings, q.params, up)),
                 free |-> {i.name : i \in {y \in x.inputs : ~y.required \/ y.default # "none"}}
                          \cup (PNames \ {i.name : i \in x.inputs})]]
    /\ UNCHANGED <<prm, told, tcase, evals, sweep, docs>>

\* STEP 8 to 10: the model's answer and the checks on it.
Judge(r, ans) ==
    /\ preq[r].pc = "llm"
    /\ preq' = [preq EXCEPT ![r] =
            [pc |-> "persist", kind |-> @.kind, on |-> @.on, guard |-> @.guard, case |-> @.case, checks |-> @.checks,
             missing |-> @.missing, free |-> @.free, ans |-> ans, result |-> Outcome(@.guard, ans),
             raised |-> Blocked(@.guard, ans) # {}]]
    /\ UNCHANGED <<prm, prun, told, tcase, evals, sweep, docs>>

LlmFails(r) ==
    /\ preq[r].pc = "llm"
    /\ preq' = [preq EXCEPT ![r] =
            [pc |-> "persist", kind |-> @.kind, on |-> @.on, guard |-> @.guard, case |-> @.case, checks |-> @.checks,
             missing |-> @.missing, free |-> @.free,
             ans |-> [taint |-> {}, json |-> FALSE, good |-> FALSE, names |-> FALSE],
             result |-> "error", raised |-> TRUE]]
    /\ UNCHANGED <<prm, prun, told, tcase, evals, sweep, docs>>

\* The outcome and its traces, in one transaction whose failure is only logged;
\* without a row the traces' foreign key fails it.
_persist_run_outcome(r, saved) ==
    IF saved /\ prun[r] # NoRun THEN [prun EXCEPT ![r].status = preq[r].result] ELSE prun

\* STEP 11.  A run that raised gives its caller no run id.
run_prompt(r, saved) ==
    /\ preq[r].pc = "persist"
    /\ prun' = _persist_run_outcome(r, saved)
    /\ LET q == preq[r]
       IN  /\ preq' = [preq EXCEPT ![r] =
                CASE q.kind = "test" -> [kind |-> "test", on |-> q.on, case |-> q.case, checks |-> q.checks, ans |-> q.ans,
                                         pc |-> "evaluate", run |-> ~q.raised, error |-> q.result = "error"]
                  [] q.kind = "document" /\ q.result = "success" -> [q EXCEPT !.pc = "document"]
                  [] OTHER -> [q EXCEPT !.pc = "done"]]
           /\ told' = [told EXCEPT ![r] = IF q.kind = "document" /\ q.result = "success" THEN "nothing" ELSE q.result]
    /\ UNCHANGED <<prm, tcase, evals, sweep, docs>>

\* The service stops: nobody is told anything, a running row stays.
RunCrashes(r) ==
    /\ Running(r)
    /\ preq' = [preq EXCEPT ![r] = [pc |-> "crashed"]]
    /\ UNCHANGED <<prm, prun, told, tcase, evals, sweep, docs>>

execute_prompt(r, p, spec, allow, params) ==
    BeginRun(r, "run", p, spec, allow, params, NoCase, FALSE) /\ UNCHANGED sweep

-----------------------------------------------------------------------------
(* Test cases and evaluations. *)

create_test_case(c, p, params, checks) ==
    /\ tcase[c] = NoCase /\ p \in Made
    /\ tcase' = [tcase EXCEPT ![c] = [on |-> p, params |-> params, checks |-> checks]]
    /\ UNCHANGED <<prm, runVars>>

update_test_case(c, params, checks) ==
    /\ c \in CaseRows
    /\ tcase' = [tcase EXCEPT ![c].params = params, ![c].checks = checks]
    /\ UNCHANGED <<prm, runVars>>

\* ON DELETE SET NULL for the evaluations.
delete_test_case(c) ==
    /\ c \in CaseRows
    /\ tcase' = [tcase EXCEPT ![c] = GoneCase]
    /\ evals' = {IF e.case = c THEN [e EXCEPT !.case = NoCase] ELSE e : e \in evals}
    /\ UNCHANGED <<prm, prun, preq, told, sweep, docs>>

\* A saved case, or one that comes with the request.
BeginTest(r, c, allow) ==
    /\ c \in CaseRows
    /\ BeginRun(r, "test", tcase[c].on, "latest", allow, tcase[c].params, c, tcase[c].checks)
    /\ UNCHANGED sweep

BeginAdHocTest(r, p, allow, params, checks) ==
    BeginRun(r, "test", p, "latest", allow, params, NoCase, checks) /\ UNCHANGED sweep

\* Every case there is now, one after the other; one deleted before its turn
\* counts as failed.
evaluate_all_test_cases(p) ==
    /\ p \in Made /\ sweep = {}
    /\ sweep' = {c \in CaseRows : tcase[c].on = p}
    /\ UNCHANGED <<prm, prun, preq, told, tcase, evals, docs>>

SweepCase(r, c) ==
    /\ c \in sweep /\ \A o \in Runs : ~Running(o)
    /\ sweep' = sweep \ {c}
    /\ IF c \notin CaseRows
       THEN r = 1 /\ UNCHANGED <<prm, prun, preq, told, tcase, evals, docs>>
       ELSE BeginRun(r, "test", tcase[c].on, "latest", TRUE, tcase[c].params, c, tcase[c].checks)

\* Nothing to check is passed.
_evaluate_checks(q) == ~q.checks \/ q.ans.good

\* Mutant: what a failed run did not answer is evaluated like an answer.
ScoreAnyway(q) == IF "ans" \in DOMAIN q THEN _evaluate_checks(q) ELSE ~q.checks

Score(q) == IF q.error THEN FALSE ELSE _evaluate_checks(q)

\* The foreign keys: the case may be gone, or the run never have been recorded.
CanSaveEvaluation(r) ==
    LET q == preq[r] IN (q.case = NoCase \/ q.case \in CaseRows) /\ (q.run => prun[r] # NoRun)

_save_evaluation(r) ==
    evals' = IF CanSaveEvaluation(r)
             THEN evals \cup {[run |-> IF preq[r].run THEN r ELSE 0, case |-> preq[r].case,
                               on |-> preq[r].on, passed |-> Score(preq[r])]}
             ELSE evals

run_prompt_test(r) ==
    /\ preq[r].pc = "evaluate"
    /\ _save_evaluation(r)
    /\ preq' = [preq EXCEPT ![r] = [pc |-> "done"]]
    /\ UNCHANGED <<prm, prun, told, tcase, sweep, docs>>

-----------------------------------------------------------------------------
(* POST /{prompt_id}/generate-document. *)

BeginDocument(r, p, spec, allow, params) ==
    BeginRun(r, "document", p, spec, allow, params, NoCase, FALSE) /\ UNCHANGED sweep

\* The template the output names, or the one the request does; then one call to
\* Template Builder, with 90 seconds to answer.  "lost": it made the job, and the
\* answer did not arrive.
generate_document_from_prompt(r, override, answer) ==
    /\ preq[r].pc = "document"
    /\ IF preq[r].ans.names \/ override
       THEN /\ docs' = IF answer = "refused" THEN docs ELSE docs \cup {r}
            /\ told' = [told EXCEPT ![r] = IF answer = "made" THEN "success" ELSE "error"]
       ELSE told' = [told EXCEPT ![r] = "error"] /\ UNCHANGED docs
    /\ preq' = [preq EXCEPT ![r].pc = "done"]
    /\ UNCHANGED <<prm, prun, tcase, evals, sweep>>

-----------------------------------------------------------------------------

NewPrompts ==
    \E p \in Prompts : create_prompt(p) \/ \E q \in Prompts : duplicate_prompt(p, q)

EditPrompt(p) ==
    \/ PublishVersion(p)
    \/ \E st \in {"draft", "archived"} : update_prompt(p, st)
    \/ \E B \in SUBSET PNames : replace_prompt_blocks(p, B)
    \/ \E I \in SUBSET InputDefs : replace_prompt_inputs(p, I)
    \/ \E B \in SUBSET BindDefs : replace_prompt_context_bindings(p, B)
    \/ \E g \in Guards : DraftVersion(p, g)

RunPrompts ==
    \E r \in Runs :
        \/ \E p \in Prompts, spec \in {"latest", "published"}, allow \in BOOLEAN, params \in ParamSets :
              execute_prompt(r, p, spec, allow, params) \/ BeginDocument(r, p, spec, allow, params)
        \/ \E saved \in BOOLEAN :
              \/ ValidationFails(r, saved) \/ run_prompt(r, saved)
              \/ \E up \in BOOLEAN : CompileAndRecord(r, up, saved)
        \/ \E ans \in Answers : Judge(r, ans)
        \/ LlmFails(r) \/ RunCrashes(r)
        \/ \E override \in BOOLEAN, a \in {"made", "refused", "lost"} : generate_document_from_prompt(r, override, a)

TestPrompts ==
    \/ \E c \in Cases :
          \/ \E params \in ParamSets, checks \in BOOLEAN :
                update_test_case(c, params, checks) \/ \E p \in Prompts : create_test_case(c, p, params, checks)
          \/ delete_test_case(c)
          \/ \E r \in Runs : SweepCase(r, c) \/ \E allow \in BOOLEAN : BeginTest(r, c, allow)
    \/ \E r \in Runs :
          \/ run_prompt_test(r)
          \/ \E p \in Prompts, allow \in BOOLEAN, params \in ParamSets, checks \in BOOLEAN :
                BeginAdHocTest(r, p, allow, params, checks)
    \/ \E p \in Prompts : evaluate_all_test_cases(p)

-----------------------------------------------------------------------------
(* What running prompts promises. *)

\* Whoever is told that a run succeeded got an answer none of the guardrails of
\* the version it loaded objects to, made from a prompt in which every required
\* input without a default was filled in - whatever editors and publishers did
\* to the prompt while the run was under way.  A document is made of such a run
\* or of none.
RunAsAsked ==
    \A r \in Runs :
        (told[r] = "success" \/ r \in docs) /\ preq[r].pc = "done" /\ "guard" \in DOMAIN preq[r] =>
            /\ preq[r].ans.taint \cap preq[r].guard = {} /\ preq[r].ans.json
            /\ preq[r].missing \subseteq preq[r].free

\* An evaluation that says passed is of a run that is on record, is not recorded
\* as an error, and belongs to the prompt evaluated; and a case it names exists.
EvaluationTraceable ==
    \A e \in evals :
        /\ e.case # NoCase => e.case \in CaseRows /\ tcase[e.case].on = e.on
        /\ e.run # 0 => prun[e.run] # NoRun /\ prun[e.run].on = e.on
        /\ e.passed => e.run # 0 /\ prun[e.run].status # "error"

=============================================================================
