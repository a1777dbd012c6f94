------------------------------- MODULE PlanDef -------------------------------
(***************************************************************************)
(* A plan as the orchestration engine sees it: its steps, their            *)
(* dependencies and conditions, and the pure decisions that                *)
(* PlanOrchestrator.execute_plan and its two callers take from them.       *)
(* orchestration/services/orchestrator.py, expression.py and main.py.      *)
(*                                                                         *)
(* Step outputs are abstracted to the one thing control depends on: the    *)
(* value a condition_expr, the pause check or the business-failure scan    *)
(* tells apart.                                                            *)
(***************************************************************************)
EXTENDS Naturals, FiniteSets

CONSTANTS
    Steps,          \* the step_keys of the plan
    Enabled,        \* those whose `enabled` flag is set
    DependsOn,      \* [Steps -> SUBSET Steps]
    Kind,           \* [Steps -> Kinds]
    Cond,           \* [Steps -> SUBSET (Steps \X Outcomes)]: condition_expr
    MaxConcurrency, \* plan["max_concurrency"] or 8
    TaskOutputs,    \* the outputs of a task under study, out of TaskOutcomes
    TraceFaults,    \* may the database refuse a write of a trace row?
    Policies        \* the values of error_policy under study

\* Step kinds, as far as the engine and the review handlers tell them apart.
\* "ticket_only" is a human_review step whose bindings say mode == ticket_only;
\* every other executor is a "task".
Kinds == {"task", "human_review", "ticket_only"}

\* A task's output says nothing of interest, or overall_status == FAILED.
TaskOutcomes == {"ok", "overall_failed"}

\* What a step's output dict says: its `status` or overall_status.
Outcomes == TaskOutcomes \cup {"pending_human_review", "approved",
                              "manual_review_ticket_raised"}

\* No entry for the step in ctx.results.
NoResult == "no_result"

ResultValues == Outcomes \cup {NoResult}

\* No step: the initial value of paused_at_step.
NoStep == "no_step"

AllPolicies == {"fail_fast", "dependent_fail", "best_effort"}

ASSUME PlanAssumption ==
    /\ IsFiniteSet(Steps)
    /\ Enabled \subseteq Steps
    /\ DependsOn \in [Steps -> SUBSET Steps]
    /\ Kind \in [Steps -> Kinds]
    /\ Cond \in [Steps -> SUBSET (Steps \X Outcomes)]
    /\ NoStep \notin Steps

ASSUME ConcurrencyAssumption == MaxConcurrency \in Nat \ {0}

ASSUME OutputAssumption == TaskOutputs \subseteq TaskOutcomes

ASSUME FaultAssumption == TraceFaults \in BOOLEAN

ASSUME PolicyAssumption == Policies \subseteq AllPolicies

-----------------------------------------------------------------------------

\* The outputs an executor of this kind can return with status "success".
StepOutputs(s) ==
    CASE Kind[s] = "human_review" -> {"pending_human_review"}
      [] Kind[s] = "ticket_only"  -> {"manual_review_ticket_raised"}
      [] OTHER                    -> TaskOutputs

\* The two ways a task step fails: its executor returns status "failed", or it
\* raises.  The review executor does neither: all it does is best effort.
StepFailures(s) == IF Kind[s] = "task" THEN {"failed", "raised"} ELSE {}

EmptyResults == [s \in Steps |-> NoResult]

\* The keys of a results dict.
Keys(res) == {s \in Steps : res[s] # NoResult}

\* A condition_expr is a conjunction of tests results.<step>.status == <v>.  No
\* condition holds; a test on a step that has no result is an error, so false.
eval_condition(s, res) == \A t \in Cond[s] : res[t[1]] = t[2]

\* Mutant: one completed dependency is enough.
ReadyOnAnyDependency(pend, compl, res) ==
    {s \in pend : /\ DependsOn[s] = {} \/ DependsOn[s] \cap compl # {}
                  /\ eval_condition(s, res)}

\* The pending steps the loop hands to the pool.
ReadySteps(pend, compl, res) ==
    {s \in pend : DependsOn[s] \subseteq compl /\ eval_condition(s, res)}

\* Mutant: the error policy is not looked at, nothing is skipped.
NothingToSkip(pol, pend, fail) == {}

\* The pending steps the loop drops because a direct dependency failed.
StepsToSkip(pol, pend, fail) ==
    IF pol = "dependent_fail"
    THEN {s \in pend : DependsOn[s] \cap fail # {}}
    ELSE {}

\* Steps whose own output says overall_status == FAILED.
BusinessFailures(res) == {s \in Steps : res[s] = "overall_failed"}

\* Mutant: the status is worked out from results and errors alone.
ExecStatusWithoutPause(res, errs, paused) ==
    IF (errs # {} /\ Keys(res) = {}) \/ BusinessFailures(res) # {} THEN "failed"
    ELSE IF errs = {} THEN "success"
    ELSE "partial"

\* The status the callers store, and the step_keys they store under `errors`.
ExecStatus(res, errs, paused) ==
    IF paused # NoStep THEN "paused"
    ELSE IF (errs # {} /\ Keys(res) = {}) \/ BusinessFailures(res) # {} THEN "failed"
    ELSE IF errs = {} THEN "success"
    ELSE "partial"

StoredErrors(res, errs, paused) ==
    IF paused = NoStep /\ ExecStatus(res, errs, paused) = "failed"
    THEN errs \cup BusinessFailures(res)
    ELSE errs

=============================================================================
