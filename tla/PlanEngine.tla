----------------------------- MODULE PlanEngine -----------------------------
(***************************************************************************)
(* PlanOrchestrator.execute_plan (orchestration/services/orchestrator.py): *)
(* the scheduling loop on the caller's thread and the ThreadPoolExecutor   *)
(* whose workers run _run_step_with_metrics.                               *)
(*                                                                         *)
(* Calls are invocations of execute_plan.  Everything is indexed by call:  *)
(* two calls share no memory, only the database, which the module          *)
(* HumanReview adds.  A name the code has is kept; the variables without a *)
(* counterpart there are pc (where the loop is), thread and ret (what the  *)
(* pool knows of a future) and batch (`done` of the current iteration).    *)
(***************************************************************************)
EXTENDS PlanDef

CONSTANTS
    Calls,
    Seeds   \* the results a call may be seeded with, when it runs on its own

ASSUME SeedAssumption == Seeds \subseteq [Steps -> ResultValues]

VARIABLES
    pc,             \* [Calls -> PcValues]
    error_policy,   \* [Calls -> AllPolicies]
    pending,        \* [Calls -> SUBSET Steps]
    completed,      \* [Calls -> SUBSET Steps], seeded steps included
    failed,         \* [Calls -> SUBSET Steps]
    skipped,        \* [Calls -> SUBSET Steps]
    futures,        \* [Calls -> SUBSET Steps], the steps of the live futures
    batch,          \* [Calls -> SUBSET Steps], what is left of `done`
    abort,          \* [Calls -> BOOLEAN]
    paused_at_step, \* [Calls -> Steps \cup {NoStep}]
    results,        \* [Calls -> [Steps -> ResultValues]]
    thread,         \* [Calls -> [Steps -> ThreadValues]]
    ret,            \* [Calls -> [Steps -> RetValues]], what the worker returned
    trace           \* [Calls -> [Steps -> TraceValues]], execution_steps rows

loopVars == <<error_policy, pending, completed, failed, skipped, futures, batch,
              abort, paused_at_step, results>>
poolVars == <<thread, ret, trace>>
engineVars == <<pc, error_policy, pending, completed, failed, skipped, futures,
                batch, abort, paused_at_step, results, thread, ret, trace>>

PcValues     == {"idle", "loop", "wait", "harvest", "cancel", "drain", "returned"}
ThreadValues == {"idle", "queued", "running", "done", "cancelled"}
RetValues    == ResultValues \cup {"failed", "raised"}
TraceValues  == {"no_row", "running", "success", "failed", "skipped"}

EngineInit ==
    /\ pc             = [c \in Calls |-> "idle"]
    /\ error_policy   \in [Calls -> Policies]
    /\ pending        = [c \in Calls |-> {}]
    /\ completed      = [c \in Calls |-> {}]
    /\ failed         = [c \in Calls |-> {}]
    /\ skipped        = [c \in Calls |-> {}]
    /\ futures        = [c \in Calls |-> {}]
    /\ batch          = [c \in Calls |-> {}]
    /\ abort          = [c \in Calls |-> FALSE]
    /\ paused_at_step = [c \in Calls |-> NoStep]
    /\ results        = [c \in Calls |-> EmptyResults]
    /\ thread         = [c \in Calls |-> [s \in Steps |-> "idle"]]
    /\ ret            = [c \in Calls |-> [s \in Steps |-> NoResult]]
    /\ trace          = [c \in Calls |-> [s \in Steps |-> "no_row"]]

-----------------------------------------------------------------------------
(* The loop, on the caller's thread. *)

\* Mutant: completed_step_keys is not taken out of the pending steps.
BeginWithAllPending(c, seed) ==
    /\ pc[c] = "idle"
    /\ pc'        = [pc EXCEPT ![c] = "loop"]
    /\ results'   = [results EXCEPT ![c] = seed]
    /\ completed' = [completed EXCEPT ![c] = Keys(seed)]
    /\ pending'   = [pending EXCEPT ![c] = Enabled]
    /\ UNCHANGED <<error_policy, failed, skipped, futures, batch, abort,
                   paused_at_step, poolVars>>

\* Entry: resume_seed gives the results of an earlier call, whose keys count as
\* completed (both callers pass exactly the keys of the results they pass).
Begin(c, seed) ==
    /\ pc[c] = "idle"
    /\ pc'        = [pc EXCEPT ![c] = "loop"]
    /\ results'   = [results EXCEPT ![c] = seed]
    /\ completed' = [completed EXCEPT ![c] = Keys(seed)]
    /\ pending'   = [pending EXCEPT ![c] = Enabled \ Keys(seed)]
    /\ UNCHANGED <<error_policy, failed, skipped, futures, batch, abort,
                   paused_at_step, poolVars>>

\* Mutant: the loop is left only when it has run dry.
LeaveLoopWhenDry(c) ==
    /\ pc[c] = "loop"
    /\ pending[c] = {} /\ futures[c] = {} /\ ~abort[c]
    /\ pc'      = [pc EXCEPT ![c] = "drain"]
    /\ UNCHANGED <<loopVars, poolVars>>

\* `while pending or futures` is false, or the abort branch clears pending.
LeaveLoop(c) ==
    /\ pc[c] = "loop"
    /\ abort[c] \/ (pending[c] = {} /\ futures[c] = {})
    /\ pc'      = [pc EXCEPT ![c] = "drain"]
    /\ pending' = [pending EXCEPT ![c] = {}]
    /\ UNCHANGED <<error_policy, completed, failed, skipped, futures, batch,
                   abort, paused_at_step, results, poolVars>>

\* The sets of trace rows, out of S, that the database may refuse to write.
Refusable(S) == IF TraceFaults THEN SUBSET S ELSE {{}}

\* With nothing in flight there is nothing to wait for.
AfterSubmit(futs) == IF futs = {} THEN "drain" ELSE "wait"

\* One iteration up to wait(): skip, find the ready steps, submit them.  A skip
\* writes a trace row, best effort: `lost` are the ones the database refused.
Schedule(c) ==
    LET skip  == StepsToSkip(error_policy[c], pending[c], failed[c])
        ready == IF paused_at_step[c] # NoStep THEN {}
                 ELSE ReadySteps(pending[c] \ skip, completed[c] \cup skip, results[c])
    IN  /\ pc[c] = "loop"
        /\ ~abort[c]
        /\ pending[c] # {} \/ futures[c] # {}
        /\ skipped'   = [skipped EXCEPT ![c] = @ \cup skip]
        /\ completed' = [completed EXCEPT ![c] = @ \cup skip]
        /\ pending'   = [pending EXCEPT ![c] = (@ \ skip) \ ready]
        /\ futures'   = [futures EXCEPT ![c] = @ \cup ready]
        /\ thread'    = [thread EXCEPT ![c] =
                            [s \in Steps |-> IF s \in ready THEN "queued" ELSE @[s]]]
        /\ \E lost \in Refusable(skip) :
              trace'  = [trace EXCEPT ![c] =
                            [s \in Steps |-> IF s \in skip \ lost THEN "skipped" ELSE @[s]]]
        /\ pc' = [pc EXCEPT ![c] = AfterSubmit(futures[c] \cup ready)]
        /\ UNCHANGED <<error_policy, failed, batch, abort, paused_at_step, results, ret>>

\* wait(..., FIRST_COMPLETED) returns every future that is done by then.
Wait(c) ==
    LET done == {s \in futures[c] : thread[c][s] = "done"}
    IN  /\ pc[c] = "wait"
        /\ done # {}
        /\ batch' = [batch EXCEPT ![c] = done]
        /\ pc'    = [pc EXCEPT ![c] = "harvest"]
        /\ UNCHANGED <<error_policy, pending, completed, failed, skipped, futures,
                       abort, paused_at_step, results, poolVars>>

\* Mutant: a pause leaves the loop with futures still in flight.
AfterHarvestAtOnce(left, futs, paused) ==
    IF left # {} THEN "harvest"
    ELSE IF paused # NoStep THEN "drain"
    ELSE "loop"

\* Where the loop goes once a future has been dealt with: the next one of the
\* batch, out of the loop when paused with nothing in flight, or round again.
AfterHarvest(left, futs, paused) ==
    IF left # {} THEN "harvest"
    ELSE IF paused # NoStep /\ futs = {} THEN "drain"
    ELSE "loop"

\* Mutants: no result pauses the plan; a review that only raises a ticket does.
NeverPause(c, s) == paused_at_step[c]

PauseOnAnyReview(c, s) == IF Kind[s] # "task" THEN s ELSE paused_at_step[c]

\* A human review whose output says it is pending pauses the plan.
PauseAfter(c, s) ==
    IF Kind[s] = "human_review" /\ ret[c][s] = "pending_human_review"
    THEN s ELSE paused_at_step[c]

\* fut.result() returns: the result is stored, and may pause the plan.
HarvestSuccess(c, s) ==
    /\ pc[c] = "harvest"
    /\ s \in batch[c]
    /\ ret[c][s] \in Outcomes
    /\ futures'   = [futures EXCEPT ![c] = @ \ {s}]
    /\ batch'     = [batch EXCEPT ![c] = @ \ {s}]
    /\ results'   = [results EXCEPT ![c][s] = ret[c][s]]
    /\ completed' = [completed EXCEPT ![c] = @ \cup {s}]
    /\ paused_at_step' = [paused_at_step EXCEPT ![c] = PauseAfter(c, s)]
    /\ pc' = [pc EXCEPT ![c] =
                 AfterHarvest(batch[c] \ {s}, futures[c] \ {s}, PauseAfter(c, s))]
    /\ UNCHANGED <<error_policy, pending, failed, skipped, abort, poolVars>>

\* fut.result() raises.  Under fail_fast the rest of the batch is abandoned and
\* the loop goes on to cancel the other futures.
HarvestFailure(c, s) ==
    LET stop == error_policy[c] = "fail_fast"
        left == IF stop THEN {} ELSE batch[c] \ {s}
    IN  /\ pc[c] = "harvest"
        /\ s \in batch[c]
        /\ ret[c][s] \in {"failed", "raised"}
        /\ failed'    = [failed EXCEPT ![c] = @ \cup {s}]
        /\ completed' = [completed EXCEPT ![c] = @ \cup {s}]
        /\ futures'   = [futures EXCEPT ![c] = @ \ {s}]
        /\ batch'     = [batch EXCEPT ![c] = left]
        /\ abort'     = [abort EXCEPT ![c] = stop]
        /\ pc' = [pc EXCEPT ![c] =
                     IF stop /\ futures[c] # {s} THEN "cancel"
                     ELSE AfterHarvest(left, futures[c] \ {s}, paused_at_step[c])]
        /\ UNCHANGED <<error_policy, pending, skipped, paused_at_step, results,
                       poolVars>>

\* f.cancel() reaches a future no worker has picked up; any other one, running
\* or finished, is only forgotten.  Workers go on taking steps in between.
Cancel(c, s) ==
    /\ pc[c] = "cancel"
    /\ s \in futures[c]
    /\ thread'  = [thread EXCEPT ![c][s] = IF @ = "queued" THEN "cancelled" ELSE @]
    /\ futures' = [futures EXCEPT ![c] = @ \ {s}]
    /\ pc' = [pc EXCEPT ![c] =
                 IF futures[c] # {s} THEN "cancel"
                 ELSE AfterHarvest({}, {}, paused_at_step[c])]
    /\ UNCHANGED <<error_policy, pending, completed, failed, skipped, batch, abort,
                   paused_at_step, results, ret, trace>>

\* Mutant: the pool is shut down without waiting for its workers.
ReturnWithoutJoin(c) ==
    /\ pc[c] = "drain"
    /\ pc' = [pc EXCEPT ![c] = "returned"]
    /\ UNCHANGED <<loopVars, poolVars>>

\* Leaving the `with` block joins the workers; then the call returns.
Return(c) ==
    /\ pc[c] = "drain"
    /\ \A s \in Steps : thread[c][s] \notin {"queued", "running"}
    /\ pc' = [pc EXCEPT ![c] = "returned"]
    /\ UNCHANGED <<loopVars, poolVars>>

-----------------------------------------------------------------------------
(* The pool's workers. *)

Running(c) == {s \in Steps : thread[c][s] = "running"}

\* The row is inserted as queued and set running, or the step goes on without one.
FirstRows == {"running"} \cup (IF TraceFaults THEN {"no_row"} ELSE {})

\* A worker takes a queued step and writes its trace row, best effort.
StartStep(c, s) ==
    /\ thread[c][s] = "queued"
    /\ Cardinality(Running(c)) < MaxConcurrency
    /\ thread' = [thread EXCEPT ![c][s] = "running"]
    /\ \E row \in FirstRows :
          trace' = [trace EXCEPT ![c][s] = row]
    /\ UNCHANGED <<pc, loopVars, ret>>

\* Mutant: every end is a success.
AlwaysSuccessRow(row, v) == IF row = "no_row" THEN {row} ELSE {"success"}

\* The trace rows a step may end with: no row is ever created late, an executor
\* that raises leaves its row alone, and any update may be refused.
FinalRows(row, v) ==
    IF row = "no_row" \/ v = "raised" THEN {row}
    ELSE {IF v = "failed" THEN "failed" ELSE "success"}
            \cup (IF TraceFaults THEN {row} ELSE {})

\* The executor ends with v: an output, status "failed", or an exception.
FinishStep(c, s, v) ==
    /\ thread[c][s] = "running"
    /\ v \in StepOutputs(s) \cup StepFailures(s)
    /\ thread' = [thread EXCEPT ![c][s] = "done"]
    /\ ret'    = [ret EXCEPT ![c][s] = v]
    /\ \E row \in FinalRows(trace[c][s], v) : trace' = [trace EXCEPT ![c][s] = row]
    /\ UNCHANGED <<pc, loopVars>>

-----------------------------------------------------------------------------

\* Everything a call does once it has begun.
EngineLoop(c) ==
    \/ LeaveLoop(c)
    \/ Schedule(c)
    \/ Wait(c)
    \/ \E s \in Steps : HarvestSuccess(c, s) \/ HarvestFailure(c, s) \/ Cancel(c, s)
    \/ Return(c)

EngineWorker(c, s) ==
    \/ StartStep(c, s)
    \/ \E v \in RetValues : FinishStep(c, s, v)

\* A first call has the empty seed; a resumed one what an earlier call returned.
EngineNext ==
    \E c \in Calls :
        \/ \E seed \in Seeds : Begin(c, seed)
        \/ EngineLoop(c)
        \/ \E s \in Steps : EngineWorker(c, s)

\* The caller's thread keeps running, the pool serves its queue, and every
\* executor comes back (each bounds its own I/O; the engine bounds none).
EngineFairness ==
    \A c \in Calls : /\ WF_engineVars(EngineLoop(c))
                     /\ \A s \in Steps : WF_engineVars(EngineWorker(c, s))

EngineSpec == EngineInit /\ [][EngineNext]_engineVars /\ EngineFairness

-----------------------------------------------------------------------------
(* Properties. *)

\* Every variable has its type.
EngineTypeOK ==
    /\ pc             \in [Calls -> PcValues]
    /\ error_policy   \in [Calls -> AllPolicies]
    /\ pending        \in [Calls -> SUBSET Steps]
    /\ completed      \in [Calls -> SUBSET Steps]
    /\ failed         \in [Calls -> SUBSET Steps]
    /\ skipped        \in [Calls -> SUBSET Steps]
    /\ futures        \in [Calls -> SUBSET Steps]
    /\ batch          \in [Calls -> SUBSET Steps]
    /\ abort          \in [Calls -> BOOLEAN]
    /\ paused_at_step \in [Calls -> Steps \cup {NoStep}]
    /\ results        \in [Calls -> [Steps -> ResultValues]]
    /\ thread         \in [Calls -> [Steps -> ThreadValues]]
    /\ ret            \in [Calls -> [Steps -> RetValues]]
    /\ trace          \in [Calls -> [Steps -> TraceValues]]

\* execute_plan never starts a step whose direct dependency failed when the plan
\* says dependent_fail, in whatever order steps fail and futures are harvested,
\* and never one with a dependency that is still open.
DependencyOrder ==
    \A c \in Calls, s \in Steps : thread[c][s] # "idle" =>
        /\ DependsOn[s] \subseteq completed[c]
        /\ error_policy[c] = "dependent_fail" => DependsOn[s] \cap failed[c] = {}

\* When execute_plan returns without an abort, every enabled step is accounted
\* for in exactly one way: it has a result, an error, was skipped, or was left
\* out; and it was left out only because the plan paused or the step cannot run.
ReturnAccountsForSteps ==
    \A c \in Calls : pc[c] = "returned" /\ ~abort[c] =>
        /\ Enabled \subseteq Keys(results[c]) \cup failed[c] \cup skipped[c] \cup pending[c]
        /\ Keys(results[c]) \cap (failed[c] \cup skipped[c] \cup pending[c]) = {}
        /\ failed[c] \cap (skipped[c] \cup pending[c]) = {}
        /\ skipped[c] \cap pending[c] = {}
        /\ paused_at_step[c] = NoStep =>
              /\ ReadySteps(pending[c], completed[c], results[c]) = {}
              /\ StepsToSkip(error_policy[c], pending[c], failed[c]) = {}

\* No worker outlives its call: once execute_plan is back, with or without an
\* abort, nothing is queued or running, so the handler's final UPDATE of the
\* execution row is not followed by side effects of the same call.
QuietWhenReturned ==
    \A c \in Calls : pc[c] = "returned" =>
        \A s \in Steps : thread[c][s] \in {"idle", "done", "cancelled"}

\* A returned call and its trace rows tell the same story, unless it aborted: a
\* success row has its result, a failed row its error, a skipped row its entry
\* in skipped; and no step has both an output and a failure row.
TraceAgreesWithReturn ==
    \A c \in Calls, s \in Steps : pc[c] = "returned" /\ ~abort[c] =>
        /\ trace[c][s] = "success" => results[c][s] \in StepOutputs(s)
        /\ trace[c][s] = "failed" => s \in failed[c] /\ results[c][s] = NoResult
        /\ trace[c][s] = "skipped" => s \in skipped[c] /\ thread[c][s] = "idle"

\* What one engine step may do to one step of the plan.
SubmitStep(c, s) ==
    /\ thread[c][s] # "queued" /\ thread'[c][s] = "queued" =>
          /\ thread[c][s] = "idle"
          /\ s \notin completed[c]
          /\ paused_at_step[c] = NoStep
    /\ thread[c][s] = "queued" /\ thread'[c][s] = "running" =>
          ~abort[c] \/ pc[c] = "cancel"

\* Within a call no step is submitted twice, none that the seed or the loop has
\* completed is submitted at all, nothing is submitted once a human review has
\* paused the plan, and once fail_fast has finished cancelling no worker picks a
\* step up.
SubmitsOnceAndStops ==
    [][\A c \in Calls, s \in Steps : SubmitStep(c, s)]_engineVars

\* "Skip downstream of failed steps": under dependent_fail no step is submitted
\* that depends on a failed or a skipped one.
DownstreamSkipped ==
    \A c \in Calls, s \in Steps :
        error_policy[c] = "dependent_fail" /\ thread[c][s] # "idle" =>
            DependsOn[s] \cap (failed[c] \cup skipped[c]) = {}

\* execute_plan never waits for what cannot come: until it returns, its loop can
\* go on, or a worker can, in every state that failures, cancellations, pauses
\* and a full pool leave it in.
NeverStuck ==
    \A c \in Calls : pc[c] \notin {"idle", "returned"} =>
        \/ pc[c] = "loop"
        \/ pc[c] = "wait" /\ \E s \in futures[c] : thread[c][s] = "done"
        \/ pc[c] = "harvest" /\ \E s \in batch[c] : ret[c][s] # NoResult
        \/ pc[c] = "cancel" /\ futures[c] # {}
        \/ pc[c] = "drain" /\ \A s \in Steps : thread[c][s] \notin {"queued", "running"}
        \/ Cardinality(Running(c)) < MaxConcurrency /\ \E s \in Steps : thread[c][s] = "queued"
        \/ \E s \in Running(c) : StepOutputs(s) \cup StepFailures(s) # {}

\* What is left of a call: the steps that are open or in flight, those that have
\* not begun, those that have not ended, and where the loop stands.
OpenSteps(c) == IF pc[c] = "idle" THEN Steps ELSE pending[c] \cup futures[c]
NotBegun(c)  == {s \in Steps : thread[c][s] \in {"idle", "queued"}}
NotEnded(c)  == {s \in Steps : thread[c][s] \in {"idle", "queued", "running"}}
Turn(c)      == CASE pc[c] = "idle"     -> 4
                  [] pc[c] = "loop"     -> 3
                  [] pc[c] = "wait"     -> 2
                  [] pc[c] = "returned" -> 0
                  [] OTHER              -> 1

Left(c) == 4 * Cardinality(OpenSteps(c)) + Cardinality(NotBegun(c)) + Cardinality(NotEnded(c)) + Turn(c)

\* `while pending or futures` cannot go round for nothing: every step brings the
\* call it is a step of closer to its return, and moves no other call.
CallsRunDown ==
    [][\E c \in Calls : /\ Left(c)' < Left(c)
                        /\ \A d \in Calls \ {c} : Left(d)' = Left(d)]_engineVars

\* A call that has begun returns, provided its executors do.
CallsReturn == \A c \in Calls : (pc[c] = "loop") ~> (pc[c] = "returned")

-----------------------------------------------------------------------------
(* Refinement. *)

\* The ledger entry of a step, read off the loop's sets.
EntryOf(c, s) ==
    IF s \in Keys(results[c]) THEN "result"
    ELSE IF s \in failed[c] THEN "error"
    ELSE IF s \in skipped[c] THEN "skipped"
    ELSE IF s \in futures[c] THEN "inflight"
    ELSE IF s \in pending[c] THEN "open"
    ELSE "absent"

PhaseOf(c) ==
    IF pc[c] \in {"idle", "returned"} THEN pc[c] ELSE "active"

ModeOf(c) ==
    IF abort[c] THEN IF paused_at_step[c] # NoStep THEN "both" ELSE "aborted"
    ELSE IF paused_at_step[c] # NoStep THEN "paused" ELSE "normal"

Contract == INSTANCE PlanRun WITH
    phase <- [c \in Calls |-> PhaseOf(c)],
    entry <- [c \in Calls |-> [s \in Steps |-> EntryOf(c, s)]],
    mode  <- [c \in Calls |-> ModeOf(c)]

\* The scheduling loop with its pool, batches and cancellations implements the
\* ledger that execute_plan's callers rely on.
ImplementsContract == Contract!RunSpec

=============================================================================
