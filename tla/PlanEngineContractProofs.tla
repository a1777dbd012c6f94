---------------------- MODULE PlanEngineContractProofs ----------------------
(***************************************************************************)
(* What execute_plan's callers rely on, for every plan, every set of       *)
(* calls, every pool size and every policy: at return every step is        *)
(* accounted for once, the trace rows agree with what is returned, and the *)
(* loop with its pool implements the ledger of PlanRun.                    *)
(***************************************************************************)
EXTENDS PlanEngineProofs

-----------------------------------------------------------------------------
(* What has to be added to LoopInvariant, part by part. *)

\* A call that has not begun has nothing in its sets and no trace rows.
IdleIsEmpty ==
    \A c \in Calls : pc[c] = "idle" =>
        /\ pending[c] = {} /\ skipped[c] = {} /\ completed[c] = {}
        /\ Keys(results[c]) = {} /\ paused_at_step[c] = NoStep
        /\ \A s \in Steps : trace[c][s] = "no_row"

\* The completed steps are those with a result, an error or a skip, and no step
\* has two of these.
CompletedIsLedger ==
    \A c \in Calls :
        /\ completed[c] = Keys(results[c]) \cup failed[c] \cup skipped[c]
        /\ Keys(results[c]) \cap failed[c] = {}
        /\ (Keys(results[c]) \cup failed[c]) \cap skipped[c] = {}

\* Until an abort no enabled step is lost sight of.
NothingIsLost ==
    \A c \in Calls : pc[c] # "idle" /\ ~abort[c] =>
        Enabled \subseteq completed[c] \cup pending[c] \cup futures[c]

\* Futures are cancelled only by an abort.
CancelIsAbort == \A c \in Calls : pc[c] = "cancel" => abort[c]

\* Out of the loop without an abort nothing is in flight, and what is pending
\* was left there by a pause or can neither run nor be skipped.
DrainIsDry ==
    \A c \in Calls : pc[c] \in {"drain", "returned"} /\ ~abort[c] =>
        /\ futures[c] = {}
        /\ paused_at_step[c] = NoStep =>
              /\ ReadySteps(pending[c], completed[c], results[c]) = {}
              /\ StepsToSkip(error_policy[c], pending[c], failed[c]) = {}

\* Until an abort a worker that is executing a step has a live future.
RunningIsLive ==
    \A c \in Calls, s \in Steps :
        thread[c][s] = "running" /\ ~abort[c] => s \in futures[c]

\* What a finished worker returned is what its future yields once harvested.
DoneIsHarvested ==
    \A c \in Calls, s \in Steps : thread[c][s] = "done" =>
        /\ ret[c][s] \in StepOutputs(s) \cup StepFailures(s)
        /\ ~abort[c] /\ s \notin futures[c] =>
              IF ret[c][s] \in Outcomes THEN results[c][s] = ret[c][s] ELSE s \in failed[c]

\* The row of a step says how far its worker has come.
RowFollowsThread ==
    \A c \in Calls, s \in Steps :
        /\ trace[c][s] = "running" => thread[c][s] \in {"running", "done"}
        /\ trace[c][s] = "success" => thread[c][s] = "done" /\ ret[c][s] \in StepOutputs(s)
        /\ trace[c][s] = "failed"  => thread[c][s] = "done" /\ ret[c][s] = "failed"
        /\ trace[c][s] = "skipped" => thread[c][s] = "idle" /\ s \in skipped[c]

LedgerInvariant ==
    /\ IdleIsEmpty
    /\ CompletedIsLedger
    /\ NothingIsLost
    /\ CancelIsAbort
    /\ DrainIsDry
    /\ RunningIsLive
    /\ DoneIsHarvested
    /\ RowFollowsThread

-----------------------------------------------------------------------------
(* What the operators on plans promise. *)

\* An executor's output is one of the outcomes, and none of its failures is.
LEMMA OutputsAreOutcomes ==
    ASSUME NEW s \in Steps
    PROVE  /\ StepOutputs(s) \subseteq Outcomes
           /\ StepFailures(s) \subseteq {"failed", "raised"}
BY PlanAssumption, OutputAssumption DEF StepOutputs, StepFailures, Outcomes, Kinds

-----------------------------------------------------------------------------
(* Each action preserves LedgerInvariant. *)

\* A call that has not begun has an empty ledger.
LEMMA InitLedger == EngineInit => LedgerInvariant
BY DEF EngineInit, LedgerInvariant, IdleIsEmpty, CompletedIsLedger, NothingIsLost,
       CancelIsAbort, DrainIsDry, RunningIsLive, DoneIsHarvested, RowFollowsThread,
       Keys, EmptyResults

\* Entering execute_plan: the seed's keys are the completed steps, every other
\* enabled step is pending.
LEMMA BeginLedger ==
    ASSUME LoopInvariant, LedgerInvariant, NEW c \in Calls,
           NEW seed \in [Steps -> ResultValues], Begin(c, seed)
    PROVE  LedgerInvariant'
<1> USE DEF LoopInvariant, LedgerInvariant
<1>1. IdleIsEmpty' /\ NothingIsLost' /\ CancelIsAbort'
    BY DEF Begin, EngineTypeOK, IdleIsEmpty, NothingIsLost, CancelIsAbort, poolVars
<1>2. CompletedIsLedger'
    BY DEF Begin, EngineTypeOK, IdleIsEmpty, IdleIsClean, CompletedIsLedger, poolVars
<1>3. DrainIsDry'
    BY DEF Begin, EngineTypeOK, DrainIsDry, poolVars
<1>4. RunningIsLive' /\ DoneIsHarvested' /\ RowFollowsThread'
    BY DEF Begin, EngineTypeOK, IdleIsClean, RunningIsLive, DoneIsHarvested,
           RowFollowsThread, poolVars
<1> QED
    BY <1>1, <1>2, <1>3, <1>4

\* Leaving the loop: without an abort pending was empty anyway.
LEMMA LeaveLoopLedger ==
    ASSUME LoopInvariant, LedgerInvariant, NEW c \in Calls, LeaveLoop(c)
    PROVE  LedgerInvariant'
<1> USE DEF LoopInvariant, LedgerInvariant
<1>1. IdleIsEmpty' /\ CompletedIsLedger' /\ CancelIsAbort'
    BY DEF LeaveLoop, EngineTypeOK, IdleIsEmpty, CompletedIsLedger, CancelIsAbort, poolVars
<1>2. NothingIsLost'
    BY DEF LeaveLoop, EngineTypeOK, NothingIsLost, poolVars
<1>3. DrainIsDry'
    BY DEF LeaveLoop, EngineTypeOK, DrainIsDry, ReadySteps, StepsToSkip, poolVars
<1>4. RunningIsLive' /\ DoneIsHarvested' /\ RowFollowsThread'
    BY DEF LeaveLoop, EngineTypeOK, RunningIsLive, DoneIsHarvested, RowFollowsThread,
           poolVars
<1> QED
    BY <1>1, <1>2, <1>3, <1>4

\* One iteration moves steps from pending to the skipped, the futures or
\* nowhere, and leaves the loop only when nothing can run and nothing is skipped.
LEMMA ScheduleLedger ==
    ASSUME LoopInvariant, LedgerInvariant, NEW c \in Calls, Schedule(c)
    PROVE  LedgerInvariant'
<1> USE DEF LoopInvariant, LedgerInvariant
<1> DEFINE skip  == StepsToSkip(error_policy[c], pending[c], failed[c])
           ready == IF paused_at_step[c] # NoStep THEN {}
                    ELSE ReadySteps(pending[c] \ skip, completed[c] \cup skip, results[c])
<1>1. skip \subseteq pending[c] /\ ready \subseteq pending[c] \ skip
    BY DEF StepsToSkip, ReadySteps
<1>2. ready = {} /\ paused_at_step[c] = NoStep =>
          ReadySteps((pending[c] \ skip) \ ready, completed[c] \cup skip, results[c]) = {}
  <2>1. (pending[c] \ skip) \ {} = pending[c] \ skip
      OBVIOUS
  <2> QED
      BY <2>1
<1>3. ready = {} => StepsToSkip(error_policy[c], (pending[c] \ skip) \ ready, failed[c]) = {}
    BY DEF StepsToSkip
<1>4. /\ pc[c] = "loop" /\ ~abort[c]
      /\ skipped'   = [skipped EXCEPT ![c] = @ \cup skip]
      /\ completed' = [completed EXCEPT ![c] = @ \cup skip]
      /\ pending'   = [pending EXCEPT ![c] = (@ \ skip) \ ready]
      /\ futures'   = [futures EXCEPT ![c] = @ \cup ready]
      /\ thread'    = [thread EXCEPT ![c] =
                          [s \in Steps |-> IF s \in ready THEN "queued" ELSE @[s]]]
      /\ pc' = [pc EXCEPT ![c] = IF futures[c] \cup ready = {} THEN "drain" ELSE "wait"]
      /\ UNCHANGED <<error_policy, failed, batch, abort, paused_at_step, results, ret>>
    BY DEF Schedule, AfterSubmit
<1>5. PICK lost \in Refusable(skip) :
          trace'  = [trace EXCEPT ![c] =
                        [s \in Steps |-> IF s \in skip \ lost THEN "skipped" ELSE @[s]]]
    BY DEF Schedule
<1> HIDE DEF skip, ready
<1>6. pending[c] \subseteq Steps
    BY DEF EngineTypeOK
<1>7. IdleIsEmpty' /\ CancelIsAbort'
    BY <1>4, <1>5 DEF EngineTypeOK, IdleIsEmpty, CancelIsAbort
<1>8. CompletedIsLedger'
    BY <1>1, <1>4, <1>6 DEF EngineTypeOK, PendingIsFresh, CompletedIsLedger
<1>9. NothingIsLost'
    BY <1>4 DEF EngineTypeOK, NothingIsLost
<1>10. DrainIsDry'
  <2> SUFFICES ASSUME NEW d \in Calls, pc'[d] \in {"drain", "returned"}, ~abort'[d]
               PROVE  /\ futures'[d] = {}
                      /\ paused_at_step'[d] = NoStep =>
                           /\ ReadySteps(pending'[d], completed'[d], results'[d]) = {}
                           /\ StepsToSkip(error_policy'[d], pending'[d], failed'[d]) = {}
      BY DEF DrainIsDry
  <2>1. CASE d = c
    <3>1. futures[c] \cup ready = {}
        BY <1>4, <2>1 DEF EngineTypeOK
    <3>2. /\ pending'[c] = (pending[c] \ skip) \ ready /\ completed'[c] = completed[c] \cup skip
          /\ results'[c] = results[c] /\ paused_at_step'[c] = paused_at_step[c]
          /\ failed'[c] = failed[c] /\ error_policy'[c] = error_policy[c]
          /\ futures'[c] = futures[c] \cup ready
        BY <1>4 DEF EngineTypeOK
    <3> QED
        BY <1>2, <1>3, <2>1, <3>1, <3>2
  <2>2. CASE d # c
    <3>1. /\ pc'[d] = pc[d] /\ pending'[d] = pending[d] /\ completed'[d] = completed[d]
          /\ results'[d] = results[d] /\ paused_at_step'[d] = paused_at_step[d]
          /\ failed'[d] = failed[d] /\ error_policy'[d] = error_policy[d]
          /\ futures'[d] = futures[d] /\ abort'[d] = abort[d]
        BY <1>4, <2>2 DEF EngineTypeOK
    <3> QED
        BY <3>1 DEF DrainIsDry
  <2> QED
      BY <2>1, <2>2
<1>11. RunningIsLive'
    BY <1>4 DEF EngineTypeOK, RunningIsLive
<1>12. DoneIsHarvested'
    BY <1>4 DEF EngineTypeOK, DoneIsHarvested
<1>13. RowFollowsThread'
  <2> SUFFICES ASSUME NEW d \in Calls, NEW s \in Steps
               PROVE  /\ trace'[d][s] = "running" => thread'[d][s] \in {"running", "done"}
                      /\ trace'[d][s] = "success" =>
                            thread'[d][s] = "done" /\ ret'[d][s] \in StepOutputs(s)
                      /\ trace'[d][s] = "failed"  =>
                            thread'[d][s] = "done" /\ ret'[d][s] = "failed"
                      /\ trace'[d][s] = "skipped" =>
                            thread'[d][s] = "idle" /\ s \in skipped'[d]
      BY DEF RowFollowsThread
  <2>1. CASE d # c
      BY <1>4, <1>5, <2>1 DEF EngineTypeOK, RowFollowsThread
  <2>2. CASE d = c /\ s \in pending[c]
    <3>1. thread[c][s] = "idle" /\ s \notin skipped[c]
        BY <2>2 DEF PendingIsFresh, CompletedIsLedger
    <3> QED
        BY <1>1, <1>4, <1>5, <2>2, <3>1 DEF EngineTypeOK, RowFollowsThread
  <2>3. CASE d = c /\ s \notin pending[c]
      BY <1>1, <1>4, <1>5, <2>3 DEF EngineTypeOK, RowFollowsThread
  <2> QED
      BY <2>1, <2>2, <2>3
<1> QED
    BY <1>7, <1>8, <1>9, <1>10, <1>11, <1>12, <1>13

\* wait() fills the batch, which the ledger does not depend on.
LEMMA WaitLedger ==
    ASSUME LoopInvariant, LedgerInvariant, NEW c \in Calls, Wait(c)
    PROVE  LedgerInvariant'
<1> USE DEF LoopInvariant, LedgerInvariant
<1>1. IdleIsEmpty' /\ CompletedIsLedger' /\ NothingIsLost' /\ CancelIsAbort'
    BY DEF Wait, EngineTypeOK, IdleIsEmpty, CompletedIsLedger, NothingIsLost,
           CancelIsAbort, poolVars
<1>2. DrainIsDry'
    BY DEF Wait, EngineTypeOK, DrainIsDry, poolVars
<1>3. RunningIsLive' /\ DoneIsHarvested' /\ RowFollowsThread'
    BY DEF Wait, EngineTypeOK, RunningIsLive, DoneIsHarvested, RowFollowsThread, poolVars
<1> QED
    BY <1>1, <1>2, <1>3

\* What is harvested without an error is a step in flight and done, in a call
\* that has not aborted; storing its result closes exactly that step.
LEMMA HarvestSuccessLedger ==
    ASSUME LoopInvariant, LedgerInvariant, NEW c \in Calls, NEW s \in Steps,
           HarvestSuccess(c, s)
    PROVE  LedgerInvariant'
<1> USE DEF LoopInvariant, LedgerInvariant
<1>1. /\ s \in futures[c] /\ thread[c][s] = "done" /\ pc[c] = "harvest"
      /\ s \notin completed[c] /\ ~abort[c]
    BY DEF HarvestSuccess, BatchIsLive, FuturesAreOpen, AbortClears
<1>2. ret[c][s] \in Outcomes /\ NoResult \notin Outcomes
    BY DEF HarvestSuccess, NoResult, Outcomes, TaskOutcomes
<1>3. /\ pc'[c] \in {"harvest", "drain", "loop"}
      /\ pc'[c] = "drain" => futures'[c] = {} /\ paused_at_step'[c] # NoStep
    BY DEF HarvestSuccess, AfterHarvest, EngineTypeOK
<1>4. /\ Keys(results'[c]) = Keys(results[c]) \cup {s}
      /\ \A d \in Calls : d # c => results'[d] = results[d] /\ Keys(results'[d]) = Keys(results[d])
      /\ results'[c] = [results[c] EXCEPT ![s] = ret[c][s]]
    BY <1>2 DEF HarvestSuccess, EngineTypeOK, Keys
<1>5. IdleIsEmpty' /\ CancelIsAbort'
  <2>1. /\ \A d \in Calls : d # c => pc'[d] = pc[d] /\ completed'[d] = completed[d]
                                      /\ paused_at_step'[d] = paused_at_step[d]
        /\ UNCHANGED <<pending, skipped, abort, trace>>
      BY DEF HarvestSuccess, EngineTypeOK, poolVars
  <2> QED
      BY <1>3, <1>4, <2>1 DEF IdleIsEmpty, CancelIsAbort
<1>6. CompletedIsLedger'
  <2>1. /\ completed'[c] = completed[c] \cup {s}
        /\ \A d \in Calls : d # c => completed'[d] = completed[d]
        /\ failed' = failed /\ skipped' = skipped
      BY DEF HarvestSuccess, EngineTypeOK
  <2>2. /\ completed'[c] = Keys(results'[c]) \cup failed[c] \cup skipped[c]
        /\ Keys(results'[c]) \cap failed[c] = {}
        /\ (Keys(results'[c]) \cup failed[c]) \cap skipped[c] = {}
      BY <1>1, <1>4, <2>1 DEF CompletedIsLedger
  <2> QED
      BY <1>4, <2>1, <2>2 DEF CompletedIsLedger
<1>7. NothingIsLost'
    BY <1>1 DEF HarvestSuccess, EngineTypeOK, NothingIsLost
<1>8. DrainIsDry'
    BY <1>3, <1>4 DEF HarvestSuccess, EngineTypeOK, DrainIsDry
<1>9. RunningIsLive'
    BY <1>1 DEF HarvestSuccess, EngineTypeOK, RunningIsLive, poolVars
<1>10. DoneIsHarvested'
    BY <1>1, <1>2, <1>4 DEF HarvestSuccess, EngineTypeOK, DoneIsHarvested, poolVars
<1>11. RowFollowsThread'
    BY DEF HarvestSuccess, EngineTypeOK, RowFollowsThread, poolVars
<1> QED
    BY <1>5, <1>6, <1>7, <1>8, <1>9, <1>10, <1>11

\* A harvested error closes exactly its step; the loop goes on to cancel futures
\* only under fail_fast, that is after an abort.
LEMMA HarvestFailureLedger ==
    ASSUME LoopInvariant, LedgerInvariant, NEW c \in Calls, NEW s \in Steps,
           HarvestFailure(c, s)
    PROVE  LedgerInvariant'
<1> USE DEF LoopInvariant, LedgerInvariant
<1>1. /\ s \in futures[c] /\ thread[c][s] = "done" /\ pc[c] = "harvest"
      /\ s \notin completed[c] /\ ~abort[c]
    BY DEF HarvestFailure, BatchIsLive, FuturesAreOpen, AbortClears
<1>2. ret[c][s] \in {"failed", "raised"} /\ ret[c][s] \notin Outcomes
    BY DEF HarvestFailure, Outcomes, TaskOutcomes
<1>3. /\ pc'[c] \in {"harvest", "drain", "loop", "cancel"}
      /\ pc'[c] = "drain" => futures'[c] = {} /\ paused_at_step'[c] # NoStep
      /\ pc'[c] = "cancel" => abort'[c]
    BY DEF HarvestFailure, AfterHarvest, EngineTypeOK
<1>4. /\ \A d \in Calls : d # c =>
            /\ pc'[d] = pc[d] /\ failed'[d] = failed[d] /\ completed'[d] = completed[d]
            /\ futures'[d] = futures[d] /\ abort'[d] = abort[d]
      /\ failed'[c] = failed[c] \cup {s} /\ completed'[c] = completed[c] \cup {s}
      /\ futures'[c] = futures[c] \ {s}
      /\ UNCHANGED <<error_policy, pending, skipped, paused_at_step, results, thread,
                     ret, trace>>
    BY DEF HarvestFailure, EngineTypeOK, poolVars
<1>5. IdleIsEmpty'
    BY <1>1, <1>3, <1>4 DEF IdleIsEmpty
<1>6. CancelIsAbort'
    BY <1>3, <1>4 DEF CancelIsAbort
<1>7. CompletedIsLedger'
    BY <1>1, <1>4 DEF CompletedIsLedger
<1>8. NothingIsLost'
    BY <1>1, <1>4 DEF NothingIsLost
<1>9. DrainIsDry'
    BY <1>3, <1>4 DEF DrainIsDry
<1>10. RunningIsLive'
    BY <1>1, <1>4 DEF RunningIsLive
<1>11. DoneIsHarvested'
    BY <1>1, <1>2, <1>4 DEF DoneIsHarvested
<1>12. RowFollowsThread'
    BY <1>4 DEF RowFollowsThread
<1> QED
    BY <1>5, <1>6, <1>7, <1>8, <1>9, <1>10, <1>11, <1>12

\* A cancelled future belongs to an aborted call, of which the ledger claims
\* only what was closed before.
LEMMA CancelLedger ==
    ASSUME LoopInvariant, LedgerInvariant, NEW c \in Calls, NEW s \in Steps, Cancel(c, s)
    PROVE  LedgerInvariant'
<1> USE DEF LoopInvariant, LedgerInvariant
<1>1. pc[c] = "cancel" /\ abort[c] /\ s \in futures[c]
    BY DEF Cancel, CancelIsAbort
<1>2. /\ pc'[c] # "idle"
      /\ \A d \in Calls : d # c => pc'[d] = pc[d] /\ futures'[d] = futures[d]
                                    /\ thread'[d] = thread[d]
      /\ \A t \in Steps : thread'[c][t] = IF t = s /\ thread[c][t] = "queued"
                                          THEN "cancelled" ELSE thread[c][t]
      /\ UNCHANGED <<error_policy, pending, completed, failed, skipped, batch, abort,
                     paused_at_step, results, ret, trace>>
    BY DEF Cancel, AfterHarvest, EngineTypeOK
<1>3. IdleIsEmpty' /\ CompletedIsLedger' /\ CancelIsAbort' /\ NothingIsLost'
    BY <1>1, <1>2 DEF IdleIsEmpty, CompletedIsLedger, CancelIsAbort, NothingIsLost
<1>4. DrainIsDry'
    BY <1>1, <1>2 DEF DrainIsDry
<1>5. RunningIsLive' /\ DoneIsHarvested'
    BY <1>1, <1>2 DEF RunningIsLive, DoneIsHarvested
<1>6. RowFollowsThread'
    BY <1>2 DEF RowFollowsThread
<1> QED
    BY <1>3, <1>4, <1>5, <1>6

\* Returning changes the place of the loop only.
LEMMA ReturnLedger ==
    ASSUME LoopInvariant, LedgerInvariant, NEW c \in Calls, Return(c)
    PROVE  LedgerInvariant'
<1> USE DEF LoopInvariant, LedgerInvariant
<1>1. IdleIsEmpty' /\ CompletedIsLedger' /\ NothingIsLost' /\ CancelIsAbort'
    BY DEF Return, EngineTypeOK, IdleIsEmpty, CompletedIsLedger, NothingIsLost,
           CancelIsAbort, loopVars, poolVars
<1>2. DrainIsDry'
    BY DEF Return, EngineTypeOK, DrainIsDry, loopVars, poolVars
<1>3. RunningIsLive' /\ DoneIsHarvested' /\ RowFollowsThread'
    BY DEF Return, EngineTypeOK, RunningIsLive, DoneIsHarvested, RowFollowsThread,
           loopVars, poolVars
<1> QED
    BY <1>1, <1>2, <1>3

\* A worker that takes a step has a live future, for a queued step has one.
LEMMA StartStepLedger ==
    ASSUME LoopInvariant, LedgerInvariant, NEW c \in Calls, NEW s \in Steps, StartStep(c, s)
    PROVE  LedgerInvariant'
<1> USE DEF LoopInvariant, LedgerInvariant
<1>1. pc[c] # "idle" /\ thread[c][s] = "queued" /\ s \in futures[c]
    BY DEF StartStep, IdleIsClean, FuturesAreOpen
<1>2. PICK row \in {"running", "no_row"} : trace' = [trace EXCEPT ![c][s] = row]
    BY DEF StartStep, FirstRows
<1>3. UNCHANGED <<pc, loopVars, ret>> /\ thread' = [thread EXCEPT ![c][s] = "running"]
    BY DEF StartStep
<1>4. IdleIsEmpty'
    BY <1>1, <1>2, <1>3 DEF EngineTypeOK, IdleIsEmpty, loopVars
<1>5. CompletedIsLedger' /\ NothingIsLost' /\ CancelIsAbort' /\ DrainIsDry'
    BY <1>3 DEF CompletedIsLedger, NothingIsLost, CancelIsAbort, DrainIsDry, loopVars
<1>6. RunningIsLive' /\ DoneIsHarvested'
    BY <1>1, <1>3 DEF EngineTypeOK, RunningIsLive, DoneIsHarvested, loopVars
<1>7. RowFollowsThread'
    BY <1>1, <1>2, <1>3 DEF EngineTypeOK, RowFollowsThread, loopVars
<1> QED
    BY <1>4, <1>5, <1>6, <1>7

\* A worker that ends while its call has not aborted still has its future, and
\* the row it leaves says what it returned.
LEMMA FinishStepLedger ==
    ASSUME LoopInvariant, LedgerInvariant, NEW c \in Calls, NEW s \in Steps,
           NEW v \in RetValues, FinishStep(c, s, v)
    PROVE  LedgerInvariant'
<1> USE DEF LoopInvariant, LedgerInvariant
<1>1. pc[c] # "idle" /\ thread[c][s] = "running" /\ (~abort[c] => s \in futures[c])
    BY DEF FinishStep, IdleIsClean, RunningIsLive
<1>2. /\ UNCHANGED <<pc, loopVars>>
      /\ thread' = [thread EXCEPT ![c][s] = "done"]
      /\ ret' = [ret EXCEPT ![c][s] = v]
      /\ v \in StepOutputs(s) \cup StepFailures(s)
    BY DEF FinishStep
<1>3. PICK row \in FinalRows(trace[c][s], v) : trace' = [trace EXCEPT ![c][s] = row]
    BY DEF FinishStep
<1>4. /\ row \in {trace[c][s], "success", "failed"}
      /\ row = "success" /\ trace[c][s] # "success" => v \notin {"failed", "raised"}
      /\ row = "failed"  /\ trace[c][s] # "failed"  => v = "failed"
    BY <1>3 DEF FinalRows
<1>5. IdleIsEmpty'
    BY <1>1, <1>2, <1>3 DEF EngineTypeOK, IdleIsEmpty, loopVars
<1>6. CompletedIsLedger' /\ NothingIsLost' /\ CancelIsAbort' /\ DrainIsDry'
    BY <1>2 DEF CompletedIsLedger, NothingIsLost, CancelIsAbort, DrainIsDry, loopVars
<1>7. RunningIsLive' /\ DoneIsHarvested'
    BY <1>1, <1>2 DEF EngineTypeOK, RunningIsLive, DoneIsHarvested, loopVars
<1>8. RowFollowsThread'
    BY <1>1, <1>2, <1>3, <1>4, OutputsAreOutcomes
       DEF EngineTypeOK, RowFollowsThread, loopVars
<1> QED
    BY <1>5, <1>6, <1>7, <1>8

\* The ledger depends on the engine's variables alone.
LEMMA StutterLedger ==
    ASSUME LedgerInvariant, UNCHANGED engineVars
    PROVE  LedgerInvariant'
BY DEF LedgerInvariant, engineVars, IdleIsEmpty, CompletedIsLedger, NothingIsLost,
       CancelIsAbort, DrainIsDry, RunningIsLive, DoneIsHarvested, RowFollowsThread

\* Every step of the engine preserves the ledger.
LEMMA NextLedger ==
    ASSUME LoopInvariant, LedgerInvariant, [EngineNext]_engineVars
    PROVE  LedgerInvariant'
<1>1. CASE UNCHANGED engineVars
    BY <1>1, StutterLedger
<1>2. ASSUME NEW c \in Calls, NEW seed \in Seeds, Begin(c, seed)
      PROVE  LedgerInvariant'
    BY <1>2, SeedAssumption, BeginLedger
<1>3. ASSUME NEW c \in Calls, EngineLoop(c)
      PROVE  LedgerInvariant'
    BY <1>3, LeaveLoopLedger, ScheduleLedger, WaitLedger, HarvestSuccessLedger,
       HarvestFailureLedger, CancelLedger, ReturnLedger DEF EngineLoop
<1>4. ASSUME NEW c \in Calls, NEW s \in Steps, EngineWorker(c, s)
      PROVE  LedgerInvariant'
    BY <1>4, StartStepLedger, FinishStepLedger DEF EngineWorker
<1> QED
    BY <1>1, <1>2, <1>3, <1>4 DEF EngineNext

\* In every state of every call the ledger behind execute_plan's sets is
\* consistent: steps close once, none is lost, rows follow their workers.
THEOREM LedgerInvariantHolds == EngineSpec => [](LoopInvariant /\ LedgerInvariant)
<1>1. EngineInit => LoopInvariant /\ LedgerInvariant
    BY InitEstablishes, InitLedger
<1>2. LoopInvariant /\ LedgerInvariant /\ [EngineNext]_engineVars
         => LoopInvariant' /\ LedgerInvariant'
    BY NextPreserves, NextLedger
<1> QED
    BY <1>1, <1>2, PTL DEF EngineSpec

\* For every plan, policy, pool size and interleaving: when execute_plan returns
\* without an abort every enabled step has exactly one of a result, an error, a
\* skip or a place among the left out, and those it left out it could not run.
THEOREM ReturnAccountsForStepsHolds == EngineSpec => []ReturnAccountsForSteps
<1>1. LoopInvariant /\ LedgerInvariant => ReturnAccountsForSteps
    BY DEF LoopInvariant, LedgerInvariant, ReturnAccountsForSteps, NothingIsLost,
           CompletedIsLedger, DrainIsDry, PendingIsFresh
<1> QED
    BY <1>1, LedgerInvariantHolds, PTL

\* For every plan and every choice of rows the database refuses: the trace rows
\* of a call that returned without an abort agree with what it returned.
THEOREM TraceAgreesWithReturnHolds == EngineSpec => []TraceAgreesWithReturn
<1>1. ASSUME LoopInvariant, LedgerInvariant PROVE TraceAgreesWithReturn
  <2> SUFFICES ASSUME NEW c \in Calls, NEW s \in Steps, pc[c] = "returned", ~abort[c]
               PROVE  /\ trace[c][s] = "success" => results[c][s] \in StepOutputs(s)
                      /\ trace[c][s] = "failed" => s \in failed[c] /\ results[c][s] = NoResult
                      /\ trace[c][s] = "skipped" => s \in skipped[c] /\ thread[c][s] = "idle"
      BY DEF TraceAgreesWithReturn
  <2>1. s \notin futures[c]
      BY <1>1 DEF LedgerInvariant, DrainIsDry
  <2>2. "failed" \notin Outcomes
      BY DEF Outcomes, TaskOutcomes
  <2>3. trace[c][s] = "success" => results[c][s] \in StepOutputs(s)
      BY <1>1, <2>1, OutputsAreOutcomes DEF LedgerInvariant, RowFollowsThread, DoneIsHarvested
  <2>4. trace[c][s] = "failed" => s \in failed[c] /\ results[c][s] = NoResult
      BY <1>1, <2>1, <2>2 DEF LedgerInvariant, RowFollowsThread, DoneIsHarvested,
         CompletedIsLedger, Keys
  <2> QED
      BY <1>1, <2>3, <2>4 DEF LedgerInvariant, RowFollowsThread
<1> QED
    BY <1>1, LedgerInvariantHolds, PTL

-----------------------------------------------------------------------------
(* The loop with its pool implements the ledger of PlanRun. *)

\* The ledger's view of the engine: what Contract puts for its variables.
Phases == [c \in Calls |-> PhaseOf(c)]
Ledger == [c \in Calls |-> [s \in Steps |-> EntryOf(c, s)]]
Modes  == [c \in Calls |-> ModeOf(c)]

\* A step of call c leaves what the ledger sees of every other call as it was.
OthersKeep(c) ==
    \A d \in Calls : d # c =>
        /\ pc'[d] = pc[d] /\ pending'[d] = pending[d] /\ failed'[d] = failed[d]
        /\ skipped'[d] = skipped[d] /\ futures'[d] = futures[d]
        /\ abort'[d] = abort[d] /\ paused_at_step'[d] = paused_at_step[d]
        /\ results'[d] = results[d]

\* So the ledger's view of every other call is as it was.
LEMMA OthersKeepAbstract ==
    ASSUME NEW c \in Calls, OthersKeep(c), NEW d \in Calls, d # c
    PROVE  /\ PhaseOf(d)' = PhaseOf(d)
           /\ ModeOf(d)' = ModeOf(d)
           /\ \A s \in Steps : EntryOf(d, s)' = EntryOf(d, s)
BY DEF OthersKeep, PhaseOf, ModeOf, EntryOf, Keys

\* And the abstract variables change at c at most.
LEMMA AbstractFrame ==
    ASSUME NEW c \in Calls, OthersKeep(c)
    PROVE  /\ Phases' = [Phases EXCEPT ![c] = PhaseOf(c)']
           /\ Ledger' = [Ledger EXCEPT ![c] = [s \in Steps |-> EntryOf(c, s)']]
           /\ Modes'  = [Modes EXCEPT ![c] = ModeOf(c)']
<1>1. ASSUME NEW d \in Calls, d # c
      PROVE  /\ PhaseOf(d)' = PhaseOf(d)
             /\ ModeOf(d)' = ModeOf(d)
             /\ \A s \in Steps : EntryOf(d, s)' = EntryOf(d, s)
    BY <1>1, OthersKeepAbstract
<1>2. Phases' = [Phases EXCEPT ![c] = PhaseOf(c)']
    BY <1>1 DEF Phases
<1>3. Modes' = [Modes EXCEPT ![c] = ModeOf(c)']
    BY <1>1 DEF Modes
<1>4. Ledger' = [Ledger EXCEPT ![c] = [s \in Steps |-> EntryOf(c, s)']]
    BY <1>1 DEF Ledger
<1> QED
    BY <1>2, <1>3, <1>4

\* A step of the engine the ledger does not see.
LEMMA AbstractStutter ==
    ASSUME NEW c \in Calls, OthersKeep(c), error_policy' = error_policy,
           PhaseOf(c)' = PhaseOf(c), ModeOf(c)' = ModeOf(c),
           \A s \in Steps : EntryOf(c, s)' = EntryOf(c, s)
    PROVE  UNCHANGED Contract!runVars
<1>1. \A d \in Calls : /\ PhaseOf(d)' = PhaseOf(d)
                       /\ ModeOf(d)' = ModeOf(d)
                       /\ \A s \in Steps : EntryOf(d, s)' = EntryOf(d, s)
    BY OthersKeepAbstract
<1> QED
    BY <1>1 DEF Contract!runVars

\* What the entries of the ledger say of the loop's sets.
LEMMA EntryMeaning ==
    ASSUME LoopInvariant, LedgerInvariant, NEW c \in Calls, NEW s \in Steps
    PROVE  /\ EntryOf(c, s) = "result"   <=> s \in Keys(results[c])
           /\ EntryOf(c, s) = "error"    <=> s \in failed[c]
           /\ EntryOf(c, s) = "skipped"  <=> s \in skipped[c]
           /\ EntryOf(c, s) = "inflight" <=> s \in futures[c]
           /\ EntryOf(c, s) = "open"     <=> s \in pending[c]
           /\ EntryOf(c, s) \in {"result", "error", "skipped"} <=> s \in completed[c]
<1>1. /\ s \in futures[c] => s \notin completed[c]
      /\ s \in pending[c] => s \notin completed[c] /\ s \notin futures[c]
    BY DEF LoopInvariant, FuturesAreOpen, PendingIsFresh
<1>2. /\ completed[c] = Keys(results[c]) \cup failed[c] \cup skipped[c]
      /\ Keys(results[c]) \cap failed[c] = {}
      /\ (Keys(results[c]) \cup failed[c]) \cap skipped[c] = {}
    BY DEF LedgerInvariant, CompletedIsLedger
<1> QED
    BY <1>1, <1>2 DEF EntryOf

\* The closed steps of the ledger are the completed ones of the loop.
LEMMA ClosedIsCompleted ==
    ASSUME LoopInvariant, LedgerInvariant, NEW c \in Calls
    PROVE  Contract!Closed(Ledger[c]) = completed[c]
<1>1. completed[c] \subseteq Steps
    BY DEF LoopInvariant, EngineTypeOK
<1> QED
    BY <1>1, EntryMeaning DEF Contract!Closed, Ledger

\* What the mode of the ledger says of the loop's flags.
LEMMA ModeMeaning ==
    ASSUME LoopInvariant, NEW c \in Calls
    PROVE  /\ Contract!Aborted(c) <=> abort[c]
           /\ Contract!Paused(c) <=> paused_at_step[c] # NoStep
           /\ ModeOf(c) = "normal" <=> ~abort[c] /\ paused_at_step[c] = NoStep
BY DEF LoopInvariant, EngineTypeOK, Contract!Aborted, Contract!Paused, ModeOf

\* Initially the ledger is empty.
LEMMA InitContract == EngineInit => Contract!RunInit
<1> SUFFICES ASSUME EngineInit PROVE Contract!RunInit
    OBVIOUS
<1>1. \A c \in Calls : PhaseOf(c) = "idle" /\ ModeOf(c) = "normal"
    BY DEF EngineInit, PhaseOf, ModeOf
<1>2. \A c \in Calls, s \in Steps : EntryOf(c, s) = "absent"
    BY DEF EngineInit, EntryOf, Keys, EmptyResults
<1>3. error_policy \in [Calls -> Policies]
    BY DEF EngineInit
<1> QED
    BY <1>1, <1>2, <1>3 DEF Contract!RunInit

\* Entering execute_plan starts the ledger, closed at the seed's keys.
LEMMA BeginIsStart ==
    ASSUME LoopInvariant, LedgerInvariant, NEW c \in Calls,
           NEW seed \in [Steps -> ResultValues], Begin(c, seed)
    PROVE  Contract!Start(c)
<1>1. OthersKeep(c) /\ error_policy' = error_policy
    BY DEF LoopInvariant, EngineTypeOK, Begin, OthersKeep
<1>2. PhaseOf(c) = "idle" /\ PhaseOf(c)' = "active" /\ ModeOf(c)' = ModeOf(c)
    BY DEF LoopInvariant, EngineTypeOK, Begin, PhaseOf, ModeOf
<1>3. /\ results'[c] = seed /\ failed'[c] = {} /\ skipped'[c] = {} /\ futures'[c] = {}
      /\ pending'[c] = Enabled \ Keys(seed)
    BY DEF LoopInvariant, LedgerInvariant, EngineTypeOK, Begin, IdleIsClean, IdleIsEmpty
<1>4. \A s \in Steps : EntryOf(c, s)' = IF s \in Keys(seed) THEN "result"
                                        ELSE IF s \in Enabled THEN "open" ELSE "absent"
    BY <1>3 DEF EntryOf, Keys
<1>5. Keys(seed) \in SUBSET Steps
    BY DEF Keys
<1>6. /\ Phases' = [Phases EXCEPT ![c] = "active"]
      /\ Ledger' = [Ledger EXCEPT ![c] =
            [s \in Steps |-> IF s \in Keys(seed) THEN "result"
                             ELSE IF s \in Enabled THEN "open" ELSE "absent"]]
      /\ Modes' = Modes
  <2>1. [s \in Steps |-> EntryOf(c, s)'] =
            [s \in Steps |-> IF s \in Keys(seed) THEN "result"
                             ELSE IF s \in Enabled THEN "open" ELSE "absent"]
      BY <1>4
  <2>2. [Modes EXCEPT ![c] = ModeOf(c)] = Modes
      BY DEF Modes
  <2> QED
      BY <1>1, <1>2, <2>1, <2>2, AbstractFrame
<1>7. Phases[c] = "idle"
    BY <1>2 DEF Phases
<1> QED
    BY <1>1, <1>5, <1>6, <1>7 DEF Contract!Start, Phases, Ledger, Modes

\* Leaving the loop is invisible, or drops what an abort left open.
LEMMA LeaveLoopIsDrop ==
    ASSUME LoopInvariant, LedgerInvariant, NEW c \in Calls, LeaveLoop(c)
    PROVE  Contract!Drop(c) \/ UNCHANGED Contract!runVars
<1>1. OthersKeep(c) /\ error_policy' = error_policy
    BY DEF LoopInvariant, EngineTypeOK, LeaveLoop, OthersKeep
<1>2. PhaseOf(c) = "active" /\ PhaseOf(c)' = "active" /\ ModeOf(c)' = ModeOf(c)
    BY DEF LoopInvariant, EngineTypeOK, LeaveLoop, PhaseOf, ModeOf
<1>3. /\ pending'[c] = {}
      /\ UNCHANGED <<results, failed, skipped, futures>>
    BY DEF LoopInvariant, EngineTypeOK, LeaveLoop
<1>4. CASE abort[c]
  <2> DEFINE gone == {s \in Steps : Ledger[c][s] = "open"}
  <2>1. \A s \in Steps : EntryOf(c, s)' = IF s \in gone THEN "absent" ELSE EntryOf(c, s)
      BY <1>3, EntryMeaning DEF EntryOf, Ledger
  <2>2. [s \in Steps |-> EntryOf(c, s)'] =
            [s \in Steps |-> IF s \in gone THEN "absent" ELSE Ledger[c][s]]
      BY <2>1 DEF Ledger
  <2>3. [Modes EXCEPT ![c] = ModeOf(c)] = Modes /\ [Phases EXCEPT ![c] = PhaseOf(c)] = Phases
      BY DEF Modes, Phases
  <2>4. /\ Phases' = Phases /\ Modes' = Modes
        /\ Ledger' = [Ledger EXCEPT ![c] =
              [s \in Steps |-> IF s \in gone THEN "absent" ELSE Ledger[c][s]]]
      BY <1>1, <1>2, <2>2, <2>3, AbstractFrame
  <2>5. gone \in SUBSET {s \in Steps : Ledger[c][s] \in {"open", "inflight"}}
      OBVIOUS
  <2>6. Contract!Aborted(c) /\ Phases[c] = "active"
      BY <1>2, <1>4, ModeMeaning DEF Phases
  <2> QED
      BY <1>1, <2>4, <2>5, <2>6 DEF Contract!Drop, Phases, Ledger, Modes
<1>5. CASE ~abort[c]
  <2>1. pending[c] = {}
      BY <1>5 DEF LeaveLoop
  <2>2. \A s \in Steps : EntryOf(c, s)' = EntryOf(c, s)
      BY <1>3, <2>1 DEF EntryOf
  <2> QED
      BY <1>1, <1>2, <2>2, AbstractStutter
<1> QED
    BY <1>4, <1>5

\* One iteration of the loop is one submission of the ledger.
LEMMA ScheduleIsSubmit ==
    ASSUME LoopInvariant, LedgerInvariant, NEW c \in Calls, Schedule(c)
    PROVE  Contract!Submit(c)
<1> DEFINE skip  == StepsToSkip(error_policy[c], pending[c], failed[c])
           ready == IF paused_at_step[c] # NoStep THEN {}
                    ELSE ReadySteps(pending[c] \ skip, completed[c] \cup skip, results[c])
<1>1. OthersKeep(c) /\ error_policy' = error_policy
    BY DEF LoopInvariant, EngineTypeOK, Schedule, OthersKeep
<1>2. PhaseOf(c) = "active" /\ PhaseOf(c)' = "active" /\ ModeOf(c)' = ModeOf(c)
    BY DEF LoopInvariant, EngineTypeOK, Schedule, AfterSubmit, PhaseOf, ModeOf
<1>3. /\ skip \subseteq pending[c] /\ ready \subseteq pending[c] /\ skip \cap ready = {}
      /\ ready # {} => paused_at_step[c] = NoStep
    BY DEF StepsToSkip, ReadySteps
<1>4. /\ \A s \in skip : /\ error_policy[c] = "dependent_fail"
                         /\ \E d \in DependsOn[s] : d \in failed[c]
      /\ \A s \in ready :
            /\ DependsOn[s] \subseteq completed[c] \cup skip
            /\ error_policy[c] = "dependent_fail" => \A d \in DependsOn[s] : d \notin failed[c]
    BY DEF StepsToSkip, ReadySteps
<1>5. /\ skipped'[c] = skipped[c] \cup skip
      /\ pending'[c] = (pending[c] \ skip) \ ready
      /\ futures'[c] = futures[c] \cup ready
      /\ results' = results /\ failed' = failed /\ ~abort[c]
    BY DEF LoopInvariant, EngineTypeOK, Schedule
<1> HIDE DEF skip, ready
<1>6. pending[c] \subseteq Steps /\ DependsOn \in [Steps -> SUBSET Steps]
    BY PlanAssumption DEF LoopInvariant, EngineTypeOK
<1>7. \A s \in Steps : EntryOf(c, s)' = IF s \in skip THEN "skipped"
                                        ELSE IF s \in ready THEN "inflight" ELSE EntryOf(c, s)
  <2> TAKE s \in Steps
  <2>1. CASE s \in pending[c]
    <3>1. s \notin Keys(results[c]) /\ s \notin failed[c] /\ s \notin skipped[c]
          /\ s \notin futures[c] /\ EntryOf(c, s) = "open"
        BY <2>1, EntryMeaning
    <3> QED
        BY <1>3, <1>5, <2>1, <3>1 DEF EntryOf
  <2>2. CASE s \notin pending[c]
      BY <1>3, <1>5, <2>2 DEF EntryOf
  <2> QED
      BY <2>1, <2>2
<1>8. [s \in Steps |-> EntryOf(c, s)'] =
          [s \in Steps |-> IF s \in skip THEN "skipped"
                           ELSE IF s \in ready THEN "inflight" ELSE Ledger[c][s]]
    BY <1>7 DEF Ledger
<1>9. [Modes EXCEPT ![c] = ModeOf(c)] = Modes /\ [Phases EXCEPT ![c] = PhaseOf(c)] = Phases
    BY DEF Modes, Phases
<1>10. /\ Phases' = Phases /\ Modes' = Modes
       /\ Ledger' = [Ledger EXCEPT ![c] =
             [s \in Steps |-> IF s \in skip THEN "skipped"
                              ELSE IF s \in ready THEN "inflight" ELSE Ledger[c][s]]]
    BY <1>1, <1>2, <1>8, <1>9, AbstractFrame
<1>11. \A s \in Steps : /\ Ledger[c][s] = "open" <=> s \in pending[c]
                        /\ Ledger[c][s] = "error" <=> s \in failed[c]
    BY EntryMeaning DEF Ledger
<1>12. skip \in SUBSET {s \in Steps : Ledger[c][s] = "open"}
       /\ ready \in SUBSET {s \in Steps : Ledger[c][s] = "open"}
    BY <1>3, <1>6, <1>11
<1>13. /\ \A s \in skip : /\ error_policy[c] = "dependent_fail"
                          /\ \E d \in DependsOn[s] : Ledger[c][d] = "error"
       /\ \A s \in ready :
             /\ DependsOn[s] \subseteq Contract!Closed(Ledger[c]) \cup skip
             /\ error_policy[c] = "dependent_fail" =>
                   \A d \in DependsOn[s] : Ledger[c][d] # "error"
    BY <1>3, <1>4, <1>6, <1>11, ClosedIsCompleted
<1>14. ~Contract!Aborted(c) /\ (ready # {} => ~Contract!Paused(c)) /\ Phases[c] = "active"
    BY <1>2, <1>3, <1>5, ModeMeaning DEF Phases
<1>15. \E sk, go \in SUBSET {s \in Steps : Ledger[c][s] = "open"} :
          LET closed == Contract!Closed(Ledger[c]) \cup sk
          IN  /\ sk \cap go = {}
              /\ \A s \in sk : /\ error_policy[c] = "dependent_fail"
                               /\ \E d \in DependsOn[s] : Ledger[c][d] = "error"
              /\ \A s \in go : /\ DependsOn[s] \subseteq closed
                               /\ error_policy[c] = "dependent_fail" =>
                                     \A d \in DependsOn[s] : Ledger[c][d] # "error"
              /\ go # {} => ~Contract!Paused(c)
              /\ Ledger' = [Ledger EXCEPT ![c] =
                               [s \in Steps |-> IF s \in sk THEN "skipped"
                                                ELSE IF s \in go THEN "inflight" ELSE @[s]]]
    BY <1>3, <1>10, <1>12, <1>13, <1>14
<1> QED
    BY <1>1, <1>10, <1>14, <1>15 DEF Contract!Submit, Phases, Ledger, Modes

\* A harvested result closes the step, and pauses the ledger on a review.
LEMMA HarvestSuccessIsClose ==
    ASSUME LoopInvariant, LedgerInvariant, NEW c \in Calls, NEW s \in Steps,
           HarvestSuccess(c, s)
    PROVE  Contract!Close(c, s)
<1>1. /\ s \in futures[c] /\ thread[c][s] = "done" /\ ~abort[c]
      /\ pc[c] = "harvest" /\ ret[c][s] \in Outcomes
    BY DEF LoopInvariant, HarvestSuccess, BatchIsLive, AbortClears
<1>2. OthersKeep(c) /\ error_policy' = error_policy
    BY DEF LoopInvariant, EngineTypeOK, HarvestSuccess, OthersKeep
<1>3. PhaseOf(c) = "active" /\ PhaseOf(c)' = "active"
    BY <1>1 DEF LoopInvariant, EngineTypeOK, HarvestSuccess, AfterHarvest, PhaseOf
<1>4. /\ Keys(results'[c]) = Keys(results[c]) \cup {s}
      /\ UNCHANGED <<failed, skipped, pending, abort>>
      /\ futures'[c] = futures[c] \ {s}
      /\ paused_at_step'[c] = PauseAfter(c, s)
    BY <1>1 DEF LoopInvariant, EngineTypeOK, HarvestSuccess, Keys, NoResult, Outcomes,
       TaskOutcomes
<1>5. Kind[s] = "human_review" => ret[c][s] = "pending_human_review"
    BY <1>1 DEF LedgerInvariant, DoneIsHarvested, StepOutputs, StepFailures
<1>6. ModeOf(c)' = IF Kind[s] = "human_review" THEN "paused" ELSE ModeOf(c)
    BY <1>1, <1>4, <1>5, PlanAssumption DEF ModeOf, PauseAfter
<1>7. \A t \in Steps : EntryOf(c, t)' = IF t = s THEN "result" ELSE EntryOf(c, t)
  <2>1. \A t \in Steps : t \in Keys(results'[c]) <=> t = s \/ t \in Keys(results[c])
      BY <1>4
  <2>2. \A t \in Steps : EntryOf(c, t)' = IF t \in Keys(results'[c]) THEN "result"
                                         ELSE IF t \in failed[c] THEN "error"
                                         ELSE IF t \in skipped[c] THEN "skipped"
                                         ELSE IF t \in futures[c] \ {s} THEN "inflight"
                                         ELSE IF t \in pending[c] THEN "open" ELSE "absent"
      BY <1>4 DEF EntryOf, Keys
  <2> QED
      BY <2>1, <2>2 DEF EntryOf
<1>8. [t \in Steps |-> EntryOf(c, t)'] = [Ledger[c] EXCEPT ![s] = "result"]
    BY <1>7 DEF Ledger
<1>9. [Phases EXCEPT ![c] = PhaseOf(c)] = Phases
    BY DEF Phases
<1>10. /\ Phases' = Phases
       /\ Ledger' = [Ledger EXCEPT ![c] = [Ledger[c] EXCEPT ![s] = "result"]]
       /\ Modes' = [Modes EXCEPT ![c] =
                       IF Kind[s] = "human_review" THEN "paused" ELSE Modes[c]]
  <2>1. Modes[c] = ModeOf(c)
      BY DEF Modes
  <2> QED
      BY <1>2, <1>3, <1>6, <1>8, <1>9, <2>1, AbstractFrame
<1>11. Phases[c] = "active" /\ ~Contract!Aborted(c) /\ Ledger[c][s] = "inflight"
    BY <1>1, <1>3, ModeMeaning, EntryMeaning DEF Phases, Ledger
<1> QED
    BY <1>2, <1>10, <1>11 DEF Contract!Close, Phases, Ledger, Modes

\* A harvested error closes the step, and aborts the ledger under fail_fast.
LEMMA HarvestFailureIsClose ==
    ASSUME LoopInvariant, LedgerInvariant, NEW c \in Calls, NEW s \in Steps,
           HarvestFailure(c, s)
    PROVE  Contract!Close(c, s)
<1>1. /\ s \in futures[c] /\ thread[c][s] = "done" /\ ~abort[c] /\ s \notin completed[c]
      /\ pc[c] = "harvest"
    BY DEF LoopInvariant, HarvestFailure, BatchIsLive, AbortClears, FuturesAreOpen
<1>2. OthersKeep(c) /\ error_policy' = error_policy
    BY DEF LoopInvariant, EngineTypeOK, HarvestFailure, OthersKeep
<1>3. PhaseOf(c) = "active" /\ PhaseOf(c)' = "active"
    BY <1>1 DEF LoopInvariant, EngineTypeOK, HarvestFailure, AfterHarvest, PhaseOf
<1>4. /\ failed'[c] = failed[c] \cup {s}
      /\ UNCHANGED <<results, skipped, pending, paused_at_step>>
      /\ futures'[c] = futures[c] \ {s}
      /\ abort'[c] <=> error_policy[c] = "fail_fast"
    BY DEF LoopInvariant, EngineTypeOK, HarvestFailure
<1>5. ModeOf(c)' = IF error_policy[c] # "fail_fast" THEN ModeOf(c)
                   ELSE IF paused_at_step[c] # NoStep THEN "both" ELSE "aborted"
    BY <1>1, <1>4 DEF ModeOf
<1>6. s \notin Keys(results[c])
    BY <1>1 DEF LedgerInvariant, CompletedIsLedger
<1>7. \A t \in Steps : EntryOf(c, t)' = IF t = s THEN "error" ELSE EntryOf(c, t)
    BY <1>4, <1>6 DEF EntryOf
<1>8. [t \in Steps |-> EntryOf(c, t)'] = [Ledger[c] EXCEPT ![s] = "error"]
    BY <1>7 DEF Ledger
<1>9. [Phases EXCEPT ![c] = PhaseOf(c)] = Phases
    BY DEF Phases
<1>10. /\ Phases' = Phases
       /\ Ledger' = [Ledger EXCEPT ![c] = [Ledger[c] EXCEPT ![s] = "error"]]
       /\ Modes' = [Modes EXCEPT ![c] =
                       IF error_policy[c] # "fail_fast" THEN Modes[c]
                       ELSE IF Contract!Paused(c) THEN "both" ELSE "aborted"]
  <2>1. Modes[c] = ModeOf(c) /\ (Contract!Paused(c) <=> paused_at_step[c] # NoStep)
      BY ModeMeaning DEF Modes
  <2> QED
      BY <1>2, <1>3, <1>5, <1>8, <1>9, <2>1, AbstractFrame
<1>11. Phases[c] = "active" /\ ~Contract!Aborted(c) /\ Ledger[c][s] = "inflight"
    BY <1>1, <1>3, ModeMeaning, EntryMeaning DEF Phases, Ledger
<1> QED
    BY <1>2, <1>10, <1>11 DEF Contract!Close, Phases, Ledger, Modes

\* Cancelling a future drops its step.
LEMMA CancelIsDrop ==
    ASSUME LoopInvariant, LedgerInvariant, NEW c \in Calls, NEW s \in Steps, Cancel(c, s)
    PROVE  Contract!Drop(c)
<1>1. pc[c] = "cancel" /\ abort[c] /\ s \in futures[c]
    BY DEF Cancel, LedgerInvariant, CancelIsAbort
<1>2. OthersKeep(c) /\ error_policy' = error_policy
    BY DEF LoopInvariant, EngineTypeOK, Cancel, OthersKeep
<1>3. PhaseOf(c) = "active" /\ PhaseOf(c)' = "active" /\ ModeOf(c)' = ModeOf(c)
    BY <1>1 DEF LoopInvariant, EngineTypeOK, Cancel, AfterHarvest, PhaseOf, ModeOf
<1>4. futures'[c] = futures[c] \ {s} /\ UNCHANGED <<results, failed, skipped, pending>>
    BY DEF LoopInvariant, EngineTypeOK, Cancel
<1>5. \A t \in Steps : EntryOf(c, t)' = IF t \in {s} THEN "absent" ELSE EntryOf(c, t)
  <2>1. s \notin Keys(results[c]) /\ s \notin failed[c] /\ s \notin skipped[c]
        /\ s \notin pending[c]
      BY <1>1, EntryMeaning
  <2> QED
      BY <1>4, <2>1 DEF EntryOf
<1>6. [t \in Steps |-> EntryOf(c, t)'] =
          [t \in Steps |-> IF t \in {s} THEN "absent" ELSE Ledger[c][t]]
    BY <1>5 DEF Ledger
<1>7. [Modes EXCEPT ![c] = ModeOf(c)] = Modes /\ [Phases EXCEPT ![c] = PhaseOf(c)] = Phases
    BY DEF Modes, Phases
<1>8. /\ Phases' = Phases /\ Modes' = Modes
      /\ Ledger' = [Ledger EXCEPT ![c] =
            [t \in Steps |-> IF t \in {s} THEN "absent" ELSE Ledger[c][t]]]
    BY <1>2, <1>3, <1>6, <1>7, AbstractFrame
<1>9. {s} \in SUBSET {t \in Steps : Ledger[c][t] \in {"open", "inflight"}}
    BY <1>1, EntryMeaning DEF Ledger
<1>10. Contract!Aborted(c) /\ Phases[c] = "active"
    BY <1>1, <1>3, ModeMeaning DEF Phases
<1> QED
    BY <1>2, <1>8, <1>9, <1>10 DEF Contract!Drop, Phases, Ledger, Modes

\* The return of the call finishes the ledger: nothing is in flight, and what
\* is open cannot run unless the call was paused or aborted.
LEMMA ReturnIsFinish ==
    ASSUME LoopInvariant, LedgerInvariant, NEW c \in Calls, Return(c)
    PROVE  Contract!Finish(c)
<1>1. OthersKeep(c) /\ error_policy' = error_policy
    BY DEF LoopInvariant, EngineTypeOK, Return, OthersKeep, loopVars
<1>2. PhaseOf(c) = "active" /\ PhaseOf(c)' = "returned" /\ ModeOf(c)' = ModeOf(c)
    BY DEF LoopInvariant, EngineTypeOK, Return, PhaseOf, ModeOf, loopVars
<1>3. \A s \in Steps : EntryOf(c, s)' = EntryOf(c, s)
    BY DEF Return, EntryOf, Keys, loopVars
<1>4. [s \in Steps |-> EntryOf(c, s)'] = Ledger[c]
    BY <1>3 DEF Ledger
<1>5. [Modes EXCEPT ![c] = ModeOf(c)] = Modes /\ [Ledger EXCEPT ![c] = Ledger[c]] = Ledger
    BY DEF Modes, Ledger
<1>6. Phases' = [Phases EXCEPT ![c] = "returned"] /\ Modes' = Modes /\ Ledger' = Ledger
    BY <1>1, <1>2, <1>4, <1>5, AbstractFrame
<1>7. pc[c] = "drain" /\ futures[c] = {}
    BY DEF Return, LoopInvariant, LedgerInvariant, AbortClears, DrainIsDry
<1>8. \A s \in Steps : Ledger[c][s] # "inflight"
    BY <1>7, EntryMeaning DEF Ledger
<1>9. ASSUME Modes[c] = "normal", NEW s \in Steps, Ledger[c][s] = "open"
      PROVE  Cond[s] # {} \/ ~(DependsOn[s] \subseteq Contract!Closed(Ledger[c]))
  <2>1. ~abort[c] /\ paused_at_step[c] = NoStep /\ s \in pending[c]
      BY <1>9, ModeMeaning, EntryMeaning DEF Modes, Ledger
  <2>2. ReadySteps(pending[c], completed[c], results[c]) = {}
      BY <1>7, <2>1 DEF LedgerInvariant, DrainIsDry
  <2>3. ~(DependsOn[s] \subseteq completed[c]) \/ ~eval_condition(s, results[c])
      BY <2>1, <2>2 DEF ReadySteps
  <2> QED
      BY <2>3, ClosedIsCompleted DEF eval_condition
<1>10. Phases[c] = "active"
    BY <1>2 DEF Phases
<1> QED
    BY <1>1, <1>6, <1>8, <1>9, <1>10 DEF Contract!Finish, Phases, Ledger, Modes

\* Waiting and the workers' steps are invisible to the ledger.
LEMMA InvisibleSteps ==
    ASSUME LoopInvariant, NEW c \in Calls,
           \/ Wait(c)
           \/ \E s \in Steps : EngineWorker(c, s)
    PROVE  UNCHANGED Contract!runVars
<1>1. UNCHANGED <<error_policy, results, failed, skipped, futures, pending, abort,
                  paused_at_step>>
    BY DEF Wait, EngineWorker, StartStep, FinishStep, loopVars
<1>2. OthersKeep(c) /\ PhaseOf(c)' = PhaseOf(c)
    BY <1>1 DEF LoopInvariant, EngineTypeOK, Wait, EngineWorker, StartStep, FinishStep,
       OthersKeep, PhaseOf
<1>3. ModeOf(c)' = ModeOf(c) /\ \A s \in Steps : EntryOf(c, s)' = EntryOf(c, s)
    BY <1>1 DEF ModeOf, EntryOf, Keys
<1> QED
    BY <1>1, <1>2, <1>3, AbstractStutter

\* Every step of the engine is a step of the ledger or invisible to it.
LEMMA NextImplements ==
    ASSUME LoopInvariant, LedgerInvariant, [EngineNext]_engineVars
    PROVE  [Contract!RunNext]_Contract!runVars
<1>1. CASE UNCHANGED engineVars
    BY <1>1 DEF engineVars, Contract!runVars, PhaseOf, EntryOf, ModeOf, Keys
<1>2. ASSUME NEW c \in Calls, NEW seed \in Seeds, Begin(c, seed)
      PROVE  Contract!RunNext
    BY <1>2, SeedAssumption, BeginIsStart DEF Contract!RunNext
<1>3. ASSUME NEW c \in Calls, EngineLoop(c)
      PROVE  Contract!RunNext \/ UNCHANGED Contract!runVars
    BY <1>3, LeaveLoopIsDrop, ScheduleIsSubmit, HarvestSuccessIsClose,
       HarvestFailureIsClose, CancelIsDrop, ReturnIsFinish, InvisibleSteps
       DEF EngineLoop, Contract!RunNext
<1>4. ASSUME NEW c \in Calls, NEW s \in Steps, EngineWorker(c, s)
      PROVE  UNCHANGED Contract!runVars
    BY <1>4, InvisibleSteps
<1> QED
    BY <1>1, <1>2, <1>3, <1>4 DEF EngineNext

\* For every plan, seed, policy and pool size, execute_plan's loop, with its
\* futures, batches, cancellations and workers, implements the ledger of PlanRun.
THEOREM EngineImplementsContract == EngineSpec => ImplementsContract
<1>1. EngineInit => Contract!RunInit
    BY InitContract
<1>2. LoopInvariant /\ LedgerInvariant /\ [EngineNext]_engineVars
         => [Contract!RunNext]_Contract!runVars
    BY NextImplements
<1> QED
    BY <1>1, <1>2, LedgerInvariantHolds, PTL DEF EngineSpec, ImplementsContract, Contract!RunSpec

=============================================================================
