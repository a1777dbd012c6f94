-------------------------- MODULE PlanEngineProofs --------------------------
(***************************************************************************)
(* Proofs about PlanEngine for every plan, every set of calls, every pool  *)
(* size and every error policy: type correctness, the order of             *)
(* dependencies, quiescence at return, the submission discipline, and that *)
(* a call that has not returned goes on and comes closer to its return.    *)
(***************************************************************************)
EXTENDS PlanEngine, FiniteSetTheorems, TLAPS

-----------------------------------------------------------------------------
(* The inductive invariant, part by part. *)

\* Before a call begins its pool is empty and nothing has failed.
IdleIsClean ==
    \A c \in Calls : pc[c] = "idle" =>
        /\ failed[c] = {} /\ futures[c] = {} /\ ~abort[c]
        /\ \A s \in Steps : thread[c][s] = "idle"

\* A pending step is untouched: no worker has it and nothing completed it.
PendingIsFresh ==
    \A c \in Calls : \A s \in pending[c] :
        thread[c][s] = "idle" /\ s \notin completed[c]

\* A live future is a submitted step that is not completed yet, and every step
\* waiting in the pool's queue has a live future.
FuturesAreOpen ==
    \A c \in Calls : \A s \in Steps :
        /\ s \in futures[c] => thread[c][s] # "idle" /\ s \notin completed[c]
        /\ thread[c][s] = "queued" => s \in futures[c]

\* What the loop is about to harvest is part of its futures, and done.
BatchIsLive ==
    \A c \in Calls :
        /\ batch[c] \subseteq futures[c]
        /\ \A s \in batch[c] : thread[c][s] = "done"
        /\ pc[c] # "harvest" => batch[c] = {}

\* After an abort no future is left, except while they are being cancelled.
AbortClears ==
    \A c \in Calls : abort[c] /\ pc[c] # "cancel" => futures[c] = {}

LoopInvariant ==
    /\ EngineTypeOK
    /\ IdleIsClean
    /\ PendingIsFresh
    /\ FuturesAreOpen
    /\ BatchIsLive
    /\ AbortClears
    /\ DependencyOrder
    /\ QuietWhenReturned

-----------------------------------------------------------------------------

\* A call that has not begun satisfies the invariant.
LEMMA InitEstablishes == EngineInit => LoopInvariant
<1> SUFFICES ASSUME EngineInit PROVE LoopInvariant
    OBVIOUS
<1>1. EngineTypeOK
    BY PolicyAssumption DEF EngineInit, EngineTypeOK, PcValues, ThreadValues,
       RetValues, TraceValues, ResultValues, EmptyResults
<1>2. DependencyOrder /\ QuietWhenReturned
    BY DEF EngineInit, DependencyOrder, QuietWhenReturned
<1>3. IdleIsClean /\ PendingIsFresh /\ FuturesAreOpen /\ BatchIsLive /\ AbortClears
    BY DEF EngineInit, IdleIsClean, PendingIsFresh, FuturesAreOpen, BatchIsLive,
           AbortClears
<1> QED
    BY <1>1, <1>2, <1>3 DEF LoopInvariant

\* Entering execute_plan: the pending steps are the enabled ones outside the seed.
LEMMA BeginPreserves ==
    ASSUME LoopInvariant, NEW c \in Calls,
           NEW seed \in [Steps -> ResultValues], Begin(c, seed)
    PROVE  LoopInvariant'
<1> USE DEF LoopInvariant
<1>1. EngineTypeOK'
    BY PlanAssumption DEF Begin, EngineTypeOK, PcValues, Keys, poolVars
<1>2. IdleIsClean'
    BY DEF Begin, EngineTypeOK, IdleIsClean, poolVars
<1>3. PendingIsFresh'
    BY PlanAssumption DEF Begin, EngineTypeOK, IdleIsClean, PendingIsFresh, poolVars
<1>4. FuturesAreOpen'
    BY DEF Begin, EngineTypeOK, IdleIsClean, FuturesAreOpen, poolVars
<1>5. BatchIsLive' /\ AbortClears'
    BY DEF Begin, EngineTypeOK, IdleIsClean, BatchIsLive, AbortClears, poolVars
<1>6. DependencyOrder'
    BY DEF Begin, EngineTypeOK, IdleIsClean, DependencyOrder, poolVars
<1>7. QuietWhenReturned'
    BY DEF Begin, EngineTypeOK, QuietWhenReturned, poolVars
<1> QED
    BY <1>1, <1>2, <1>3, <1>4, <1>5, <1>6, <1>7

\* Leaving the loop clears pending and touches no thread.
LEMMA LeaveLoopPreserves ==
    ASSUME LoopInvariant, NEW c \in Calls, LeaveLoop(c)
    PROVE  LoopInvariant'
<1> USE DEF LoopInvariant
<1>1. EngineTypeOK'
    BY DEF LeaveLoop, EngineTypeOK, PcValues, poolVars
<1>2. IdleIsClean' /\ PendingIsFresh' /\ FuturesAreOpen'
    BY DEF LeaveLoop, EngineTypeOK, IdleIsClean, PendingIsFresh, FuturesAreOpen, poolVars
<1>3. BatchIsLive' /\ AbortClears'
    BY DEF LeaveLoop, EngineTypeOK, BatchIsLive, AbortClears, poolVars
<1>4. DependencyOrder' /\ QuietWhenReturned'
    BY DEF LeaveLoop, EngineTypeOK, DependencyOrder, QuietWhenReturned, poolVars
<1> QED
    BY <1>1, <1>2, <1>3, <1>4

\* The one action that hands steps to the pool: what it queues is pending and
\* fresh, has only completed dependencies, and none that failed if the policy
\* is dependent_fail, because such steps are skipped just before.
LEMMA SchedulePreserves ==
    ASSUME LoopInvariant, NEW c \in Calls, Schedule(c)
    PROVE  LoopInvariant'
<1> USE DEF LoopInvariant
<1> DEFINE skip  == StepsToSkip(error_policy[c], pending[c], failed[c])
           ready == IF paused_at_step[c] # NoStep THEN {}
                    ELSE ReadySteps(pending[c] \ skip, completed[c] \cup skip, results[c])
<1>1. skip \subseteq pending[c] /\ ready \subseteq pending[c] \ skip
    BY DEF StepsToSkip, ReadySteps
<1>2. \A s \in ready : DependsOn[s] \subseteq completed[c] \cup skip
    BY DEF ReadySteps
<1>3. error_policy[c] = "dependent_fail" =>
         \A s \in ready : DependsOn[s] \cap failed[c] = {}
    BY <1>1 DEF StepsToSkip
<1>4. /\ pc[c] = "loop" /\ ~abort[c]
      /\ skipped'   = [skipped EXCEPT ![c] = @ \cup skip]
      /\ completed' = [completed EXCEPT ![c] = @ \cup skip]
      /\ pending'   = [pending EXCEPT ![c] = (@ \ skip) \ ready]
      /\ futures'   = [futures EXCEPT ![c] = @ \cup ready]
      /\ thread'    = [thread EXCEPT ![c] =
                          [s \in Steps |-> IF s \in ready THEN "queued" ELSE @[s]]]
      /\ \E lost \in Refusable(skip) :
            trace'  = [trace EXCEPT ![c] =
                          [s \in Steps |-> IF s \in skip \ lost THEN "skipped" ELSE @[s]]]
      /\ pc' = [pc EXCEPT ![c] = IF futures[c] \cup ready = {} THEN "drain" ELSE "wait"]
      /\ UNCHANGED <<error_policy, failed, batch, abort, paused_at_step, results, ret>>
    BY DEF Schedule, AfterSubmit
<1> HIDE DEF skip, ready
<1>5. pending[c] \subseteq Steps
    BY DEF EngineTypeOK
<1>6. EngineTypeOK'
  <2>1. trace' \in [Calls -> [Steps -> TraceValues]]
      BY <1>4 DEF EngineTypeOK, TraceValues
  <2>2. thread' \in [Calls -> [Steps -> ThreadValues]]
      BY <1>4 DEF EngineTypeOK, ThreadValues
  <2>3. pc' \in [Calls -> PcValues]
      BY <1>4 DEF EngineTypeOK, PcValues
  <2> QED
      BY <1>1, <1>4, <1>5, <2>1, <2>2, <2>3 DEF EngineTypeOK
<1>7. IdleIsClean'
    BY <1>4 DEF EngineTypeOK, IdleIsClean
<1>8. PendingIsFresh'
    BY <1>1, <1>4, <1>5 DEF EngineTypeOK, PendingIsFresh
<1>9. FuturesAreOpen'
    BY <1>1, <1>4, <1>5 DEF EngineTypeOK, PendingIsFresh, FuturesAreOpen
<1>10. BatchIsLive'
    BY <1>4 DEF EngineTypeOK, BatchIsLive
<1>11. AbortClears'
    BY <1>4 DEF EngineTypeOK, AbortClears
<1>12. DependencyOrder'
    BY <1>2, <1>3, <1>4 DEF EngineTypeOK, DependencyOrder
<1>13. QuietWhenReturned'
    BY <1>4 DEF EngineTypeOK, QuietWhenReturned
<1> QED
    BY <1>6, <1>7, <1>8, <1>9, <1>10, <1>11, <1>12, <1>13

\* wait() only moves finished futures into the batch.
LEMMA WaitPreserves ==
    ASSUME LoopInvariant, NEW c \in Calls, Wait(c)
    PROVE  LoopInvariant'
<1> USE DEF LoopInvariant
<1>1. EngineTypeOK'
    BY DEF Wait, EngineTypeOK, PcValues, poolVars
<1>2. IdleIsClean' /\ PendingIsFresh' /\ FuturesAreOpen'
    BY DEF Wait, EngineTypeOK, IdleIsClean, PendingIsFresh, FuturesAreOpen, poolVars
<1>3. BatchIsLive' /\ AbortClears'
    BY DEF Wait, EngineTypeOK, BatchIsLive, AbortClears, poolVars
<1>4. DependencyOrder' /\ QuietWhenReturned'
    BY DEF Wait, EngineTypeOK, DependencyOrder, QuietWhenReturned, poolVars
<1> QED
    BY <1>1, <1>2, <1>3, <1>4

\* A harvested success completes a step whose worker is done.
LEMMA HarvestSuccessPreserves ==
    ASSUME LoopInvariant, NEW c \in Calls, NEW s \in Steps, HarvestSuccess(c, s)
    PROVE  LoopInvariant'
<1> USE DEF LoopInvariant
<1>1. s \in futures[c] /\ thread[c][s] = "done" /\ pc[c] = "harvest"
    BY DEF HarvestSuccess, BatchIsLive
<1>2. EngineTypeOK'
    BY DEF HarvestSuccess, AfterHarvest, PauseAfter, EngineTypeOK, PcValues, ResultValues, poolVars
<1>3. pc'[c] # "idle" /\ pc'[c] # "returned" /\ (pc'[c] # "harvest" => batch[c] \ {s} = {})
    BY DEF HarvestSuccess, AfterHarvest, EngineTypeOK
<1>4. IdleIsClean' /\ QuietWhenReturned'
    BY <1>3 DEF HarvestSuccess, EngineTypeOK, IdleIsClean, QuietWhenReturned, poolVars
<1>5. PendingIsFresh'
    BY <1>1 DEF HarvestSuccess, EngineTypeOK, PendingIsFresh, poolVars
<1>6. FuturesAreOpen'
    BY <1>1 DEF HarvestSuccess, EngineTypeOK, FuturesAreOpen, poolVars
<1>7. BatchIsLive'
    BY <1>3 DEF HarvestSuccess, EngineTypeOK, BatchIsLive, poolVars
<1>8. AbortClears'
    BY <1>1 DEF HarvestSuccess, EngineTypeOK, AbortClears
<1>9. DependencyOrder'
    BY DEF HarvestSuccess, EngineTypeOK, DependencyOrder, poolVars
<1> QED
    BY <1>2, <1>4, <1>5, <1>6, <1>7, <1>8, <1>9

\* A failure cannot reach a dependent that is already in the pool: that one was
\* submitted with all its dependencies completed, and s was still open.
LEMMA HarvestFailurePreserves ==
    ASSUME LoopInvariant, NEW c \in Calls, NEW s \in Steps, HarvestFailure(c, s)
    PROVE  LoopInvariant'
<1> USE DEF LoopInvariant
<1>1. /\ s \in futures[c] /\ thread[c][s] = "done" /\ pc[c] = "harvest"
      /\ s \notin completed[c]
    BY DEF HarvestFailure, BatchIsLive, FuturesAreOpen
<1>2. EngineTypeOK'
    BY DEF HarvestFailure, AfterHarvest, EngineTypeOK, PcValues, poolVars
<1>3. /\ pc'[c] # "idle" /\ pc'[c] # "returned"
      /\ pc'[c] # "harvest" => batch'[c] = {}
    BY DEF HarvestFailure, AfterHarvest, EngineTypeOK
<1>4. IdleIsClean' /\ QuietWhenReturned'
  <2>1. \A d \in Calls : d # c =>
           /\ pc'[d] = pc[d] /\ failed'[d] = failed[d]
           /\ futures'[d] = futures[d] /\ abort'[d] = abort[d]
      BY DEF HarvestFailure, EngineTypeOK
  <2>2. thread' = thread
      BY DEF HarvestFailure, poolVars
  <2> QED
      BY <1>3, <2>1, <2>2 DEF IdleIsClean, QuietWhenReturned
<1>5. PendingIsFresh'
    BY <1>1 DEF HarvestFailure, EngineTypeOK, PendingIsFresh, poolVars
<1>6. FuturesAreOpen'
    BY <1>1 DEF HarvestFailure, EngineTypeOK, FuturesAreOpen, poolVars
<1>7. BatchIsLive'
    BY <1>3 DEF HarvestFailure, EngineTypeOK, BatchIsLive, poolVars
<1>8. AbortClears'
    BY <1>1 DEF HarvestFailure, AfterHarvest, EngineTypeOK, AbortClears
<1>9. DependencyOrder'
    BY <1>1 DEF HarvestFailure, EngineTypeOK, DependencyOrder, poolVars
<1> QED
    BY <1>2, <1>4, <1>5, <1>6, <1>7, <1>8, <1>9

\* Cancelling a future forgets it and stops it if no worker has taken it.
LEMMA CancelPreserves ==
    ASSUME LoopInvariant, NEW c \in Calls, NEW s \in Steps, Cancel(c, s)
    PROVE  LoopInvariant'
<1> USE DEF LoopInvariant
<1>1. EngineTypeOK'
    BY DEF Cancel, AfterHarvest, EngineTypeOK, PcValues, ThreadValues
<1>2. pc'[c] # "idle" /\ pc'[c] # "returned" /\ pc'[c] # "harvest"
    BY DEF Cancel, AfterHarvest, EngineTypeOK
<1>3. thread'[c][s] # "idle"
    BY DEF Cancel, EngineTypeOK, FuturesAreOpen
<1>4. IdleIsClean' /\ QuietWhenReturned'
    BY <1>2 DEF Cancel, EngineTypeOK, IdleIsClean, QuietWhenReturned
<1>5. PendingIsFresh'
    BY DEF Cancel, EngineTypeOK, PendingIsFresh, FuturesAreOpen
<1>6. FuturesAreOpen'
    BY <1>3 DEF Cancel, EngineTypeOK, FuturesAreOpen
<1>7. BatchIsLive'
    BY DEF Cancel, EngineTypeOK, BatchIsLive
<1>8. AbortClears'
    BY DEF Cancel, AfterHarvest, EngineTypeOK, AbortClears
<1>9. DependencyOrder'
    BY DEF Cancel, EngineTypeOK, DependencyOrder, FuturesAreOpen
<1> QED
    BY <1>1, <1>4, <1>5, <1>6, <1>7, <1>8, <1>9

\* The call returns when no worker is queued or running.
LEMMA ReturnPreserves ==
    ASSUME LoopInvariant, NEW c \in Calls, Return(c)
    PROVE  LoopInvariant'
<1> USE DEF LoopInvariant
<1>1. EngineTypeOK'
    BY DEF Return, EngineTypeOK, PcValues, loopVars, poolVars
<1>2. IdleIsClean' /\ PendingIsFresh' /\ FuturesAreOpen'
    BY DEF Return, EngineTypeOK, IdleIsClean, PendingIsFresh, FuturesAreOpen,
           loopVars, poolVars
<1>3. BatchIsLive' /\ AbortClears' /\ DependencyOrder'
    BY DEF Return, EngineTypeOK, BatchIsLive, AbortClears, DependencyOrder,
           loopVars, poolVars
<1>4. QuietWhenReturned'
    BY DEF Return, EngineTypeOK, ThreadValues, QuietWhenReturned, loopVars, poolVars
<1> QED
    BY <1>1, <1>2, <1>3, <1>4

\* A worker takes a step only while its call is active.
LEMMA StartStepPreserves ==
    ASSUME LoopInvariant, NEW c \in Calls, NEW s \in Steps, StartStep(c, s)
    PROVE  LoopInvariant'
<1> USE DEF LoopInvariant
<1>1. EngineTypeOK'
    BY DEF StartStep, FirstRows, EngineTypeOK, ThreadValues, TraceValues, loopVars
<1>2. pc[c] # "idle" /\ pc[c] # "returned"
    BY DEF StartStep, IdleIsClean, QuietWhenReturned
<1>3. IdleIsClean' /\ PendingIsFresh' /\ FuturesAreOpen'
    BY <1>2 DEF StartStep, EngineTypeOK, IdleIsClean, PendingIsFresh, FuturesAreOpen, loopVars
<1>4. BatchIsLive' /\ AbortClears' /\ DependencyOrder'
    BY DEF StartStep, EngineTypeOK, BatchIsLive, AbortClears, DependencyOrder, loopVars
<1>5. QuietWhenReturned'
    BY <1>2 DEF StartStep, EngineTypeOK, QuietWhenReturned, loopVars
<1> QED
    BY <1>1, <1>3, <1>4, <1>5

\* A worker ends a step only while its call is active.
LEMMA FinishStepPreserves ==
    ASSUME LoopInvariant, NEW c \in Calls, NEW s \in Steps,
           NEW v \in RetValues, FinishStep(c, s, v)
    PROVE  LoopInvariant'
<1> USE DEF LoopInvariant
<1>1. EngineTypeOK'
  <2>1. \A row \in FinalRows(trace[c][s], v) : row \in TraceValues
      BY DEF EngineTypeOK, FinalRows, TraceValues
  <2> QED
      BY <2>1 DEF FinishStep, EngineTypeOK, ThreadValues, loopVars
<1>2. pc[c] # "idle" /\ pc[c] # "returned"
    BY DEF FinishStep, IdleIsClean, QuietWhenReturned
<1>3. IdleIsClean' /\ PendingIsFresh' /\ FuturesAreOpen'
    BY <1>2 DEF FinishStep, EngineTypeOK, IdleIsClean, PendingIsFresh, FuturesAreOpen, loopVars
<1>4. BatchIsLive' /\ AbortClears' /\ DependencyOrder'
    BY DEF FinishStep, EngineTypeOK, BatchIsLive, AbortClears, DependencyOrder, loopVars
<1>5. QuietWhenReturned'
    BY <1>2 DEF FinishStep, EngineTypeOK, QuietWhenReturned, loopVars
<1> QED
    BY <1>1, <1>3, <1>4, <1>5

\* The invariant depends on the engine's variables alone.
LEMMA StutterPreserves ==
    ASSUME LoopInvariant, UNCHANGED engineVars
    PROVE  LoopInvariant'
BY DEF LoopInvariant, engineVars, EngineTypeOK, IdleIsClean, PendingIsFresh,
       FuturesAreOpen, BatchIsLive, AbortClears, DependencyOrder, QuietWhenReturned

\* Every step of the caller's thread preserves the invariant.
LEMMA LoopPreserves ==
    ASSUME LoopInvariant, NEW c \in Calls, EngineLoop(c)
    PROVE  LoopInvariant'
<1>1. CASE LeaveLoop(c)
    BY <1>1, LeaveLoopPreserves
<1>2. CASE Schedule(c)
    BY <1>2, SchedulePreserves
<1>3. CASE Wait(c)
    BY <1>3, WaitPreserves
<1>4. CASE \E s \in Steps : HarvestSuccess(c, s) \/ HarvestFailure(c, s) \/ Cancel(c, s)
    BY <1>4, HarvestSuccessPreserves, HarvestFailurePreserves, CancelPreserves
<1>5. CASE Return(c)
    BY <1>5, ReturnPreserves
<1> QED
    BY <1>1, <1>2, <1>3, <1>4, <1>5 DEF EngineLoop

\* Every step of the engine preserves the invariant.
LEMMA NextPreserves ==
    ASSUME LoopInvariant, [EngineNext]_engineVars
    PROVE  LoopInvariant'
<1>1. CASE UNCHANGED engineVars
    BY <1>1, StutterPreserves
<1>2. ASSUME NEW c \in Calls, NEW seed \in Seeds, Begin(c, seed)
      PROVE  LoopInvariant'
    BY <1>2, SeedAssumption, BeginPreserves
<1>3. ASSUME NEW c \in Calls, EngineLoop(c)
      PROVE  LoopInvariant'
    BY <1>3, LoopPreserves
<1>4. ASSUME NEW c \in Calls, NEW s \in Steps, EngineWorker(c, s)
      PROVE  LoopInvariant'
    BY <1>4, StartStepPreserves, FinishStepPreserves DEF EngineWorker
<1> QED
    BY <1>1, <1>2, <1>3, <1>4 DEF EngineNext

\* The scheduling loop of execute_plan keeps its own bookkeeping consistent: the
\* whole inductive invariant holds in every state of every call.
THEOREM LoopInvariantHolds == EngineSpec => []LoopInvariant
<1>1. EngineInit => LoopInvariant
    BY InitEstablishes
<1>2. LoopInvariant /\ [EngineNext]_engineVars => LoopInvariant'
    BY NextPreserves
<1> QED
    BY <1>1, <1>2, PTL DEF EngineSpec

\* Every variable of the engine keeps its type.
THEOREM EngineTypeCorrect == EngineSpec => []EngineTypeOK
<1>1. LoopInvariant => EngineTypeOK
    BY DEF LoopInvariant
<1> QED
    BY <1>1, LoopInvariantHolds, PTL

\* For every plan, pool size and interleaving, execute_plan submits a step only
\* when all its dependencies are completed and, under dependent_fail, only when
\* none of them failed.
THEOREM DependencyOrderHolds == EngineSpec => []DependencyOrder
<1>1. LoopInvariant => DependencyOrder
    BY DEF LoopInvariant
<1> QED
    BY <1>1, LoopInvariantHolds, PTL

\* For every plan and policy, no worker of a call is queued or running once
\* execute_plan has returned.
THEOREM QuietWhenReturnedHolds == EngineSpec => []QuietWhenReturned
<1>1. LoopInvariant => QuietWhenReturned
    BY DEF LoopInvariant
<1> QED
    BY <1>1, LoopInvariantHolds, PTL

-----------------------------------------------------------------------------
(* The submission discipline, an action property. *)

\* Every step of the engine keeps the submission discipline for every plan step.
LEMMA SubmitDiscipline ==
    ASSUME LoopInvariant, [EngineNext]_engineVars,
           NEW d \in Calls, NEW t \in Steps
    PROVE  SubmitStep(d, t)
<1> USE DEF LoopInvariant
<1>1. CASE thread' = thread
    BY <1>1 DEF SubmitStep
<1>2. ASSUME NEW c \in Calls, Schedule(c) PROVE SubmitStep(d, t)
  <2>1. CASE c # d
      BY <1>2, <2>1 DEF Schedule, EngineTypeOK, SubmitStep
  <2>2. CASE c = d
    <3> DEFINE skip  == StepsToSkip(error_policy[c], pending[c], failed[c])
               ready == IF paused_at_step[c] # NoStep THEN {}
                        ELSE ReadySteps(pending[c] \ skip, completed[c] \cup skip, results[c])
    <3>1. ready \subseteq pending[c] /\ (ready # {} => paused_at_step[c] = NoStep)
        BY DEF ReadySteps
    <3>2. thread'[c][t] = IF t \in ready THEN "queued" ELSE thread[c][t]
        BY <1>2 DEF Schedule, EngineTypeOK
    <3> HIDE DEF skip, ready
    <3> QED
        BY <2>2, <3>1, <3>2 DEF SubmitStep, PendingIsFresh
  <2> QED
      BY <2>1, <2>2
<1>3. ASSUME NEW c \in Calls, NEW s \in Steps, Cancel(c, s) PROVE SubmitStep(d, t)
    BY <1>3 DEF Cancel, EngineTypeOK, SubmitStep
<1>4. ASSUME NEW c \in Calls, NEW s \in Steps, StartStep(c, s) PROVE SubmitStep(d, t)
    BY <1>4 DEF StartStep, EngineTypeOK, SubmitStep, FuturesAreOpen, AbortClears
<1>5. ASSUME NEW c \in Calls, NEW s \in Steps, NEW v \in RetValues, FinishStep(c, s, v)
      PROVE  SubmitStep(d, t)
    BY <1>5 DEF FinishStep, EngineTypeOK, SubmitStep
<1>6. ASSUME NEW c \in Calls, NEW seed \in Seeds, Begin(c, seed) PROVE thread' = thread
    BY <1>6 DEF Begin, poolVars
<1>7. ASSUME NEW c \in Calls, LeaveLoop(c) \/ Wait(c) \/ Return(c) PROVE thread' = thread
    BY <1>7 DEF LeaveLoop, Wait, Return, loopVars, poolVars
<1>8. ASSUME NEW c \in Calls, NEW s \in Steps, HarvestSuccess(c, s) \/ HarvestFailure(c, s)
      PROVE  thread' = thread
    BY <1>8 DEF HarvestSuccess, HarvestFailure, poolVars
<1>9. CASE UNCHANGED engineVars
    BY <1>9, <1>1 DEF engineVars
<1> QED
    BY <1>1, <1>2, <1>3, <1>4, <1>5, <1>6, <1>7, <1>8, <1>9
       DEF EngineNext, EngineLoop, EngineWorker

\* For every plan, execute_plan submits a step at most once, never one already
\* completed, none after a pause, and none starts after an abort has cancelled.
THEOREM SubmitsOnceAndStopsHolds == EngineSpec => SubmitsOnceAndStops
<1>1. LoopInvariant /\ [EngineNext]_engineVars =>
         [\A c \in Calls, s \in Steps : SubmitStep(c, s)]_engineVars
    BY SubmitDiscipline
<1> QED
    BY <1>1, LoopInvariantHolds, PTL DEF EngineSpec, SubmitsOnceAndStops

-----------------------------------------------------------------------------
(* A call goes on, and comes to an end: what can be proved of CallsReturn,   *)
(* whose fairness is out of the provers' reach.                              *)

\* Where the loop stands says what it has in hand.
LoopHasWork ==
    \A c \in Calls :
        /\ pc[c] \in {"wait", "cancel"} => futures[c] # {}
        /\ pc[c] = "harvest" => batch[c] # {}
        /\ pc[c] = "drain" => futures[c] = {}

\* Every live future is of a step that a worker has, had or is going to have.
FuturesRun ==
    \A c \in Calls : \A s \in futures[c] : thread[c][s] \in {"queued", "running", "done"}

\* A step that is done has given something to fut.result().
DoneReturned ==
    \A c \in Calls, s \in Steps : thread[c][s] = "done" => ret[c][s] # NoResult

\* The loop and its pool, as far as going on is concerned.
ProgressInvariant == LoopHasWork /\ FuturesRun /\ DoneReturned

\* What the loop does after a batch fits what it has in hand.
LEMMA AfterHarvestHasWork ==
    ASSUME NEW left, NEW futs, NEW paused, left \subseteq futs
    PROVE  /\ AfterHarvest(left, futs, paused) \in {"harvest", "drain", "loop"}
           /\ AfterHarvest(left, futs, paused) = "harvest" => left # {}
           /\ AfterHarvest(left, futs, paused) = "drain" => futs = {}
BY DEF AfterHarvest

\* An executor returns something.
LEMMA ExecutorReturns ==
    ASSUME NEW s \in Steps, NEW v \in StepOutputs(s) \cup StepFailures(s)
    PROVE  v # NoResult
BY OutputAssumption DEF StepOutputs, StepFailures, TaskOutcomes, NoResult

\* The steps of the loop keep it so.
LEMMA LoopKeepsProgress ==
    ASSUME LoopInvariant, ProgressInvariant, NEW c \in Calls,
           \/ \E seed \in Seeds : Begin(c, seed)
           \/ LeaveLoop(c) \/ Schedule(c) \/ Wait(c) \/ Return(c)
    PROVE  ProgressInvariant'
<1> USE DEF LoopInvariant, ProgressInvariant
<1>1. ASSUME NEW seed \in Seeds, Begin(c, seed) PROVE ProgressInvariant'
    BY <1>1 DEF Begin, EngineTypeOK, LoopHasWork, FuturesRun, DoneReturned, poolVars
<1>2. CASE LeaveLoop(c)
    BY <1>2 DEF LeaveLoop, EngineTypeOK, LoopHasWork, FuturesRun, DoneReturned, AbortClears, poolVars
<1>3. CASE Schedule(c)
  <2> DEFINE skip  == StepsToSkip(error_policy[c], pending[c], failed[c])
             ready == IF paused_at_step[c] # NoStep THEN {}
                      ELSE ReadySteps(pending[c] \ skip, completed[c] \cup skip, results[c])
  <2>1. ready \subseteq pending[c] /\ ready \subseteq Steps
      BY DEF ReadySteps, EngineTypeOK
  <2>2. /\ futures' = [futures EXCEPT ![c] = @ \cup ready]
        /\ thread' = [thread EXCEPT ![c] = [s \in Steps |-> IF s \in ready THEN "queued" ELSE @[s]]]
        /\ pc' = [pc EXCEPT ![c] = IF futures[c] \cup ready = {} THEN "drain" ELSE "wait"]
        /\ batch' = batch /\ ret' = ret
      BY <1>3 DEF Schedule, AfterSubmit
  <2> HIDE DEF skip, ready
  <2>3. LoopHasWork'
      BY <2>2 DEF EngineTypeOK, LoopHasWork
  <2>4. FuturesRun' /\ DoneReturned'
      BY <2>1, <2>2 DEF EngineTypeOK, FuturesRun, DoneReturned
  <2> QED
      BY <2>3, <2>4
<1>4. CASE Wait(c)
    BY <1>4 DEF Wait, EngineTypeOK, LoopHasWork, FuturesRun, DoneReturned, poolVars
<1>5. CASE Return(c)
    BY <1>5 DEF Return, EngineTypeOK, LoopHasWork, FuturesRun, DoneReturned, loopVars, poolVars
<1> QED
    BY <1>1, <1>2, <1>3, <1>4, <1>5

\* So do harvesting, cancelling and the workers.
LEMMA StepsKeepProgress ==
    ASSUME LoopInvariant, ProgressInvariant, NEW c \in Calls, NEW s \in Steps,
           HarvestSuccess(c, s) \/ HarvestFailure(c, s) \/ Cancel(c, s) \/ EngineWorker(c, s)
    PROVE  ProgressInvariant'
<1> USE DEF LoopInvariant, ProgressInvariant
<1>1. CASE HarvestSuccess(c, s)
  <2> DEFINE next == AfterHarvest(batch[c] \ {s}, futures[c] \ {s}, PauseAfter(c, s))
  <2>1. batch[c] \ {s} \subseteq futures[c] \ {s}
      BY DEF BatchIsLive
  <2>2. /\ next \in {"harvest", "drain", "loop"}
        /\ next = "harvest" => batch[c] \ {s} # {}
        /\ next = "drain" => futures[c] \ {s} = {}
      BY <2>1, AfterHarvestHasWork
  <2>3. /\ pc' = [pc EXCEPT ![c] = next] /\ futures' = [futures EXCEPT ![c] = @ \ {s}]
        /\ batch' = [batch EXCEPT ![c] = @ \ {s}] /\ thread' = thread /\ ret' = ret
      BY <1>1 DEF HarvestSuccess, poolVars
  <2> HIDE DEF next
  <2> QED
      BY <2>2, <2>3 DEF EngineTypeOK, LoopHasWork, FuturesRun, DoneReturned
<1>2. CASE HarvestFailure(c, s)
  <2> DEFINE stop == error_policy[c] = "fail_fast"
             left == IF stop THEN {} ELSE batch[c] \ {s}
             next == IF stop /\ futures[c] # {s} THEN "cancel"
                     ELSE AfterHarvest(left, futures[c] \ {s}, paused_at_step[c])
  <2>1. left \subseteq futures[c] \ {s} /\ s \in futures[c]
      BY <1>2 DEF BatchIsLive, HarvestFailure
  <2>2. /\ next \in {"cancel", "harvest", "drain", "loop"}
        /\ next = "cancel" => futures[c] \ {s} # {}
        /\ next = "harvest" => left # {}
        /\ next = "drain" => futures[c] \ {s} = {}
    <3> HIDE DEF left
    <3> QED
        BY <2>1, AfterHarvestHasWork
  <2>3. /\ pc' = [pc EXCEPT ![c] = next] /\ futures' = [futures EXCEPT ![c] = @ \ {s}]
        /\ batch' = [batch EXCEPT ![c] = left] /\ thread' = thread /\ ret' = ret
      BY <1>2 DEF HarvestFailure, poolVars
  <2> HIDE DEF next, left
  <2> QED
      BY <2>2, <2>3 DEF EngineTypeOK, LoopHasWork, FuturesRun, DoneReturned
<1>3. CASE Cancel(c, s)
  <2> DEFINE next == IF futures[c] # {s} THEN "cancel" ELSE AfterHarvest({}, {}, paused_at_step[c])
  <2>1. AfterHarvest({}, {}, paused_at_step[c]) \in {"drain", "loop"}
      BY DEF AfterHarvest
  <2>2. /\ pc' = [pc EXCEPT ![c] = next] /\ futures' = [futures EXCEPT ![c] = @ \ {s}]
        /\ thread' = [thread EXCEPT ![c][s] = IF @ = "queued" THEN "cancelled" ELSE @]
        /\ batch' = batch /\ ret' = ret /\ s \in futures[c]
      BY <1>3 DEF Cancel
  <2>3. next \in {"cancel", "drain", "loop"} /\ (next = "cancel" <=> futures[c] \ {s} # {})
      BY <2>1, <2>2
  <2> HIDE DEF next
  <2>4. LoopHasWork'
      BY <2>2, <2>3 DEF EngineTypeOK, LoopHasWork
  <2>5. FuturesRun' /\ DoneReturned'
      BY <2>2 DEF EngineTypeOK, FuturesRun, DoneReturned
  <2> QED
      BY <2>4, <2>5
<1>4. CASE StartStep(c, s)
    BY <1>4 DEF StartStep, EngineTypeOK, LoopHasWork, FuturesRun, DoneReturned, loopVars
<1>5. ASSUME NEW v \in RetValues, FinishStep(c, s, v) PROVE ProgressInvariant'
  <2>1. v # NoResult
      BY <1>5, ExecutorReturns DEF FinishStep
  <2> QED
      BY <1>5, <2>1 DEF FinishStep, EngineTypeOK, LoopHasWork, FuturesRun, DoneReturned, loopVars
<1> QED
    BY <1>1, <1>2, <1>3, <1>4, <1>5 DEF EngineWorker

\* The loop and the pool never lose sight of each other.
THEOREM ProgressInvariantHolds == EngineSpec => []ProgressInvariant
<1>1. EngineInit => ProgressInvariant
    BY DEF EngineInit, ProgressInvariant, LoopHasWork, FuturesRun, DoneReturned
<1>2. LoopInvariant /\ ProgressInvariant /\ [EngineNext]_engineVars => ProgressInvariant'
  <2>1. ASSUME ProgressInvariant, UNCHANGED engineVars PROVE ProgressInvariant'
      BY <2>1 DEF engineVars, ProgressInvariant, LoopHasWork, FuturesRun, DoneReturned
  <2> QED
      BY <2>1, LoopKeepsProgress, StepsKeepProgress DEF EngineNext, EngineLoop
<1> QED
    BY <1>1, <1>2, LoopInvariantHolds, PTL DEF EngineSpec

\* For every plan, policy and pool size, a call that has not returned can go on.
THEOREM NeverStuckHolds == EngineSpec => []NeverStuck
<1>1. ASSUME LoopInvariant, ProgressInvariant, NEW c \in Calls, NEW s \in Steps,
             thread[c][s] \in {"queued", "running"}
      PROVE  \/ Cardinality(Running(c)) < MaxConcurrency /\ \E t \in Steps : thread[c][t] = "queued"
             \/ \E t \in Running(c) : StepOutputs(t) \cup StepFailures(t) # {}
  <2>1. \A t \in Steps : StepOutputs(t) \cup StepFailures(t) # {}
      BY PlanAssumption DEF StepOutputs, StepFailures, Kinds
  <2>2. CASE Running(c) = {}
      BY <1>1, <2>2, FS_EmptySet, ConcurrencyAssumption DEF Running
  <2>3. CASE Running(c) # {}
      BY <2>1, <2>3 DEF Running
  <2> QED
      BY <2>2, <2>3
<1>2. ASSUME LoopInvariant, ProgressInvariant PROVE NeverStuck
  <2> SUFFICES ASSUME NEW c \in Calls, pc[c] \notin {"idle", "returned"},
                      \A s \in Steps : thread[c][s] \notin {"queued", "running"}
               PROVE  \/ pc[c] = "loop"
                      \/ pc[c] = "wait" /\ \E s \in futures[c] : thread[c][s] = "done"
                      \/ pc[c] = "harvest" /\ \E s \in batch[c] : ret[c][s] # NoResult
                      \/ pc[c] = "cancel" /\ futures[c] # {}
                      \/ pc[c] = "drain" /\ \A s \in Steps : thread[c][s] \notin {"queued", "running"}
      BY <1>1, <1>2 DEF NeverStuck
  <2>1. CASE pc[c] = "wait"
      BY <1>2, <2>1 DEF LoopInvariant, EngineTypeOK, ProgressInvariant, LoopHasWork, FuturesRun
  <2>2. CASE pc[c] = "harvest"
      BY <1>2, <2>2 DEF LoopInvariant, EngineTypeOK, BatchIsLive, ProgressInvariant, LoopHasWork, DoneReturned
  <2>3. CASE pc[c] = "cancel"
      BY <1>2, <2>3 DEF ProgressInvariant, LoopHasWork
  <2> QED
      BY <1>2, <2>1, <2>2, <2>3 DEF LoopInvariant, EngineTypeOK, PcValues
<1> QED
    BY <1>2, LoopInvariantHolds, ProgressInvariantHolds, PTL

\* A set that loses an element loses of its size.
LEMMA SizeFalls ==
    ASSUME NEW S, IsFiniteSet(S), NEW T \in SUBSET S
    PROVE  /\ Cardinality(S) \in Nat /\ Cardinality(T) \in Nat /\ Cardinality(T) <= Cardinality(S)
           /\ T # S => Cardinality(T) < Cardinality(S)
<1>1. /\ IsFiniteSet(T) /\ Cardinality(T) <= Cardinality(S)
      /\ Cardinality(S) = Cardinality(T) => S = T
    BY FS_Subset
<1>2. Cardinality(S) \in Nat /\ Cardinality(T) \in Nat
    BY <1>1, FS_CardinalityType
<1> QED
    BY <1>1, <1>2

\* What makes what is left of a call less.
LEMMA LeftFalls ==
    ASSUME EngineTypeOK, NEW c \in Calls,
           OpenSteps(c)' \subseteq OpenSteps(c), NotBegun(c)' \subseteq NotBegun(c),
           NotEnded(c)' \subseteq NotEnded(c),
           \/ Turn(c)' < Turn(c)
           \/ Turn(c)' <= Turn(c) + 2 /\ OpenSteps(c)' # OpenSteps(c)
           \/ Turn(c)' <= Turn(c) /\ (NotBegun(c)' # NotBegun(c) \/ NotEnded(c)' # NotEnded(c))
    PROVE  Left(c)' < Left(c)
<1> DEFINE o == Cardinality(OpenSteps(c))  b == Cardinality(NotBegun(c))  e == Cardinality(NotEnded(c))
<1>1. /\ OpenSteps(c) \subseteq Steps /\ NotBegun(c) \subseteq Steps /\ NotEnded(c) \subseteq Steps
    BY DEF EngineTypeOK, OpenSteps, NotBegun, NotEnded
<1>2. IsFiniteSet(OpenSteps(c)) /\ IsFiniteSet(NotBegun(c)) /\ IsFiniteSet(NotEnded(c))
    BY <1>1, PlanAssumption, FS_Subset
<1>3. /\ o \in Nat /\ o' \in Nat /\ o' <= o
      /\ OpenSteps(c)' # OpenSteps(c) => o' < o
    BY <1>2, SizeFalls
<1>4. /\ b \in Nat /\ b' \in Nat /\ b' <= b
      /\ NotBegun(c)' # NotBegun(c) => b' < b
    BY <1>2, SizeFalls
<1>5. /\ e \in Nat /\ e' \in Nat /\ e' <= e
      /\ NotEnded(c)' # NotEnded(c) => e' < e
    BY <1>2, SizeFalls
<1>6. Turn(c) \in 0..4 /\ Turn(c)' \in 0..4
    BY DEF Turn
<1>7. Left(c) = 4 * o + b + e + Turn(c) /\ Left(c)' = 4 * o' + b' + e' + Turn(c)'
    BY DEF Left
<1> HIDE DEF o, b, e
<1> QED
    BY <1>3, <1>4, <1>5, <1>6, <1>7

\* What a step does not touch of a call.
LEMMA LeftStays ==
    ASSUME NEW d \in Calls, pc'[d] = pc[d], pending'[d] = pending[d], futures'[d] = futures[d],
           \A s \in Steps : thread'[d][s] = thread[d][s]
    PROVE  Left(d)' = Left(d)
<1>1. OpenSteps(d)' = OpenSteps(d) /\ Turn(d)' = Turn(d)
    BY DEF OpenSteps, Turn
<1>2. NotBegun(d)' = NotBegun(d) /\ NotEnded(d)' = NotEnded(d)
    BY DEF NotBegun, NotEnded
<1> QED
    BY <1>1, <1>2 DEF Left

\* What one call is closer to its return by.
RunsDown(c) == Left(c)' < Left(c) /\ \A d \in Calls \ {c} : Left(d)' = Left(d)

\* The loop begins, schedules, waits and returns.
LEMMA LoopRunsDown ==
    ASSUME LoopInvariant, ProgressInvariant, NEW c \in Calls,
           \/ \E seed \in Seeds : Begin(c, seed)
           \/ LeaveLoop(c) \/ Schedule(c) \/ Wait(c) \/ Return(c)
    PROVE  RunsDown(c)
<1>1. EngineTypeOK
    BY DEF LoopInvariant
<1>2. ASSUME NEW d \in Calls \ {c} PROVE Left(d)' = Left(d)
  <2>1. /\ pc'[d] = pc[d] /\ pending'[d] = pending[d] /\ futures'[d] = futures[d]
        /\ thread'[d] = thread[d]
      BY <1>1, <1>2 DEF EngineTypeOK, Begin, LeaveLoop, Schedule, Wait, Return, loopVars, poolVars
  <2> QED
      BY <2>1, LeftStays
<1>3. /\ OpenSteps(c)' \subseteq OpenSteps(c) /\ Turn(c)' < Turn(c)
      /\ NotBegun(c)' \subseteq NotBegun(c) /\ NotEnded(c)' \subseteq NotEnded(c)
  <2>1. ASSUME NEW seed \in Seeds, Begin(c, seed) PROVE <1>3!:
    <3>1. OpenSteps(c)' \subseteq OpenSteps(c) /\ Turn(c)' < Turn(c)
        BY <1>1, <2>1, PlanAssumption DEF LoopInvariant, IdleIsClean, EngineTypeOK, Begin, OpenSteps, Turn
    <3> QED
        BY <2>1, <3>1 DEF Begin, NotBegun, NotEnded, poolVars
  <2>2. CASE LeaveLoop(c)
    <3>1. OpenSteps(c)' \subseteq OpenSteps(c) /\ Turn(c)' < Turn(c)
        BY <1>1, <2>2 DEF EngineTypeOK, LeaveLoop, OpenSteps, Turn
    <3> QED
        BY <2>2, <3>1 DEF LeaveLoop, NotBegun, NotEnded, poolVars
  <2>3. CASE Schedule(c)
    <3> DEFINE skip  == StepsToSkip(error_policy[c], pending[c], failed[c])
               ready == IF paused_at_step[c] # NoStep THEN {}
                        ELSE ReadySteps(pending[c] \ skip, completed[c] \cup skip, results[c])
    <3>1. ready \subseteq pending[c]
        BY DEF ReadySteps
    <3>2. /\ futures' = [futures EXCEPT ![c] = @ \cup ready]
          /\ pending' = [pending EXCEPT ![c] = (@ \ skip) \ ready]
          /\ thread' = [thread EXCEPT ![c] = [s \in Steps |-> IF s \in ready THEN "queued" ELSE @[s]]]
          /\ pc[c] = "loop" /\ pc' = [pc EXCEPT ![c] = IF futures[c] \cup ready = {} THEN "drain" ELSE "wait"]
        BY <2>3 DEF Schedule, AfterSubmit
    <3> HIDE DEF skip, ready
    <3>3. OpenSteps(c)' \subseteq OpenSteps(c) /\ Turn(c)' < Turn(c)
        BY <1>1, <3>1, <3>2 DEF EngineTypeOK, OpenSteps, Turn
    <3>4. \A s \in ready : thread[c][s] = "idle"
        BY <3>1 DEF LoopInvariant, PendingIsFresh
    <3>5. \A s \in Steps : thread'[c][s] = IF s \in ready THEN "queued" ELSE thread[c][s]
        BY <1>1, <3>2 DEF EngineTypeOK
    <3> QED
        BY <3>3, <3>4, <3>5 DEF NotBegun, NotEnded
  <2>4. CASE Wait(c)
    <3>1. OpenSteps(c)' \subseteq OpenSteps(c) /\ Turn(c)' < Turn(c)
        BY <1>1, <2>4 DEF EngineTypeOK, Wait, OpenSteps, Turn
    <3> QED
        BY <2>4, <3>1 DEF Wait, NotBegun, NotEnded, poolVars
  <2>5. CASE Return(c)
    <3>1. OpenSteps(c)' \subseteq OpenSteps(c) /\ Turn(c)' < Turn(c)
        BY <1>1, <2>5 DEF EngineTypeOK, Return, OpenSteps, Turn, loopVars
    <3> QED
        BY <2>5, <3>1 DEF Return, NotBegun, NotEnded, poolVars
  <2> QED
      BY <2>1, <2>2, <2>3, <2>4, <2>5
<1> QED
    BY <1>1, <1>2, <1>3, LeftFalls DEF RunsDown

\* It harvests and cancels, and the workers work.
LEMMA StepsRunDown ==
    ASSUME LoopInvariant, ProgressInvariant, NEW c \in Calls, NEW s \in Steps,
           HarvestSuccess(c, s) \/ HarvestFailure(c, s) \/ Cancel(c, s) \/ EngineWorker(c, s)
    PROVE  RunsDown(c)
<1>1. EngineTypeOK
    BY DEF LoopInvariant
<1>2. CASE HarvestSuccess(c, s) \/ HarvestFailure(c, s) \/ Cancel(c, s)
  <2>1. /\ pc[c] \in {"harvest", "cancel"} /\ s \in futures[c]
        /\ futures' = [futures EXCEPT ![c] = @ \ {s}] /\ pending' = pending
        /\ \/ thread' = thread
           \/ thread' = [thread EXCEPT ![c][s] = IF @ = "queued" THEN "cancelled" ELSE @]
      BY <1>2 DEF LoopInvariant, BatchIsLive, HarvestSuccess, HarvestFailure, Cancel, poolVars
  <2>2. \E x \in {"harvest", "cancel", "drain", "loop"} : pc' = [pc EXCEPT ![c] = x]
      BY <1>2 DEF HarvestSuccess, HarvestFailure, Cancel, AfterHarvest
  <2>3. s \notin pending[c]
      BY <2>1 DEF LoopInvariant, FuturesAreOpen, PendingIsFresh
  <2>4. OpenSteps(c)' = OpenSteps(c) \ {s} /\ s \in OpenSteps(c)
      BY <1>1, <2>1, <2>2, <2>3 DEF EngineTypeOK, OpenSteps
  <2>5. Turn(c) = 1 /\ Turn(c)' \in {1, 3}
      BY <1>1, <2>1, <2>2 DEF EngineTypeOK, Turn
  <2>6. \A t \in Steps : thread'[c][t] = thread[c][t] \/ (thread[c][t] = "queued" /\ thread'[c][t] = "cancelled")
      BY <1>1, <2>1 DEF EngineTypeOK
  <2>7. NotBegun(c)' \subseteq NotBegun(c) /\ NotEnded(c)' \subseteq NotEnded(c)
      BY <2>6 DEF NotBegun, NotEnded
  <2>8. ASSUME NEW d \in Calls \ {c} PROVE Left(d)' = Left(d)
    <3>1. /\ pc'[d] = pc[d] /\ pending'[d] = pending[d] /\ futures'[d] = futures[d]
          /\ thread'[d] = thread[d]
        BY <1>1, <2>1, <2>2 DEF EngineTypeOK
    <3> QED
        BY <3>1, LeftStays
  <2>9. Turn(c)' <= Turn(c) + 2 /\ OpenSteps(c)' # OpenSteps(c) /\ OpenSteps(c)' \subseteq OpenSteps(c)
      BY <2>4, <2>5
  <2> QED
      BY <1>1, <2>7, <2>8, <2>9, LeftFalls DEF RunsDown
<1>3. CASE EngineWorker(c, s)
  <2>1. /\ pc' = pc /\ pending' = pending /\ futures' = futures
        /\ \/ thread[c][s] = "queued" /\ thread' = [thread EXCEPT ![c][s] = "running"]
           \/ thread[c][s] = "running" /\ thread' = [thread EXCEPT ![c][s] = "done"]
      BY <1>3 DEF EngineWorker, StartStep, FinishStep, loopVars
  <2>2. OpenSteps(c)' = OpenSteps(c) /\ Turn(c)' = Turn(c)
      BY <2>1 DEF OpenSteps, Turn
  <2>3. \A t \in Steps \ {s} : thread'[c][t] = thread[c][t]
      BY <1>1, <2>1 DEF EngineTypeOK
  <2>4. \/ thread[c][s] = "queued" /\ thread'[c][s] = "running"
        \/ thread[c][s] = "running" /\ thread'[c][s] = "done"
      BY <1>1, <2>1 DEF EngineTypeOK
  <2>5. /\ NotBegun(c)' \subseteq NotBegun(c) /\ NotEnded(c)' \subseteq NotEnded(c)
        /\ \/ s \in NotBegun(c) /\ s \notin NotBegun(c)'
           \/ s \in NotEnded(c) /\ s \notin NotEnded(c)'
      BY <2>3, <2>4 DEF NotBegun, NotEnded
  <2>6. Turn(c)' <= Turn(c)
      BY <2>2 DEF Turn
  <2>7. ASSUME NEW d \in Calls \ {c} PROVE Left(d)' = Left(d)
    <3>1. /\ pc'[d] = pc[d] /\ pending'[d] = pending[d] /\ futures'[d] = futures[d]
          /\ thread'[d] = thread[d]
        BY <1>1, <2>1 DEF EngineTypeOK
    <3> QED
        BY <3>1, LeftStays
  <2> QED
      BY <1>1, <2>2, <2>5, <2>6, <2>7, LeftFalls DEF RunsDown
<1> QED
    BY <1>2, <1>3

\* No call runs for ever: each step uses up some of what is left of it, which is a
\* number, so that after as many steps it has returned, or some executor has not.
THEOREM CallsRunDownHolds == EngineSpec => CallsRunDown
<1>1. ASSUME LoopInvariant, ProgressInvariant, EngineNext PROVE \E c \in Calls : RunsDown(c)
    BY <1>1, LoopRunsDown, StepsRunDown DEF EngineNext, EngineLoop
<1>2. LoopInvariant /\ ProgressInvariant /\ [EngineNext]_engineVars =>
         [\E c \in Calls : /\ Left(c)' < Left(c)
                           /\ \A d \in Calls \ {c} : Left(d)' = Left(d)]_engineVars
    BY <1>1 DEF RunsDown
<1> QED
    BY <1>2, LoopInvariantHolds, ProgressInvariantHolds, PTL DEF EngineSpec, CallsRunDown

\* And it is a number.
THEOREM LeftIsNumber == EngineSpec => [](\A c \in Calls : Left(c) \in Nat)
<1>1. ASSUME EngineTypeOK, NEW c \in Calls PROVE Left(c) \in Nat
  <2>1. /\ OpenSteps(c) \subseteq Steps /\ NotBegun(c) \subseteq Steps /\ NotEnded(c) \subseteq Steps
      BY <1>1 DEF EngineTypeOK, OpenSteps, NotBegun, NotEnded
  <2>2. /\ Cardinality(OpenSteps(c)) \in Nat /\ Cardinality(NotBegun(c)) \in Nat
        /\ Cardinality(NotEnded(c)) \in Nat
      BY <2>1, PlanAssumption, SizeFalls
  <2>3. Turn(c) \in Nat
      BY DEF Turn
  <2> QED
      BY <2>2, <2>3 DEF Left
<1>2. EngineTypeOK => \A c \in Calls : Left(c) \in Nat
    BY <1>1
<1> QED
    BY <1>2, EngineTypeCorrect, PTL

=============================================================================
