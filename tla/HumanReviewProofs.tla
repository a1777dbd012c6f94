-------------------------- MODULE HumanReviewProofs --------------------------
(***************************************************************************)
(* Proofs about HumanReview for every plan, every number of requests and   *)
(* crashes, and every pool size, with reviewers who act one at a time:     *)
(* a paused execution can be decided and no work is repeated, for any      *)
(* plan; a success has been reviewed, when of two reviews one depends on   *)
(* the other; and then, without dependent_fail, nothing that depends on a  *)
(* review is submitted before it is approved.                              *)
(***************************************************************************)
EXTENDS HumanReview, PlanEngineContractProofs

-----------------------------------------------------------------------------
(* What the engine adds when a step waits for a reviewer, part by part. *)

\* Only a fail_fast call aborts, and only because a step failed.
AbortHasCause ==
    \A c \in Calls : abort[c] => error_policy[c] = "fail_fast" /\ failed[c] # {}

\* A worker that has not finished has returned nothing.
RetFollowsThread ==
    \A c \in Calls, s \in Steps : thread[c][s] # "done" => ret[c][s] = NoResult

\* A paused call is paused at a review it ran, whose result is still pending.
PausedAtReview ==
    \A c \in Calls : paused_at_step[c] # NoStep =>
        /\ paused_at_step[c] \in Reviews
        /\ thread[c][paused_at_step[c]] = "done"
        /\ results[c][paused_at_step[c]] = "pending_human_review"

\* A review that a call submitted itself and has completed is one that has ended,
\* and has paused the call.
ReviewPauses ==
    \A c \in Calls, r \in Reviews :
        thread[c][r] # "idle" /\ r \in completed[c] =>
            thread[c][r] = "done" /\ paused_at_step[c] # NoStep

\* No call submits a step that depends on a review the same call ran.
GateWithinCall ==
    \A c \in Calls, s \in Steps : thread[c][s] # "idle" =>
        \A r \in DependsOn[s] \cap Reviews : thread[c][r] = "idle"

PauseInvariant ==
    /\ AbortHasCause
    /\ RetFollowsThread
    /\ PausedAtReview
    /\ ReviewPauses
    /\ GateWithinCall

-----------------------------------------------------------------------------
(* The handlers and their rows, part by part. *)

ReviewTypeOK ==
    /\ execution \in [status : StatusValues, results : [Steps -> ResultValues],
                      errors : SUBSET Steps]
    /\ approvals \in [Calls -> [Steps -> ApprovalValues]]
    /\ tickets   \in [Calls -> [Steps -> TicketValues]]
    /\ req       \in [Calls -> ReqValues]
    /\ target    \in [Calls -> Calls \X (Steps \cup {NoStep})]
    /\ loaded    \in [Calls -> [Steps -> ResultValues]]
    /\ faults    \in Nat

\* Requests between their SELECT and the resumption or the rejection.
Deciding == {"approve_seen", "reject_seen", "approve_loaded", "approve_committed"}

\* How far the engine's call of a request has come.
HandlerShape ==
    \A c \in Calls :
        /\ req[c] \in Deciding => target[c] \in Calls \X Steps
        /\ req[c] \in Deciding \cup {"none", "refused"} => pc[c] = "idle"
        /\ req[c] = "execute" => pc[c] # "idle"
        /\ req[c] = "done" => pc[c] \in {"idle", "returned"}

\* Nothing happens before the run.
BeforeTheRun ==
    req[RunCall] = "none" =>
        /\ execution.status = "absent" /\ execution.results = EmptyResults
        /\ \A c \in Calls : req[c] = "none" /\ \A s \in Steps : approvals[c][s] = "none"

\* Requests are served one after the other.
OneAtATime == \A c, d \in Calls : req[c] \notin Over /\ req[d] \notin Over => c = d

\* An approval row is raised by a worker of the step's call, before its ticket.
RowsOfReviews ==
    \A c \in Calls, s \in Steps :
        /\ approvals[c][s] # "none" => s \in Reviews /\ thread[c][s] \in {"running", "done"}
        /\ tickets[c][s] # "none" /\ s \in Reviews => approvals[c][s] # "none"
        /\ thread[c][s] = "done" /\ s \in Reviews => approvals[c][s] # "none"

\* The approvals of an execution are deleted with it.
DeletedTogether ==
    \A c \in Calls, s \in Steps :
        /\ approvals[c][s] = "deleted" => execution.status = "deleted"
        /\ approvals[c][s] \in {"pending", "approved", "rejected"} => execution.status # "deleted"

\* Nobody decides on a row while it is being decided, or while its call runs.
RowsWait ==
    \A c \in Calls :
        /\ req[c] \in {"approve_seen", "reject_seen", "approve_loaded"} =>
              approvals[target[c][1]][target[c][2]] \in {"pending", "deleted"}
        /\ req[c] = "approve_committed" =>
              approvals[target[c][1]][target[c][2]] \in {"approved", "deleted"}
        /\ req[c] = "execute" =>
              \A s \in Steps : approvals[c][s] \in {"none", "lost", "pending", "deleted"}

HandlerInvariant ==
    /\ ReviewTypeOK
    /\ HandlerShape
    /\ BeforeTheRun
    /\ OneAtATime
    /\ RowsOfReviews
    /\ DeletedTogether
    /\ RowsWait

-----------------------------------------------------------------------------
(* A paused execution can be decided. *)

\* With nothing lost, a paused execution shows a review that is pending, or a
\* request is past its decision and will overwrite the row.
PauseIsPending ==
    /\ execution.status = "paused"
    /\ \A c \in Calls : req[c] # "crashed"
    /\ \A c \in Calls, s \in Steps : approvals[c][s] # "lost"
    => \/ \E c \in Calls, s \in Reviews :
             approvals[c][s] = "pending" /\ execution.results[s] = "pending_human_review"
       \/ \E c \in Calls : req[c] \in {"approve_committed", "execute"}

-----------------------------------------------------------------------------
(* Work that has been done is known to every later request. *)

\* The steps a stored request has outputs of, unless fail_fast could have thrown
\* them away.
Achieved(c) ==
    {s \in Steps : req[c] = "done" /\ error_policy[c] # "fail_fast" /\ ret[c][s] \in Outcomes}

\* They are in the row, in what a decision has read of it, and in the results a
\* resumption begins with, which submits none of them.
WorkIsKnown ==
    \A c, d \in Calls : \A s \in Achieved(c) :
        /\ execution.status # "deleted" => execution.results[s] # NoResult
        /\ req[d] \in {"approve_loaded", "approve_committed"} => loaded[d][s] # NoResult
        /\ req[d] = "execute" => results[d][s] # NoResult /\ thread[d][s] = "idle"
        /\ c # d => s \notin Achieved(d)

-----------------------------------------------------------------------------
(* Reviews in order. *)

\* Of two reviews of the plan one depends on the other.
ReviewsInOrder ==
    \A r, q \in Reviews : r = q \/ r \in DependsOn[q] \/ q \in DependsOn[r]

\* A call raises one approval at most.
OneRowPerCall ==
    \A c \in Calls, r, q \in Steps :
        approvals[c][r] # "none" /\ approvals[c][q] # "none" => r = q

\* One row at most is pending, and once a request is past its decision it is the
\* one that request has raised.
OnePending ==
    \A d \in Calls, t \in Steps : approvals[d][t] = "pending" =>
        /\ \A e \in Calls, q \in Steps : approvals[e][q] = "pending" => e = d /\ q = t
        /\ \A c \in Calls : req[c] \in {"approve_committed", "execute"} => c = d

\* A rejection ends the execution: no request is in progress, nothing is pending.
RejectedIsEnd ==
    \A d \in Calls, t \in Steps : approvals[d][t] = "rejected" =>
        /\ \A c \in Calls : req[c] \in Over
        /\ \A e \in Calls, q \in Steps : approvals[e][q] # "pending"

\* So does a success.
SuccessIsEnd ==
    execution.status = "success" =>
        /\ \A c \in Calls : req[c] \in Over
        /\ \A e \in Calls, q \in Steps : approvals[e][q] \notin {"pending", "rejected"}

OrderInvariant ==
    /\ OneRowPerCall
    /\ OnePending
    /\ RejectedIsEnd
    /\ SuccessIsEnd

-----------------------------------------------------------------------------
(* Reviews are approved before anything that depends on them. *)

\* Somebody has approved the review (a row deleted since had been decided).
Agreed(r) == \E d \in Calls : approvals[d][r] \in {"approved", "deleted"}

\* Of the reviews a request goes on from all are approved: those it has read and
\* those of the row, but for the one it decides on, those of the row once it has
\* resumed, and those its call has completed, but for the ones it ran itself.
SeedsAreAgreed ==
    \A c \in Calls, r \in Reviews :
        /\ /\ req[c] \in {"approve_loaded", "approve_committed"}
           /\ loaded[c][r] # NoResult \/ execution.results[r] # NoResult
           => r = target[c][2] \/ Agreed(r)
        /\ req[c] = "execute" /\ execution.results[r] # NoResult => Agreed(r)
        /\ req[c] = "execute" /\ r \in completed[c] => Agreed(r) \/ thread[c][r] # "idle"

\* While a row is pending every other review of the execution is approved.
RestIsAgreed ==
    \A d \in Calls, t \in Steps : approvals[d][t] = "pending" =>
        \A r \in Reviews : execution.results[r] # NoResult => r = t \/ Agreed(r)

\* The requests of an execution have the error policy of its plan.
PolicyKept == error_policy \in [Calls -> Policies]

GateInvariant ==
    /\ PolicyKept
    /\ SeedsAreAgreed
    /\ RestIsAgreed
    /\ ReviewGate

-----------------------------------------------------------------------------
(* What an engine step does, as far as the handlers can tell. *)

\* A review that ends has the output that pauses its plan.
LEMMA ReviewOutput ==
    ASSUME NEW s \in Reviews
    PROVE  /\ s \in Steps /\ Kind[s] = "human_review"
           /\ StepOutputs(s) = {"pending_human_review"} /\ StepFailures(s) = {}
BY DEF Reviews, StepOutputs, StepFailures

\* A step of call c changes nothing of the other calls that the handlers see.
CallsKeep(c) ==
    /\ error_policy' = error_policy
    /\ \A d \in Calls : d # c =>
          /\ pc'[d] = pc[d] /\ completed'[d] = completed[d] /\ results'[d] = results[d]
          /\ paused_at_step'[d] = paused_at_step[d]
          /\ thread'[d] = thread[d] /\ ret'[d] = ret[d]

\* The pool's view of a step, before and after the loop's turn: it is submitted,
\* it is cancelled, or nothing happens to it.
Submitted(c, s) ==
    /\ thread[c][s] = "idle" /\ thread'[c][s] = "queued"
    /\ s \notin completed[c]
    /\ paused_at_step[c] = NoStep
    /\ \A r \in DependsOn[s] :
          \/ r \in completed[c]
          \/ /\ error_policy[c] = "dependent_fail"
             /\ thread[c][r] = "idle" /\ thread'[c][r] = "idle"

Cancelled(c, s) ==
    /\ thread[c][s] = "queued" /\ thread'[c][s] = "cancelled"
    /\ s \notin completed[c]

\* What a turn of the scheduling loop does.
LoopEffect(c) ==
    /\ CallsKeep(c)
    /\ ret' = ret
    /\ pc[c] \notin {"idle", "returned"} /\ pc'[c] # "idle"
    /\ \A s \in Steps :
          /\ results[c][s] # NoResult => results'[c][s] # NoResult
          /\ s \in completed'[c] \ completed[c] =>
                thread[c][s] # "idle" \/ error_policy[c] = "dependent_fail"
          /\ thread'[c][s] = thread[c][s] \/ Submitted(c, s) \/ Cancelled(c, s)

\* An iteration submits pending steps, while the call is not paused, whose
\* dependencies are completed or, under dependent_fail, skipped just now.
LEMMA ScheduleEffect ==
    ASSUME LoopInvariant, LedgerInvariant, NEW c \in Calls, Schedule(c)
    PROVE  LoopEffect(c)
<1> USE DEF LoopInvariant, EngineTypeOK
<1> DEFINE skip  == StepsToSkip(error_policy[c], pending[c], failed[c])
           ready == IF paused_at_step[c] # NoStep THEN {}
                    ELSE ReadySteps(pending[c] \ skip, completed[c] \cup skip, results[c])
<1>1. /\ skip \subseteq pending[c] /\ (error_policy[c] # "dependent_fail" => skip = {})
      /\ ready \subseteq pending[c] /\ (ready # {} => paused_at_step[c] = NoStep)
      /\ \A s \in ready : DependsOn[s] \subseteq completed[c] \cup skip
      /\ skip \cap ready = {}
    BY DEF StepsToSkip, ReadySteps
<1>2. /\ completed' = [completed EXCEPT ![c] = @ \cup skip]
      /\ thread' = [thread EXCEPT ![c] =
                      [s \in Steps |-> IF s \in ready THEN "queued" ELSE @[s]]]
      /\ pc' = [pc EXCEPT ![c] = IF futures[c] \cup ready = {} THEN "drain" ELSE "wait"]
      /\ pc[c] = "loop"
      /\ UNCHANGED <<error_policy, paused_at_step, results, ret>>
    BY DEF Schedule, AfterSubmit
<1> HIDE DEF skip, ready
<1>3. CallsKeep(c)
    BY <1>2 DEF CallsKeep
<1>4. ASSUME NEW s \in Steps
      PROVE  /\ s \in completed'[c] \ completed[c] => error_policy[c] = "dependent_fail"
             /\ thread'[c][s] = thread[c][s] \/ Submitted(c, s)
  <2>1. s \in completed'[c] <=> s \in completed[c] \/ s \in skip
      BY <1>2
  <2>2. thread'[c][s] = IF s \in ready THEN "queued" ELSE thread[c][s]
      BY <1>2
  <2>3. s \in ready => thread[c][s] = "idle" /\ s \notin completed[c]
      BY <1>1 DEF PendingIsFresh
  <2>4. ASSUME s \in ready, NEW r \in DependsOn[s], r \notin completed[c]
        PROVE  /\ error_policy[c] = "dependent_fail"
               /\ thread[c][r] = "idle" /\ thread'[c][r] = "idle"
    <3>1. r \in skip /\ r \notin ready
        BY <1>1, <2>4
    <3> QED
        BY <1>1, <1>2, <3>1 DEF PendingIsFresh
  <2> QED
      BY <1>1, <2>1, <2>2, <2>3, <2>4 DEF Submitted
<1>5. pc[c] \notin {"idle", "returned"} /\ pc'[c] # "idle"
    BY <1>2
<1> QED
    BY <1>2, <1>3, <1>4, <1>5 DEF LoopEffect

\* A harvest completes one step, whose worker is done.
LEMMA HarvestEffect ==
    ASSUME LoopInvariant, LedgerInvariant, NEW c \in Calls, NEW s \in Steps,
           HarvestSuccess(c, s) \/ HarvestFailure(c, s)
    PROVE  LoopEffect(c)
<1> USE DEF LoopInvariant, EngineTypeOK
<1>1. /\ completed' = [completed EXCEPT ![c] = @ \cup {s}]
      /\ pc[c] = "harvest" /\ pc'[c] # "idle"
      /\ UNCHANGED <<error_policy, thread, ret>>
      /\ thread[c][s] = "done"
    BY DEF HarvestSuccess, HarvestFailure, AfterHarvest, poolVars, BatchIsLive
<1>2. CallsKeep(c)
    BY <1>1 DEF CallsKeep, HarvestSuccess, HarvestFailure
<1>3. \A t \in Steps : results[c][t] # NoResult => results'[c][t] # NoResult
    BY DEF HarvestSuccess, HarvestFailure, Outcomes, TaskOutcomes, NoResult
<1> QED
    BY <1>1, <1>2, <1>3 DEF LoopEffect

\* A cancellation reaches a step that waits in the queue, and no other.
LEMMA CancelEffect ==
    ASSUME LoopInvariant, LedgerInvariant, NEW c \in Calls, NEW s \in Steps, Cancel(c, s)
    PROVE  LoopEffect(c)
<1> USE DEF LoopInvariant, EngineTypeOK
<1>1. /\ UNCHANGED <<error_policy, completed, results, paused_at_step, ret>>
      /\ pc[c] = "cancel" /\ pc'[c] # "idle"
    BY DEF Cancel, AfterHarvest
<1>2. CallsKeep(c)
    BY <1>1 DEF CallsKeep, Cancel
<1>3. \A t \in Steps : thread'[c][t] = thread[c][t] \/ Cancelled(c, t)
    BY DEF Cancel, Cancelled, FuturesAreOpen
<1> QED
    BY <1>1, <1>2, <1>3 DEF LoopEffect

\* Every turn of the scheduling loop.
LEMMA EveryLoopEffect ==
    ASSUME LoopInvariant, LedgerInvariant, NEW c \in Calls, EngineLoop(c)
    PROVE  LoopEffect(c)
<1>1. ASSUME LeaveLoop(c) \/ Wait(c) \/ Return(c) PROVE LoopEffect(c)
  <2>1. /\ UNCHANGED <<error_policy, completed, results, paused_at_step, thread, ret>>
        /\ pc[c] \in {"loop", "wait", "drain"}
        /\ \E q \in {"drain", "harvest", "returned"} : pc' = [pc EXCEPT ![c] = q]
      BY <1>1 DEF LeaveLoop, Wait, Return, loopVars, poolVars
  <2>2. CallsKeep(c)
      BY <2>1 DEF CallsKeep, LoopInvariant, EngineTypeOK
  <2> QED
      BY <2>1, <2>2 DEF LoopEffect, LoopInvariant, EngineTypeOK
<1> QED
    BY <1>1, ScheduleEffect, HarvestEffect, CancelEffect DEF EngineLoop

\* What a turn of a worker does: the step starts, or ends with an output or a
\* failure.
WorkerEffect(c, s) ==
    /\ CallsKeep(c)
    /\ UNCHANGED <<pc, completed, results, paused_at_step>>
    /\ pc[c] # "idle"
    /\ \A t \in Steps : t # s => thread'[c][t] = thread[c][t] /\ ret'[c][t] = ret[c][t]
    /\ \/ thread[c][s] = "queued" /\ thread'[c][s] = "running" /\ ret'[c][s] = ret[c][s]
       \/ /\ thread[c][s] = "running" /\ thread'[c][s] = "done"
          /\ ret'[c][s] \in StepOutputs(s) \cup StepFailures(s)

\* Both turns of a worker.
LEMMA EveryWorkerEffect ==
    ASSUME LoopInvariant, NEW c \in Calls, NEW s \in Steps,
           StartStep(c, s) \/ \E v \in RetValues : FinishStep(c, s, v)
    PROVE  WorkerEffect(c, s)
<1> USE DEF LoopInvariant, EngineTypeOK
<1>1. CASE StartStep(c, s)
    BY <1>1 DEF StartStep, WorkerEffect, CallsKeep, IdleIsClean, loopVars
<1>2. ASSUME NEW v \in RetValues, FinishStep(c, s, v) PROVE WorkerEffect(c, s)
    BY <1>2 DEF FinishStep, WorkerEffect, CallsKeep, IdleIsClean, loopVars
<1> QED
    BY <1>1, <1>2

-----------------------------------------------------------------------------
(* Every engine step preserves PauseInvariant. *)

\* Before any call has begun nothing is paused, failed or submitted.
LEMMA InitPause == EngineInit => PauseInvariant
BY DEF EngineInit, PauseInvariant, AbortHasCause, RetFollowsThread, PausedAtReview,
       ReviewPauses, GateWithinCall

\* Entering execute_plan: nothing has been submitted yet.
LEMMA BeginPause ==
    ASSUME LoopInvariant, LedgerInvariant, PauseInvariant, NEW c \in Calls,
           NEW seed \in [Steps -> ResultValues], Begin(c, seed)
    PROVE  PauseInvariant'
<1> USE DEF LoopInvariant, LedgerInvariant, PauseInvariant, EngineTypeOK
<1>1. /\ UNCHANGED <<error_policy, failed, abort, paused_at_step, thread, ret>>
      /\ \A d \in Calls : d # c => results'[d] = results[d] /\ completed'[d] = completed[d]
      /\ paused_at_step[c] = NoStep
      /\ \A s \in Steps : thread[c][s] = "idle"
    BY DEF Begin, poolVars, IdleIsClean, IdleIsEmpty
<1>2. AbortHasCause' /\ RetFollowsThread' /\ GateWithinCall'
    BY <1>1 DEF AbortHasCause, RetFollowsThread, GateWithinCall
<1>3. PausedAtReview'
    BY <1>1 DEF PausedAtReview, Reviews
<1>4. ReviewPauses'
  <2> SUFFICES ASSUME NEW d \in Calls, NEW r \in Reviews,
                      thread'[d][r] # "idle", r \in completed'[d]
               PROVE  thread'[d][r] = "done" /\ paused_at_step'[d] # NoStep
      BY DEF ReviewPauses, Reviews
  <2>1. d # c
      BY <1>1 DEF Reviews
  <2> QED
      BY <1>1, <2>1 DEF ReviewPauses
<1> QED
    BY <1>2, <1>3, <1>4

\* A step is submitted only while the call is not paused, so after no review that
\* the call ran has been completed; and no review it has completed is submitted.
LEMMA SubmissionPause ==
    ASSUME LoopInvariant, LedgerInvariant, PauseInvariant, NEW c \in Calls, EngineLoop(c)
    PROVE  GateWithinCall' /\ RetFollowsThread'
<1> USE DEF LoopInvariant, PauseInvariant, EngineTypeOK
<1>1. LoopEffect(c)
    BY EveryLoopEffect
<1>2. RetFollowsThread'
  <2>1. ret' = ret
      BY <1>1 DEF LoopEffect
  <2>2. \A d \in Calls, s \in Steps : thread[d][s] = "done" => thread'[d][s] = "done"
      BY <1>1 DEF LoopEffect, CallsKeep, Submitted, Cancelled
  <2> QED
      BY <2>1, <2>2 DEF RetFollowsThread
<1>3. ASSUME NEW d \in Calls, NEW s \in Steps, thread'[d][s] # "idle",
             NEW r \in DependsOn[s] \cap Reviews
      PROVE  thread'[d][r] = "idle"
  <2>1. r \in Steps
      BY DEF Reviews
  <2>2. CASE d # c
      BY <1>1, <1>3, <2>1, <2>2 DEF LoopEffect, CallsKeep, GateWithinCall
  <2>3. CASE d = c /\ thread[c][s] # "idle"
    <3>1. thread[c][r] = "idle" /\ r \in completed[c]
        BY <2>3 DEF GateWithinCall, DependencyOrder
    <3> QED
        BY <1>1, <2>1, <2>3, <3>1 DEF LoopEffect, Submitted, Cancelled
  <2>4. CASE d = c /\ thread[c][s] = "idle"
    <3>1. Submitted(c, s)
        BY <1>1, <1>3, <2>4 DEF LoopEffect, Cancelled
    <3>2. CASE r \in completed[c]
      <4>1. thread[c][r] = "idle"
          BY <3>1, <3>2 DEF ReviewPauses, Submitted
      <4> QED
          BY <1>1, <2>1, <2>4, <3>2, <4>1 DEF LoopEffect, Submitted, Cancelled
    <3>3. CASE r \notin completed[c]
        BY <2>4, <3>1, <3>3 DEF Submitted
    <3> QED
        BY <3>2, <3>3
  <2> QED
      BY <2>2, <2>3, <2>4
<1> QED
    BY <1>2, <1>3 DEF GateWithinCall

\* A result is harvested: if it is a review's, the call is paused there.
LEMMA HarvestSuccessPause ==
    ASSUME LoopInvariant, LedgerInvariant, PauseInvariant, NEW c \in Calls,
           NEW s \in Steps, HarvestSuccess(c, s)
    PROVE  AbortHasCause' /\ PausedAtReview' /\ ReviewPauses'
<1> USE DEF LoopInvariant, LedgerInvariant, PauseInvariant, EngineTypeOK
<1>1. /\ UNCHANGED <<error_policy, failed, abort, thread, ret>>
      /\ results' = [results EXCEPT ![c][s] = ret[c][s]]
      /\ completed' = [completed EXCEPT ![c] = @ \cup {s}]
      /\ paused_at_step' = [paused_at_step EXCEPT ![c] = PauseAfter(c, s)]
      /\ thread[c][s] = "done" /\ s \notin completed[c]
    BY DEF HarvestSuccess, poolVars, BatchIsLive, FuturesAreOpen
<1>2. s \in Reviews => ret[c][s] = "pending_human_review"
    BY <1>1, ReviewOutput DEF DoneIsHarvested
<1>3. s \in Reviews => PauseAfter(c, s) = s /\ s # NoStep
    BY <1>2, ReviewOutput, PlanAssumption DEF PauseAfter
<1>4. s \notin Reviews => PauseAfter(c, s) = paused_at_step[c]
    BY DEF PauseAfter, Reviews
<1>5. paused_at_step[c] # s
  <2>1. results[c][s] = NoResult
      BY <1>1 DEF CompletedIsLedger, Keys
  <2>2. s # NoStep
      BY PlanAssumption
  <2> SUFFICES ASSUME paused_at_step[c] = s PROVE FALSE
      OBVIOUS
  <2>3. results[c][s] = "pending_human_review"
      BY <2>2 DEF PausedAtReview
  <2> QED
      BY <2>1, <2>3 DEF NoResult
<1>6. AbortHasCause'
    BY <1>1 DEF AbortHasCause
<1>7. PausedAtReview'
  <2> SUFFICES ASSUME NEW d \in Calls, paused_at_step'[d] # NoStep
               PROVE  /\ paused_at_step'[d] \in Reviews
                      /\ thread'[d][paused_at_step'[d]] = "done"
                      /\ results'[d][paused_at_step'[d]] = "pending_human_review"
      BY DEF PausedAtReview
  <2>1. CASE d = c /\ s \in Reviews
      BY <1>1, <1>2, <1>3, <2>1
  <2>2. CASE ~(d = c /\ s \in Reviews)
    <3>1. paused_at_step'[d] = paused_at_step[d] /\ (d = c => paused_at_step[d] # s)
        BY <1>1, <1>4, <1>5, <2>2
    <3>2. paused_at_step[d] \in Steps
        BY <3>1 
    <3> QED
        BY <1>1, <3>1, <3>2 DEF PausedAtReview
  <2> QED
      BY <2>1, <2>2
<1>8. ReviewPauses'
    BY <1>1, <1>3, <1>4 DEF ReviewPauses, Reviews
<1> QED
    BY <1>6, <1>7, <1>8

\* A failure is harvested: it is no review's, and it is why the call may abort.
LEMMA HarvestFailurePause ==
    ASSUME LoopInvariant, LedgerInvariant, PauseInvariant, NEW c \in Calls,
           NEW s \in Steps, HarvestFailure(c, s)
    PROVE  AbortHasCause' /\ PausedAtReview' /\ ReviewPauses'
<1> USE DEF LoopInvariant, LedgerInvariant, PauseInvariant, EngineTypeOK
<1>1. /\ UNCHANGED <<error_policy, results, paused_at_step, thread, ret>>
      /\ failed' = [failed EXCEPT ![c] = @ \cup {s}]
      /\ completed' = [completed EXCEPT ![c] = @ \cup {s}]
      /\ abort' = [abort EXCEPT ![c] = error_policy[c] = "fail_fast"]
      /\ ret[c][s] \in {"failed", "raised"} /\ thread[c][s] = "done"
    BY DEF HarvestFailure, poolVars, BatchIsLive
<1>2. s \notin Reviews
    BY <1>1, ReviewOutput DEF DoneIsHarvested
<1>3. AbortHasCause'
    BY <1>1 DEF AbortHasCause
<1>4. PausedAtReview' /\ ReviewPauses'
    BY <1>1, <1>2 DEF PausedAtReview, ReviewPauses, Reviews
<1> QED
    BY <1>3, <1>4

\* The other turns of the loop harvest nothing.
LEMMA OtherTurnsPause ==
    ASSUME LoopInvariant, LedgerInvariant, PauseInvariant, NEW c \in Calls,
           LeaveLoop(c) \/ Schedule(c) \/ Wait(c) \/ Return(c) \/ \E s \in Steps : Cancel(c, s)
    PROVE  AbortHasCause' /\ PausedAtReview' /\ ReviewPauses'
<1> USE DEF LoopInvariant, LedgerInvariant, PauseInvariant, EngineTypeOK
<1>1. UNCHANGED <<error_policy, failed, abort, results, paused_at_step>>
    BY DEF LeaveLoop, Schedule, Wait, Return, Cancel, loopVars
<1>2. EngineLoop(c)
    BY DEF EngineLoop
<1>3. LoopEffect(c)
    BY <1>2, EveryLoopEffect
<1>4. AbortHasCause'
    BY <1>1 DEF AbortHasCause
<1>5. PausedAtReview'
  <2>1. ASSUME NEW d \in Calls, NEW u \in Steps, thread[d][u] = "done"
        PROVE  thread'[d][u] = "done"
      BY <1>3, <2>1 DEF LoopEffect, CallsKeep, Submitted, Cancelled
  <2> QED
      BY <1>1, <2>1 DEF PausedAtReview, Reviews
<1>6. ReviewPauses'
  <2>1. \A s \in Steps : s \in completed'[c] \ completed[c] => thread'[c][s] = "idle"
    <3>1. CASE Schedule(c)
      <4> DEFINE skip  == StepsToSkip(error_policy[c], pending[c], failed[c])
                 ready == IF paused_at_step[c] # NoStep THEN {}
                          ELSE ReadySteps(pending[c] \ skip, completed[c] \cup skip, results[c])
      <4>1. skip \subseteq pending[c] /\ skip \cap ready = {}
          BY DEF StepsToSkip, ReadySteps
      <4>2. /\ completed'[c] = completed[c] \cup skip
            /\ \A s \in Steps : thread'[c][s] = IF s \in ready THEN "queued" ELSE thread[c][s]
          BY <3>1 DEF Schedule
      <4> HIDE DEF skip, ready
      <4> QED
          BY <4>1, <4>2 DEF PendingIsFresh
    <3>2. CASE ~Schedule(c)
        BY <3>2 DEF LeaveLoop, Wait, Return, Cancel, loopVars
    <3> QED
        BY <3>1, <3>2
  <2>2. ASSUME NEW d \in Calls, NEW r \in Reviews, thread'[d][r] # "idle", r \in completed'[d]
        PROVE  thread'[d][r] = "done" /\ paused_at_step'[d] # NoStep
    <3>1. r \in Steps
        BY DEF Reviews
    <3>2. r \in completed[d]
        BY <1>3, <2>1, <2>2, <3>1 DEF LoopEffect, CallsKeep
    <3>3. thread[d][r] # "idle"
        BY <1>3, <2>2, <3>1, <3>2 DEF LoopEffect, CallsKeep, Submitted, Cancelled
    <3>4. thread[d][r] = "done" /\ paused_at_step[d] # NoStep
        BY <3>2, <3>3 DEF ReviewPauses
    <3> QED
        BY <1>1, <1>3, <3>1, <3>4 DEF LoopEffect, CallsKeep, Submitted, Cancelled
  <2> QED
      BY <2>2 DEF ReviewPauses
<1> QED
    BY <1>4, <1>5, <1>6

\* Every turn of the loop preserves PauseInvariant.
LEMMA LoopPause ==
    ASSUME LoopInvariant, LedgerInvariant, PauseInvariant, NEW c \in Calls, EngineLoop(c)
    PROVE  PauseInvariant'
<1>1. GateWithinCall' /\ RetFollowsThread'
    BY SubmissionPause
<1>2. AbortHasCause' /\ PausedAtReview' /\ ReviewPauses'
    BY HarvestSuccessPause, HarvestFailurePause, OtherTurnsPause DEF EngineLoop
<1> QED
    BY <1>1, <1>2 DEF PauseInvariant

\* So does every turn of a worker: it neither harvests nor submits.
LEMMA WorkerPause ==
    ASSUME LoopInvariant, LedgerInvariant, PauseInvariant, NEW c \in Calls, NEW s \in Steps,
           StartStep(c, s) \/ \E v \in RetValues : FinishStep(c, s, v)
    PROVE  PauseInvariant'
<1> USE DEF LoopInvariant, LedgerInvariant, PauseInvariant, EngineTypeOK
<1>1. WorkerEffect(c, s)
    BY EveryWorkerEffect
<1>2. UNCHANGED <<error_policy, failed, abort, results, paused_at_step, completed>>
    BY DEF StartStep, FinishStep, loopVars
<1>3. ASSUME NEW d \in Calls, NEW u \in Steps
      PROVE  /\ thread'[d][u] # "idle" <=> thread[d][u] # "idle"
             /\ thread[d][u] = "done" => thread'[d][u] = "done"
             /\ thread'[d][u] # "done" => thread[d][u] # "done" /\ ret'[d][u] = ret[d][u]
  <2>1. CASE d = c /\ u = s
      BY <1>1, <2>1 DEF WorkerEffect
  <2>2. CASE ~(d = c /\ u = s)
      BY <1>1, <2>2 DEF WorkerEffect, CallsKeep
  <2> QED
      BY <2>1, <2>2
<1>4. AbortHasCause' /\ RetFollowsThread'
    BY <1>2, <1>3 DEF AbortHasCause, RetFollowsThread
<1>5. PausedAtReview' /\ ReviewPauses'
    BY <1>2, <1>3 DEF PausedAtReview, ReviewPauses, Reviews
<1>6. GateWithinCall'
    BY <1>3 DEF GateWithinCall, Reviews
<1> QED
    BY <1>4, <1>5, <1>6

-----------------------------------------------------------------------------
(* Every action preserves HandlerInvariant, when reviewers act one at a time. *)

EngineInvariant == LoopInvariant /\ LedgerInvariant /\ PauseInvariant

\* A turn of the loop preserves the engine's invariants.
LEMMA LoopEngine ==
    ASSUME EngineInvariant, NEW c \in Calls, EngineLoop(c)
    PROVE  EngineInvariant'
<1> USE DEF EngineInvariant
<1>1. LoopInvariant'
    BY LoopPreserves
<1>2. LedgerInvariant'
    BY LeaveLoopLedger, ScheduleLedger, WaitLedger, HarvestSuccessLedger,
       HarvestFailureLedger, CancelLedger, ReturnLedger DEF EngineLoop
<1>3. PauseInvariant'
    BY LoopPause
<1> QED
    BY <1>1, <1>2, <1>3

\* So does a turn of a worker.
LEMMA WorkerEngine ==
    ASSUME EngineInvariant, NEW c \in Calls, NEW s \in Steps,
           StartStep(c, s) \/ \E v \in RetValues : FinishStep(c, s, v)
    PROVE  EngineInvariant'
<1> USE DEF EngineInvariant
<1>1. LoopInvariant'
    BY StartStepPreserves, FinishStepPreserves
<1>2. LedgerInvariant'
    BY StartStepLedger, FinishStepLedger
<1>3. PauseInvariant'
    BY WorkerPause
<1> QED
    BY <1>1, <1>2, <1>3

\* So does entering execute_plan with any typed results.
LEMMA BeginEngine ==
    ASSUME EngineInvariant, NEW c \in Calls, NEW seed \in [Steps -> ResultValues],
           Begin(c, seed)
    PROVE  EngineInvariant'
BY BeginPreserves, BeginLedger, BeginPause DEF EngineInvariant

\* So does anything that leaves the engine's variables alone.
LEMMA StutterEngine ==
    ASSUME EngineInvariant, UNCHANGED engineVars
    PROVE  EngineInvariant'
<1>1. PauseInvariant'
    BY DEF EngineInvariant, PauseInvariant, engineVars, AbortHasCause, RetFollowsThread,
           PausedAtReview, ReviewPauses, GateWithinCall, Reviews
<1> QED
    BY <1>1, StutterPreserves, StutterLedger DEF EngineInvariant

\* A resumption begins with typed results.
LEMMA ResumedType ==
    ASSUME NEW res \in [Steps -> ResultValues], NEW s \in Steps
    PROVE  /\ ResumedResults(res, s) \in [Steps -> ResultValues]
           /\ ResumedResults(res, s)[s] # NoResult
           /\ \A t \in Steps : t # s => ResumedResults(res, s)[t] = res[t]
BY DEF ResumedResults, ResultValues, Outcomes, TaskOutcomes, NoResult

\* Before the run there are no rows and no requests.
LEMMA InitHandlers == Init => HandlerInvariant
<1> SUFFICES ASSUME Init PROVE HandlerInvariant
    OBVIOUS
<1>1. ReviewTypeOK
    BY ReviewAssumption DEF Init, ReviewTypeOK, StatusValues, ApprovalValues, TicketValues,
       ReqValues, NoTarget, EmptyResults, ResultValues
<1>2. HandlerShape /\ BeforeTheRun /\ OneAtATime
    BY ReviewAssumption DEF Init, EngineInit, HandlerShape, BeforeTheRun, OneAtATime, Deciding, Over
<1>3. RowsOfReviews /\ DeletedTogether /\ RowsWait
    BY DEF Init, EngineInit, RowsOfReviews, DeletedTogether, RowsWait
<1> QED
    BY <1>1, <1>2, <1>3 DEF HandlerInvariant

\* Before the run there is nothing to load, to decide or to delete.
LEMMA QuietBeforeTheRun ==
    ASSUME HandlerInvariant, NEW c \in Calls, req[c] # "none" \/ \E s \in Steps : approvals[c][s] # "none"
    PROVE  req[RunCall] # "none"
BY ReviewAssumption DEF HandlerInvariant, BeforeTheRun

\* The engine moves, in a call that is in progress; no row changes.
LEMMA EngineMoveHandlers ==
    ASSUME HandlerInvariant, NEW c \in Calls, UNCHANGED reviewVars,
           req[c] = "execute", pc[c] # "idle" => pc'[c] # "idle",
           \A d \in Calls : d # c => pc'[d] = pc[d] /\ thread'[d] = thread[d],
           \A s \in Steps : thread[c][s] \in {"running", "done"} => thread'[c][s] \in {"running", "done"},
           \A s \in Reviews : thread'[c][s] = "done" =>
                thread[c][s] = "done" \/ tickets[c][s] # "none"
    PROVE  HandlerInvariant'
<1> USE DEF HandlerInvariant
<1>1. UNCHANGED <<execution, approvals, tickets, req, target, loaded, faults>>
    BY DEF reviewVars, rowVars
<1>2. ReviewTypeOK' /\ BeforeTheRun' /\ OneAtATime' /\ DeletedTogether' /\ RowsWait'
    BY <1>1 DEF ReviewTypeOK, BeforeTheRun, OneAtATime, DeletedTogether, RowsWait
<1>3. HandlerShape'
    BY <1>1 DEF HandlerShape, Deciding
<1>4. RowsOfReviews'
  <2> SUFFICES ASSUME NEW d \in Calls, NEW s \in Steps
               PROVE  /\ approvals[d][s] # "none" =>
                            s \in Reviews /\ thread'[d][s] \in {"running", "done"}
                      /\ tickets[d][s] # "none" /\ s \in Reviews => approvals[d][s] # "none"
                      /\ thread'[d][s] = "done" /\ s \in Reviews => approvals[d][s] # "none"
      BY <1>1 DEF RowsOfReviews, Reviews
  <2>1. CASE d = c
      BY <2>1 DEF RowsOfReviews
  <2>2. CASE d # c
      BY <2>2 DEF RowsOfReviews
  <2> QED
      BY <2>1, <2>2
<1> QED
    BY <1>2, <1>3, <1>4

\* A turn of the loop: nobody becomes done, and running steps stay so.
LEMMA LoopHandlers ==
    ASSUME EngineInvariant, HandlerInvariant, NEW c \in Calls, Loop(c)
    PROVE  HandlerInvariant'
<1>1. /\ req[c] = "execute" /\ UNCHANGED reviewVars
      /\ LoopEffect(c)
    BY EveryLoopEffect DEF Loop, EngineInvariant
<1>2. \A s \in Steps :
        /\ thread[c][s] \in {"running", "done"} => thread'[c][s] \in {"running", "done"}
        /\ thread'[c][s] = "done" => thread[c][s] = "done"
    BY <1>1 DEF LoopEffect, Submitted, Cancelled
<1>3. \A d \in Calls : d # c => pc'[d] = pc[d] /\ thread'[d] = thread[d]
    BY <1>1 DEF LoopEffect, CallsKeep
<1>4. pc'[c] # "idle"
    BY <1>1 DEF LoopEffect
<1> QED
    BY <1>1, <1>2, <1>3, <1>4, EngineMoveHandlers DEF Reviews

\* A turn of a worker: a review ends only once its ticket was attempted.
LEMMA StepHandlers ==
    ASSUME EngineInvariant, HandlerInvariant, NEW c \in Calls, NEW s \in Steps,
           req[c] = "execute", UNCHANGED reviewVars,
           \/ StartStep(c, s)
           \/ /\ Kind[s] # "task" => tickets[c][s] # "none"
              /\ \E v \in RetValues : FinishStep(c, s, v)
    PROVE  HandlerInvariant'
<1>1. WorkerEffect(c, s)
    BY EveryWorkerEffect DEF EngineInvariant
<1>2. \A d \in Calls : d # c => pc'[d] = pc[d] /\ thread'[d] = thread[d]
    BY <1>1 DEF WorkerEffect, CallsKeep
<1>3. pc'[c] = pc[c]
    BY <1>1 DEF WorkerEffect
<1>4. \A t \in Steps : thread[c][t] \in {"running", "done"} => thread'[c][t] \in {"running", "done"}
    BY <1>1 DEF WorkerEffect
<1>5. \A t \in Reviews : thread'[c][t] = "done" => thread[c][t] = "done" \/ tickets[c][t] # "none"
  <2> SUFFICES ASSUME NEW t \in Reviews, thread'[c][t] = "done", thread[c][t] # "done"
               PROVE  tickets[c][t] # "none"
      OBVIOUS
  <2>1. t = s /\ thread[c][s] = "running"
      BY <1>1 DEF WorkerEffect, Reviews
  <2>2. ~StartStep(c, s)
      BY <2>1 DEF StartStep
  <2> QED
      BY <2>1, <2>2 DEF Reviews
<1> QED
    BY <1>2, <1>3, <1>4, <1>5, EngineMoveHandlers

\* The run starts: no other request is in progress.
LEMMA RunHandlers ==
    ASSUME EngineInvariant, HandlerInvariant, orchestrations_run
    PROVE  HandlerInvariant'
<1> USE ReviewAssumption DEF HandlerInvariant, EngineInvariant, LoopInvariant, EngineTypeOK
<1>1. /\ req[RunCall] = "none" /\ req' = [req EXCEPT ![RunCall] = "execute"]
      /\ execution' = [execution EXCEPT !.status = "partial"]
      /\ pc' = [pc EXCEPT ![RunCall] = "loop"]
      /\ UNCHANGED <<approvals, tickets, target, loaded, faults, thread>>
    BY DEF orchestrations_run, Begin, poolVars
<1>2. \A c \in Calls : req[c] = "none" /\ \A s \in Steps : approvals[c][s] = "none"
    BY <1>1 DEF BeforeTheRun
<1>3. ReviewTypeOK'
    BY <1>1 DEF ReviewTypeOK, StatusValues, ReqValues
<1>4. HandlerShape' /\ BeforeTheRun' /\ OneAtATime'
    BY <1>1, <1>2 DEF ReviewTypeOK, HandlerShape, BeforeTheRun, OneAtATime, Deciding, Over
<1>5. RowsOfReviews' /\ DeletedTogether' /\ RowsWait'
    BY <1>1, <1>2 DEF ReviewTypeOK, RowsOfReviews, DeletedTogether, RowsWait, Reviews
<1> QED
    BY <1>3, <1>4, <1>5

\* The outcome is stored, unless the row was deleted.
LEMMA StoreHandlers ==
    ASSUME EngineInvariant, HandlerInvariant, NEW c \in Calls, StoreOutcome(c)
    PROVE  HandlerInvariant'
<1> USE DEF HandlerInvariant, EngineInvariant, LoopInvariant, EngineTypeOK
<1> DEFINE errs == failed[c] \cup skipped[c]
           out  == [status  |-> ExecStatus(results[c], errs, paused_at_step[c]),
                    results |-> results[c],
                    errors  |-> StoredErrors(results[c], errs, paused_at_step[c])]
<1>1. /\ req[c] = "execute" /\ pc[c] = "returned" /\ req' = [req EXCEPT ![c] = "done"]
      /\ execution' = IF execution.status = "deleted" THEN execution ELSE out
      /\ UNCHANGED <<approvals, tickets, target, loaded, faults, thread, pc>>
    BY DEF StoreOutcome, engineVars
<1>2. /\ out.status \in {"paused", "failed", "success", "partial"}
      /\ out.results = results[c]
      /\ out \in [status : StatusValues, results : [Steps -> ResultValues],
                  errors : SUBSET Steps]
    BY DEF ExecStatus, StoredErrors, BusinessFailures, StatusValues
<1> HIDE DEF out
<1>3. ReviewTypeOK'
    BY <1>1, <1>2 DEF ReviewTypeOK, ReqValues
<1>4. HandlerShape' /\ OneAtATime'
    BY <1>1 DEF ReviewTypeOK, HandlerShape, OneAtATime, Deciding, Over
<1>5. BeforeTheRun'
    BY <1>1 DEF ReviewTypeOK, BeforeTheRun
<1>6. RowsOfReviews' /\ DeletedTogether' /\ RowsWait'
    BY <1>1, <1>2 DEF ReviewTypeOK, RowsOfReviews, DeletedTogether, RowsWait, Reviews
<1> QED
    BY <1>3, <1>4, <1>5, <1>6

\* An approval row is raised, or refused.
LEMMA ApprovalHandlers ==
    ASSUME HandlerInvariant, NEW c \in Calls, NEW s \in Steps,
           req[c] = "execute", CreateApproval(c, s)
    PROVE  HandlerInvariant'
<1> USE ReviewAssumption DEF HandlerInvariant
<1>1. PICK v \in {"pending", "lost"} :
         /\ approvals' = [approvals EXCEPT ![c][s] = v]
         /\ v = "pending" => execution.status # "deleted"
    BY DEF CreateApproval
<1>2. /\ s \in Reviews /\ thread[c][s] = "running" /\ tickets[c][s] = "none"
      /\ approvals[c][s] = "none"
      /\ UNCHANGED <<execution, tickets, req, target, loaded, thread, pc>>
      /\ faults' \in Nat
    BY DEF CreateApproval, Reviews, engineVars, Fault, ReviewTypeOK
<1>3. /\ approvals'[c][s] = v
      /\ \A d \in Calls, t \in Steps : d # c \/ t # s => approvals'[d][t] = approvals[d][t]
    BY <1>1 DEF ReviewTypeOK
<1>4. ReviewTypeOK'
    BY <1>1, <1>2 DEF ReviewTypeOK, ApprovalValues
<1>5. HandlerShape' /\ OneAtATime'
    BY <1>2 DEF HandlerShape, OneAtATime, Deciding
<1>6. BeforeTheRun'
    BY <1>2 DEF BeforeTheRun
<1>7. RowsOfReviews'
    BY <1>1, <1>2, <1>3 DEF RowsOfReviews, Reviews
<1>8. DeletedTogether'
    BY <1>1, <1>2, <1>3 DEF DeletedTogether
<1>9. RowsWait'
  <2>1. \A d \in Calls : req[d] \in Deciding => target[d] \in Calls \X Steps
      BY DEF HandlerShape
  <2>2. \A d \in Calls : req[d] \notin Deciding
      BY <1>2 DEF OneAtATime, Deciding, Over
  <2>3. \A d \in Calls : req[d] = "execute" => d = c
      BY <1>2 DEF OneAtATime, Over
  <2>4. \A t \in Steps : approvals'[c][t] \in {"none", "lost", "pending", "deleted"}
      BY <1>1, <1>3 DEF RowsWait
  <2> QED
      BY <1>2, <2>2, <2>3, <2>4 DEF RowsWait, Deciding
<1> QED
    BY <1>4, <1>5, <1>6, <1>7, <1>8, <1>9

\* A ticket is raised, or resolved by hand: nothing else of the handlers changes.
LEMMA TicketHandlers ==
    ASSUME HandlerInvariant, NEW c \in Calls, NEW s \in Steps,
           CreateTicket(c, s) \/ ResolveTicket(c, s)
    PROVE  HandlerInvariant'
<1> USE DEF HandlerInvariant
<1>1. /\ UNCHANGED <<execution, approvals, req, target, loaded, thread, pc>>
      /\ faults' \in Nat
      /\ \E v \in {"OPEN", "lost", "RESOLVED"} : tickets' = [tickets EXCEPT ![c][s] = v]
      /\ s \in Reviews => approvals[c][s] # "none"
    BY DEF CreateTicket, ResolveTicket, engineVars, Fault, ReviewTypeOK, RowsOfReviews, Reviews
<1>2. ReviewTypeOK'
    BY <1>1 DEF ReviewTypeOK, TicketValues
<1>3. HandlerShape' /\ BeforeTheRun' /\ OneAtATime' /\ DeletedTogether' /\ RowsWait'
    BY <1>1 DEF HandlerShape, BeforeTheRun, OneAtATime, DeletedTogether, RowsWait, Deciding
<1>4. RowsOfReviews'
    BY <1>1 DEF ReviewTypeOK, RowsOfReviews, Reviews
<1> QED
    BY <1>2, <1>3, <1>4

\* A decision starts, when no other request is in progress.
LEMMA SelectHandlers ==
    ASSUME Serial, EngineInvariant, HandlerInvariant, NEW c \in Calls, NEW d \in Calls,
           NEW s \in Steps, Decision(c, d, s)
    PROVE  HandlerInvariant'
<1> USE DEF HandlerInvariant
<1>1. PICK v \in {"approve_seen", "reject_seen", "refused"} :
         /\ req' = [req EXCEPT ![c] = v]
         /\ v # "refused" => approvals[d][s] = "pending"
    BY DEF Decision, SelectApproval, Decidable
<1>2. /\ target' = [target EXCEPT ![c] = <<d, s>>]
      /\ approvals[d][s] # "none"
      /\ \A e \in Calls : req[e] \in Over
      /\ UNCHANGED <<execution, approvals, tickets, loaded, faults, thread, pc>>
      /\ Unused # {} /\ c = FreshCall
    BY DEF Decision, SelectApproval, engineVars, rowVars
<1>3. c # RunCall /\ req[c] = "none"
  <2>1. c \in Unused
      BY <1>2 DEF FreshCall
  <2> QED
      BY <2>1 DEF Unused
<1>4. ReviewTypeOK'
    BY <1>1, <1>2 DEF ReviewTypeOK, ReqValues
<1>5. HandlerShape' /\ OneAtATime'
    BY <1>1, <1>2, <1>3 DEF ReviewTypeOK, HandlerShape, OneAtATime, Deciding, Over
<1>6. BeforeTheRun'
    BY <1>1, <1>2, <1>3 DEF ReviewTypeOK, BeforeTheRun
<1>7. RowsOfReviews' /\ DeletedTogether'
    BY <1>2 DEF RowsOfReviews, DeletedTogether, Reviews
<1>8. RowsWait'
  <2>1. \A e \in Calls : e # c => req'[e] \in Over
      BY <1>1, <1>2 DEF ReviewTypeOK
  <2>2. target'[c] = <<d, s>> /\ req'[c] = v
      BY <1>1, <1>2 DEF ReviewTypeOK
  <2>3. \A e \in Calls : e # c => req'[e] \notin {"approve_seen", "reject_seen", "approve_loaded", "approve_committed", "execute"}
      BY <2>1 DEF Over
  <2> QED
      BY <1>1, <1>2, <2>2, <2>3 DEF RowsWait
<1> QED
    BY <1>4, <1>5, <1>6, <1>7, <1>8

\* The decision reads the execution, or gives up.
LEMMA LoadHandlers ==
    ASSUME HandlerInvariant, NEW c \in Calls, LoadExecution(c)
    PROVE  HandlerInvariant'
<1> USE DEF HandlerInvariant
<1>1. /\ req[c] = "approve_seen"
      /\ UNCHANGED <<execution, approvals, tickets, target, faults, thread, pc>>
      /\ \E v \in {"approve_loaded", "refused"} : req' = [req EXCEPT ![c] = v]
      /\ loaded' = loaded \/ loaded' = [loaded EXCEPT ![c] = execution.results]
    BY DEF LoadExecution, engineVars, rowVars
<1>2. ReviewTypeOK'
    BY <1>1 DEF ReviewTypeOK, ReqValues
<1>3. HandlerShape' /\ OneAtATime'
    BY <1>1 DEF ReviewTypeOK, HandlerShape, OneAtATime, Deciding, Over
<1>4. BeforeTheRun'
    BY <1>1 DEF ReviewTypeOK, BeforeTheRun
<1>5. RowsOfReviews' /\ DeletedTogether' /\ RowsWait'
    BY <1>1 DEF ReviewTypeOK, RowsOfReviews, DeletedTogether, RowsWait, Reviews
<1> QED
    BY <1>2, <1>3, <1>4, <1>5

\* What a decision does to the rows: the one it is about is overwritten, unless it
\* was deleted.
DecideEffect(c, v) ==
    /\ target[c] \in Calls \X Steps
    /\ LET d == target[c][1]
           s == target[c][2]
       IN  /\ approvals[d][s] \in {"pending", "deleted"}
           /\ approvals'[d][s] = IF approvals[d][s] = "deleted" THEN "deleted" ELSE v
           /\ \A e \in Calls, t \in Steps :
                 e # d \/ t # s => approvals'[e][t] = approvals[e][t]

\* The row a committing request is about is still as it was selected, or deleted.
LEMMA DecideRows ==
    ASSUME HandlerInvariant, NEW c \in Calls, NEW v \in {"approved", "rejected"},
           req[c] \in {"reject_seen", "approve_loaded"},
           Decide(target[c][1], target[c][2], v)
    PROVE  DecideEffect(c, v) /\ approvals' \in [Calls -> [Steps -> ApprovalValues]]
<1> USE DEF HandlerInvariant
<1>1. target[c] \in Calls \X Steps
    BY DEF HandlerShape, Deciding
<1>2. approvals[target[c][1]][target[c][2]] \in {"pending", "deleted"}
    BY DEF RowsWait
<1>3. PICK d \in Calls, s \in Steps : d = target[c][1] /\ s = target[c][2]
    BY <1>1
<1>4. PICK w \in ApprovalValues :
         w = IF approvals[d][s] = "deleted" THEN "deleted" ELSE v
    BY DEF ApprovalValues
<1>5. approvals' = [approvals EXCEPT ![d][s] = w]
    BY <1>3, <1>4 DEF Decide
<1> QED
    BY <1>1, <1>2, <1>3, <1>4, <1>5 DEF DecideEffect, ReviewTypeOK

\* The approval is committed.
LEMMA CommitHandlers ==
    ASSUME HandlerInvariant, NEW c \in Calls, CommitApproval(c)
    PROVE  HandlerInvariant'
<1> USE DEF HandlerInvariant
<1>1. /\ req[c] = "approve_loaded" /\ req' = [req EXCEPT ![c] = "approve_committed"]
      /\ UNCHANGED <<execution, tickets, target, loaded, faults, thread, pc>>
    BY DEF CommitApproval, engineVars
<1>2. DecideEffect(c, "approved") /\ approvals' \in [Calls -> [Steps -> ApprovalValues]]
    BY <1>1, DecideRows DEF CommitApproval
<1>3. PICK d \in Calls, s \in Steps : d = target[c][1] /\ s = target[c][2]
    BY <1>2 DEF DecideEffect
<1>4. /\ approvals[d][s] \in {"pending", "deleted"}
      /\ approvals'[d][s] = IF approvals[d][s] = "deleted" THEN "deleted" ELSE "approved"
      /\ \A e \in Calls, t \in Steps : e # d \/ t # s => approvals'[e][t] = approvals[e][t]
    BY <1>2, <1>3 DEF DecideEffect
<1>5. ReviewTypeOK'
    BY <1>1, <1>2 DEF ReviewTypeOK, ReqValues
<1>6. HandlerShape' /\ OneAtATime'
    BY <1>1 DEF ReviewTypeOK, HandlerShape, OneAtATime, Deciding, Over
<1>7. BeforeTheRun'
    BY <1>1, QuietBeforeTheRun DEF ReviewTypeOK, BeforeTheRun
<1>8. RowsOfReviews' /\ DeletedTogether'
    BY <1>1, <1>4 DEF RowsOfReviews, DeletedTogether, Reviews
<1>9. RowsWait'
  <2>1. \A e \in Calls : e # c => req'[e] \notin {"approve_seen", "reject_seen", "approve_loaded", "approve_committed", "execute"}
      BY <1>1 DEF ReviewTypeOK, OneAtATime, Over
  <2> QED
      BY <1>1, <1>3, <1>4, <2>1 DEF ReviewTypeOK, RowsWait
<1> QED
    BY <1>5, <1>6, <1>7, <1>8, <1>9

\* The plan is resumed in a call that has not begun.
LEMMA ResumeHandlers ==
    ASSUME EngineInvariant, HandlerInvariant, NEW c \in Calls, Resume(c)
    PROVE  HandlerInvariant'
<1> USE DEF HandlerInvariant, EngineInvariant, LoopInvariant, EngineTypeOK
<1>1. /\ req[c] = "approve_committed" /\ req' = [req EXCEPT ![c] = "execute"]
      /\ pc[c] = "idle" /\ pc' = [pc EXCEPT ![c] = "loop"]
      /\ UNCHANGED <<execution, approvals, target, loaded, thread>>
      /\ faults' \in Nat
    BY DEF Resume, Begin, poolVars, Fault, ReviewTypeOK
<1>2. PICK d \in Calls, s \in Steps : d = target[c][1] /\ s = target[c][2]
    BY <1>1 DEF HandlerShape, Deciding
<1>3. tickets' = tickets \/ tickets' = [tickets EXCEPT ![d][s] = ResolvedTicket(@)]
    BY <1>2 DEF Resume
<1>4. /\ tickets' \in [Calls -> [Steps -> TicketValues]]
      /\ \A e \in Calls, t \in Steps : tickets'[e][t] # "none" => tickets[e][t] # "none"
  <2>1. tickets \in [Calls -> [Steps -> TicketValues]]
      BY DEF ReviewTypeOK
  <2>2. PICK w \in TicketValues : w = ResolvedTicket(tickets[d][s])
      BY <2>1 DEF ResolvedTicket, TicketValues
  <2>3. tickets' = tickets \/ tickets' = [tickets EXCEPT ![d][s] = w]
      BY <1>3, <2>2
  <2>4. w # "none" => tickets[d][s] # "none"
      BY <2>2 DEF ResolvedTicket
  <2>5. CASE tickets' = tickets
      BY <2>1, <2>5
  <2>6. CASE tickets' = [tickets EXCEPT ![d][s] = w]
    <3>1. tickets' \in [Calls -> [Steps -> TicketValues]]
        BY <2>1, <2>6
    <3>2. \A e \in Calls, t \in Steps : tickets'[e][t] = IF e = d /\ t = s THEN w ELSE tickets[e][t]
        BY <2>1, <2>6
    <3> QED
        BY <2>4, <3>1, <3>2
  <2> QED
      BY <2>3, <2>5, <2>6
<1>5. ReviewTypeOK'
    BY <1>1, <1>4 DEF ReviewTypeOK, ReqValues
<1>6. HandlerShape' /\ OneAtATime'
    BY <1>1 DEF ReviewTypeOK, HandlerShape, OneAtATime, Deciding, Over
<1>7. BeforeTheRun'
    BY <1>1, QuietBeforeTheRun DEF ReviewTypeOK, BeforeTheRun
<1>8. RowsOfReviews' /\ DeletedTogether'
    BY <1>1, <1>4 DEF RowsOfReviews, DeletedTogether, Reviews
<1>9. \A t \in Steps : approvals[c][t] = "none"
    BY <1>1 DEF RowsOfReviews, IdleIsClean
<1>10. RowsWait'
    BY <1>1, <1>9 DEF ReviewTypeOK, RowsWait
<1> QED
    BY <1>5, <1>6, <1>7, <1>8, <1>10

\* A rejection that is committed, or whose ticket UPDATE failed.
LEMMA RejectHandlers ==
    ASSUME HandlerInvariant, NEW c \in Calls, CommitRejection(c)
    PROVE  HandlerInvariant'
<1> USE DEF HandlerInvariant
<1>1. /\ req[c] = "reject_seen" /\ req' = [req EXCEPT ![c] = "done"]
      /\ UNCHANGED <<target, loaded, thread, pc>>
      /\ faults' \in Nat
    BY DEF CommitRejection, engineVars, Fault, ReviewTypeOK
<1>2. HandlerShape' /\ OneAtATime'
    BY <1>1 DEF ReviewTypeOK, HandlerShape, OneAtATime, Deciding, Over
<1>3. BeforeTheRun'
    BY <1>1, QuietBeforeTheRun DEF ReviewTypeOK, BeforeTheRun
<1>4. \A e \in Calls : req'[e] \notin {"approve_seen", "reject_seen", "approve_loaded", "approve_committed", "execute"}
    BY <1>1 DEF ReviewTypeOK, OneAtATime, Over
<1>5. RowsWait'
    BY <1>4 DEF RowsWait
<1>6. CASE UNCHANGED rowVars
  <2>1. UNCHANGED <<execution, approvals, tickets>>
      BY <1>6 DEF rowVars
  <2>2. ReviewTypeOK'
      BY <1>1, <2>1 DEF ReviewTypeOK, ReqValues
  <2>3. RowsOfReviews' /\ DeletedTogether'
      BY <1>1, <2>1 DEF RowsOfReviews, DeletedTogether, Reviews
  <2> QED
      BY <1>2, <1>3, <1>5, <2>2, <2>3
<1>7. CASE ~UNCHANGED rowVars
  <2>1. DecideEffect(c, "rejected") /\ approvals' \in [Calls -> [Steps -> ApprovalValues]]
      BY <1>1, <1>7, DecideRows DEF CommitRejection
  <2>2. PICK d \in Calls, s \in Steps : d = target[c][1] /\ s = target[c][2]
      BY <2>1 DEF DecideEffect
  <2>3. /\ approvals[d][s] \in {"pending", "deleted"}
        /\ approvals'[d][s] = IF approvals[d][s] = "deleted" THEN "deleted" ELSE "rejected"
        /\ \A e \in Calls, t \in Steps : e # d \/ t # s => approvals'[e][t] = approvals[e][t]
      BY <2>1, <2>2 DEF DecideEffect
  <2>4. /\ execution' = IF execution.status = "deleted" THEN execution
                        ELSE [execution EXCEPT !.status = "failed", !.errors = @ \cup {s}]
        /\ tickets' = [tickets EXCEPT ![d][s] = ResolvedTicket(@)]
      BY <1>7, <2>2 DEF CommitRejection
  <2>5. /\ tickets' \in [Calls -> [Steps -> TicketValues]]
        /\ \A e \in Calls, t \in Steps : tickets'[e][t] # "none" => tickets[e][t] # "none"
      BY <2>4 DEF ReviewTypeOK, ResolvedTicket, TicketValues
  <2>6. /\ execution' \in [status : StatusValues, results : [Steps -> ResultValues],
                           errors : SUBSET Steps]
        /\ execution'.status = "deleted" <=> execution.status = "deleted"
      BY <2>4 DEF ReviewTypeOK, StatusValues
  <2>7. ReviewTypeOK'
      BY <1>1, <2>1, <2>5, <2>6 DEF ReviewTypeOK, ReqValues
  <2>8. RowsOfReviews' /\ DeletedTogether'
      BY <1>1, <2>3, <2>5, <2>6 DEF RowsOfReviews, DeletedTogether, Reviews
  <2> QED
      BY <1>2, <1>3, <1>5, <2>7, <2>8
<1> QED
    BY <1>6, <1>7

\* The execution is deleted, with every approval.
LEMMA DeleteHandlers ==
    ASSUME HandlerInvariant, DeleteExecution
    PROVE  HandlerInvariant'
<1> USE DEF HandlerInvariant
<1>1. /\ execution.status \notin {"absent", "deleted"}
      /\ execution' = [execution EXCEPT !.status = "deleted"]
      /\ UNCHANGED <<tickets, req, target, loaded, faults, thread, pc>>
      /\ approvals' = [d \in Calls |-> [s \in Steps |->
                          IF approvals[d][s] \in {"pending", "approved", "rejected"}
                          THEN "deleted" ELSE approvals[d][s]]]
    BY DEF DeleteExecution, engineVars
<1>2. \A d \in Calls, s \in Steps :
         approvals'[d][s] = IF approvals[d][s] \in {"pending", "approved", "rejected"}
                            THEN "deleted" ELSE approvals[d][s]
    BY <1>1
<1>3. approvals' \in [Calls -> [Steps -> ApprovalValues]]
    BY <1>1 DEF ReviewTypeOK, ApprovalValues
<1>4. ReviewTypeOK'
    BY <1>1, <1>3 DEF ReviewTypeOK, StatusValues
<1>5. HandlerShape' /\ BeforeTheRun' /\ OneAtATime'
    BY <1>1 DEF HandlerShape, BeforeTheRun, OneAtATime, Deciding
<1>6. RowsOfReviews' /\ DeletedTogether'
    BY <1>1, <1>2 DEF ReviewTypeOK, RowsOfReviews, DeletedTogether, Reviews
<1>7. RowsWait'
  <2>1. ASSUME NEW e \in Calls, req[e] \in Deciding
        PROVE  /\ req[e] # "approve_committed" =>
                      approvals'[target[e][1]][target[e][2]] \in {"pending", "deleted"}
               /\ req[e] = "approve_committed" =>
                      approvals'[target[e][1]][target[e][2]] \in {"approved", "deleted"}
    <3>1. PICK d \in Calls, s \in Steps : d = target[e][1] /\ s = target[e][2]
        BY <2>1 DEF HandlerShape
    <3> QED
        BY <1>2, <2>1, <3>1 DEF RowsWait, Deciding
  <2>2. \A e \in Calls, s \in Steps :
           req[e] = "execute" => approvals'[e][s] \in {"none", "lost", "pending", "deleted"}
      BY <1>2 DEF RowsWait
  <2> QED
      BY <1>1, <2>1, <2>2 DEF RowsWait, Deciding
<1> QED
    BY <1>4, <1>5, <1>6, <1>7

\* A crash ends every request that is in progress.
LEMMA CrashHandlers ==
    ASSUME HandlerInvariant, Crash
    PROVE  HandlerInvariant'
<1> USE DEF HandlerInvariant
<1>1. /\ UNCHANGED <<execution, approvals, tickets, target, loaded, thread, pc>>
      /\ faults' \in Nat
      /\ \E c \in Calls : req[c] \notin Over
      /\ req' = [c \in Calls |-> IF req[c] \in Over THEN req[c] ELSE "crashed"]
    BY DEF Crash, engineVars, rowVars, Fault, ReviewTypeOK
<1>2. \A c \in Calls : req'[c] = (IF req[c] \in Over THEN req[c] ELSE "crashed") /\ req'[c] \in Over
    BY <1>1 DEF Over
<1>3. ReviewTypeOK'
    BY <1>1 DEF ReviewTypeOK, ReqValues
<1>4. HandlerShape' /\ OneAtATime'
    BY <1>1, <1>2 DEF HandlerShape, OneAtATime, Deciding, Over
<1>5. BeforeTheRun'
    BY <1>1, <1>2, QuietBeforeTheRun, ReviewAssumption DEF BeforeTheRun, Over
<1>6. RowsOfReviews' /\ DeletedTogether' /\ RowsWait'
    BY <1>1, <1>2 DEF RowsOfReviews, DeletedTogether, RowsWait, Reviews, Over
<1> QED
    BY <1>3, <1>4, <1>5, <1>6

\* Every action of the handlers, of the engine they run, or of neither.
LEMMA NextHandlers ==
    ASSUME Serial, EngineInvariant, HandlerInvariant, [Next]_vars
    PROVE  EngineInvariant' /\ HandlerInvariant'
<1>1. CASE orchestrations_run
  <2>1. EmptyResults \in [Steps -> ResultValues]
      BY DEF EmptyResults, ResultValues
  <2> QED
      BY <1>1, <2>1, RunHandlers, BeginEngine, ReviewAssumption DEF orchestrations_run
<1>2. ASSUME NEW c \in Calls, Loop(c) PROVE EngineInvariant' /\ HandlerInvariant'
    BY <1>2, LoopEngine, LoopHandlers DEF Loop
<1>3. ASSUME NEW c \in Calls, NEW s \in Steps, Worker(c, s)
      PROVE  EngineInvariant' /\ HandlerInvariant'
  <2>1. CASE CreateApproval(c, s) \/ CreateTicket(c, s)
    <3>1. UNCHANGED engineVars /\ req[c] = "execute"
        BY <1>3, <2>1 DEF Worker, CreateApproval, CreateTicket
    <3> QED
        BY <2>1, <3>1, StutterEngine, ApprovalHandlers, TicketHandlers
  <2>2. CASE ~(CreateApproval(c, s) \/ CreateTicket(c, s))
    <3>1. /\ req[c] = "execute" /\ UNCHANGED reviewVars
          /\ \/ StartStep(c, s)
             \/ /\ Kind[s] # "task" => tickets[c][s] # "none"
                /\ \E v \in RetValues : FinishStep(c, s, v)
        BY <1>3, <2>2 DEF Worker
    <3> QED
        BY <3>1, StepHandlers, WorkerEngine
  <2> QED
      BY <2>1, <2>2
<1>4. ASSUME NEW c \in Calls, StoreOutcome(c) \/ LoadExecution(c) \/ CommitApproval(c) \/ CommitRejection(c)
      PROVE  EngineInvariant' /\ HandlerInvariant'
  <2>1. UNCHANGED engineVars
      BY <1>4 DEF StoreOutcome, LoadExecution, CommitApproval, CommitRejection
  <2> QED
      BY <1>4, <2>1, StutterEngine, StoreHandlers, LoadHandlers, CommitHandlers, RejectHandlers
<1>5. ASSUME NEW c \in Calls, Resume(c) PROVE EngineInvariant' /\ HandlerInvariant'
  <2>1. PICK s \in Steps : s = target[c][2]
      BY <1>5 DEF HandlerInvariant, HandlerShape, Deciding, Resume
  <2>2. loaded[c] \in [Steps -> ResultValues]
      BY DEF HandlerInvariant, ReviewTypeOK
  <2>3. ResumedResults(loaded[c], s) \in [Steps -> ResultValues]
      BY <2>2, ResumedType
  <2>4. Begin(c, ResumedResults(loaded[c], s))
      BY <1>5, <2>1 DEF Resume
  <2>5. EngineInvariant'
      BY <2>3, <2>4, BeginEngine
  <2> QED
      BY <1>5, <2>5, ResumeHandlers
<1>6. ASSUME NEW c \in Calls, NEW d \in Calls, NEW s \in Steps, Decision(c, d, s)
      PROVE  EngineInvariant' /\ HandlerInvariant'
  <2>1. UNCHANGED engineVars
      BY <1>6 DEF Decision, SelectApproval
  <2> QED
      BY <1>6, <2>1, StutterEngine, SelectHandlers
<1>7. ASSUME NEW c \in Calls, NEW s \in Steps, ResolveTicket(c, s)
      PROVE  EngineInvariant' /\ HandlerInvariant'
  <2>1. UNCHANGED engineVars
      BY <1>7 DEF ResolveTicket
  <2> QED
      BY <1>7, <2>1, StutterEngine, TicketHandlers
<1>8. CASE DeleteExecution \/ Crash
  <2>1. UNCHANGED engineVars
      BY <1>8 DEF DeleteExecution, Crash
  <2> QED
      BY <1>8, <2>1, StutterEngine, DeleteHandlers, CrashHandlers
<1>9. CASE UNCHANGED vars
  <2>1. UNCHANGED engineVars /\ UNCHANGED reviewVars
      BY <1>9 DEF vars
  <2>2. UNCHANGED <<execution, approvals, tickets, req, target, loaded, faults, thread, pc>>
      BY <2>1 DEF engineVars, reviewVars, rowVars
  <2>3. ReviewTypeOK' /\ HandlerShape' /\ BeforeTheRun' /\ OneAtATime'
      BY <2>2 DEF HandlerInvariant, ReviewTypeOK, HandlerShape, BeforeTheRun, OneAtATime, Deciding
  <2>4. RowsOfReviews' /\ DeletedTogether' /\ RowsWait'
      BY <2>2 DEF HandlerInvariant, RowsOfReviews, DeletedTogether, RowsWait, Reviews
  <2> QED
      BY <2>1, <2>3, <2>4, StutterEngine DEF HandlerInvariant
<1> QED
    BY <1>1, <1>2, <1>3, <1>4, <1>5, <1>6, <1>7, <1>8, <1>9 DEF Next, Handler

\* The invariants hold initially.
LEMMA InitHolds == Init => EngineInvariant /\ HandlerInvariant
BY InitEstablishes, InitLedger, InitPause, InitHandlers DEF Init, EngineInvariant

\* For every plan, every number of decisions, deletions and crashes: the rows and
\* the requests fit together, and the engine's own invariant holds in each of
\* its calls, seeded by whatever an earlier call has stored.
THEOREM HandlerInvariantHolds ==
    ASSUME Serial
    PROVE  Spec => [](EngineInvariant /\ HandlerInvariant)
<1>1. EngineInvariant /\ HandlerInvariant /\ [Next]_vars => EngineInvariant' /\ HandlerInvariant'
    BY NextHandlers
<1> QED
    BY <1>1, InitHolds, PTL DEF Spec

-----------------------------------------------------------------------------
(* A paused execution can be decided. *)

\* The call is back and paused: the review it is paused at has its row, which
\* nobody can have decided on, and the results stored say it is pending.
LEMMA StoredPauseIsPending ==
    ASSUME EngineInvariant, HandlerInvariant, NEW c \in Calls, StoreOutcome(c),
           execution'.status = "paused", \A d \in Calls, s \in Steps : approvals[d][s] # "lost"
    PROVE  \E s \in Reviews :
              approvals[c][s] = "pending" /\ execution'.results[s] = "pending_human_review"
<1> USE DEF EngineInvariant, PauseInvariant, HandlerInvariant
<1> DEFINE errs == failed[c] \cup skipped[c]
<1>1. /\ req[c] = "execute" /\ execution.status # "deleted"
      /\ execution'.status = ExecStatus(results[c], errs, paused_at_step[c])
      /\ execution'.results = results[c]
    BY DEF StoreOutcome
<1>2. paused_at_step[c] # NoStep
    BY <1>1 DEF ExecStatus
<1>3. PICK s \in Reviews : s = paused_at_step[c]
    BY <1>2 DEF PausedAtReview
<1>4. thread[c][s] = "done" /\ results[c][s] = "pending_human_review" /\ s \in Steps
    BY <1>2, <1>3 DEF PausedAtReview, Reviews
<1>5. approvals[c][s] \in {"none", "lost", "pending", "deleted"} /\ approvals[c][s] # "none"
    BY <1>1, <1>3, <1>4 DEF RowsWait, RowsOfReviews
<1>6. approvals[c][s] = "pending"
    BY <1>1, <1>4, <1>5 DEF DeletedTogether
<1> QED
    BY <1>1, <1>3, <1>4, <1>6

\* Every action keeps a paused execution pending, or is on its way to overwrite it.
LEMMA NextPauseIsPending ==
    ASSUME EngineInvariant, HandlerInvariant, PauseIsPending, [Next]_vars
    PROVE  PauseIsPending'
<1> SUFFICES ASSUME execution'.status = "paused",
                    \A c \in Calls : req'[c] # "crashed",
                    \A c \in Calls, s \in Steps : approvals'[c][s] # "lost"
             PROVE  \/ \E c \in Calls, s \in Reviews :
                          approvals'[c][s] = "pending" /\ execution'.results[s] = "pending_human_review"
                    \/ \E c \in Calls : req'[c] \in {"approve_committed", "execute"}
    BY DEF PauseIsPending, Reviews
<1> USE DEF HandlerInvariant, ReviewTypeOK
\* A request that is not past its decision moves on, and nothing else does.
<1>1. ASSUME UNCHANGED <<execution, approvals>>, NEW c \in Calls,
             req[c] \notin {"approve_committed", "execute", "crashed"},
             \A d \in Calls : d # c => req'[d] = req[d]
      PROVE  \/ \E d \in Calls, s \in Reviews :
                   approvals'[d][s] = "pending" /\ execution'.results[s] = "pending_human_review"
             \/ \E d \in Calls : req'[d] \in {"approve_committed", "execute"}
  <2>1. \A d \in Calls : req[d] # "crashed"
      BY <1>1
  <2>2. execution.status = "paused" /\ \A d \in Calls, s \in Steps : approvals[d][s] # "lost"
      BY <1>1
  <2>3. CASE \E d \in Calls, s \in Reviews :
                approvals[d][s] = "pending" /\ execution.results[s] = "pending_human_review"
      BY <1>1, <2>3
  <2>4. CASE \E d \in Calls : req[d] \in {"approve_committed", "execute"}
    <3>1. PICK d \in Calls : req[d] \in {"approve_committed", "execute"}
        BY <2>4
    <3>2. d # c
        BY <1>1, <3>1
    <3> QED
        BY <1>1, <3>1, <3>2
  <2> QED
      BY <2>1, <2>2, <2>3, <2>4 DEF PauseIsPending
<1>2. CASE UNCHANGED <<execution, approvals, req>>
    BY <1>2 DEF PauseIsPending
<1>3. CASE orchestrations_run
  <2>1. req'[RunCall] = "execute"
      BY <1>3, ReviewAssumption DEF orchestrations_run
  <2> QED
      BY <2>1, ReviewAssumption
<1>4. ASSUME NEW c \in Calls, StoreOutcome(c)
      PROVE  \E d \in Calls, s \in Reviews :
                approvals'[d][s] = "pending" /\ execution'.results[s] = "pending_human_review"
  <2>1. approvals' = approvals
      BY <1>4 DEF StoreOutcome
  <2>2. \E s \in Reviews :
           approvals[c][s] = "pending" /\ execution'.results[s] = "pending_human_review"
      BY <1>4, <2>1, StoredPauseIsPending
  <2> QED
      BY <2>1, <2>2
<1>5. ASSUME NEW c \in Calls, NEW s \in Steps, CreateApproval(c, s), req[c] = "execute"
      PROVE  req'[c] = "execute"
    BY <1>5 DEF CreateApproval
<1>6. ASSUME NEW c \in Calls, CommitApproval(c) \/ Resume(c)
      PROVE  req'[c] \in {"approve_committed", "execute"}
    BY <1>6 DEF CommitApproval, Resume
<1>7. ASSUME NEW c \in Calls, LoadExecution(c) \/ \E d \in Calls, s \in Steps : Decision(c, d, s)
      PROVE  /\ UNCHANGED <<execution, approvals>>
             /\ req[c] \in {"none", "approve_seen"}
             /\ \A d \in Calls : d # c => req'[d] = req[d]
  <2>1. CASE LoadExecution(c)
      BY <2>1 DEF LoadExecution, rowVars
  <2>2. ASSUME NEW d \in Calls, NEW s \in Steps, Decision(c, d, s)
        PROVE  /\ UNCHANGED <<execution, approvals>>
               /\ req[c] = "none"
               /\ \A e \in Calls : e # c => req'[e] = req[e]
    <3>1. Unused # {} /\ c = FreshCall
        BY <2>2 DEF Decision, SelectApproval
    <3>2. req[c] = "none"
        BY <3>1 DEF FreshCall, Unused
    <3> QED
        BY <2>2, <3>2 DEF Decision, SelectApproval, rowVars
  <2> QED
      BY <1>7, <2>1, <2>2
<1>8. ASSUME NEW c \in Calls, CommitRejection(c)
      PROVE  /\ UNCHANGED <<execution, approvals>>
             /\ req[c] = "reject_seen"
             /\ \A d \in Calls : d # c => req'[d] = req[d]
    BY <1>8 DEF CommitRejection, rowVars
<1>9. CASE DeleteExecution
    BY <1>9 DEF DeleteExecution
<1>10. CASE Crash
  <2>1. PICK c \in Calls : req[c] \notin Over
      BY <1>10 DEF Crash
  <2>2. req'[c] = "crashed"
      BY <1>10, <2>1 DEF Crash
  <2> QED
      BY <2>2
<1>11. ASSUME NEW c \in Calls, NEW s \in Steps,
              Loop(c) \/ (Worker(c, s) /\ ~CreateApproval(c, s)) \/ ResolveTicket(c, s)
       PROVE  UNCHANGED <<execution, approvals, req>>
    BY <1>11 DEF Loop, Worker, CreateTicket, ResolveTicket, reviewVars, rowVars
<1>12. CASE UNCHANGED vars
    BY <1>2, <1>12 DEF vars, reviewVars, rowVars
<1>13. ASSUME NEW c \in Calls, Handler(c)
       PROVE  \/ \E d \in Calls, s \in Reviews :
                    approvals'[d][s] = "pending" /\ execution'.results[s] = "pending_human_review"
              \/ \E d \in Calls : req'[d] \in {"approve_committed", "execute"}
  <2>1. CASE Loop(c)
    <3>1. UNCHANGED <<execution, approvals, req>>
        BY <2>1 DEF Loop, reviewVars, rowVars
    <3> QED
        BY <3>1, <1>2
  <2>2. CASE StoreOutcome(c)
      BY <2>2, <1>4
  <2>3. CASE LoadExecution(c)
      BY <2>3, <1>7, <1>1
  <2>4. CASE CommitApproval(c) \/ Resume(c)
      BY <2>4, <1>6
  <2>5. CASE CommitRejection(c)
      BY <2>5, <1>8, <1>1
  <2> QED
      BY <1>13, <2>1, <2>2, <2>3, <2>4, <2>5 DEF Handler
<1>14. ASSUME NEW c \in Calls, NEW s \in Steps, Worker(c, s) \/ ResolveTicket(c, s)
       PROVE  \/ \E d \in Calls, t \in Reviews :
                    approvals'[d][t] = "pending" /\ execution'.results[t] = "pending_human_review"
              \/ \E d \in Calls : req'[d] \in {"approve_committed", "execute"}
  <2>1. CASE CreateApproval(c, s) /\ req[c] = "execute"
      BY <2>1, <1>5
  <2>2. CASE ~(CreateApproval(c, s) /\ req[c] = "execute")
    <3>1. UNCHANGED <<execution, approvals, req>>
        BY <1>11, <1>14, <2>2 DEF Worker
    <3> QED
        BY <3>1, <1>2
  <2> QED
      BY <2>1, <2>2
<1>15. ASSUME NEW c \in Calls, NEW d \in Calls, NEW s \in Steps, Decision(c, d, s)
       PROVE  \/ \E e \in Calls, t \in Reviews :
                    approvals'[e][t] = "pending" /\ execution'.results[t] = "pending_human_review"
              \/ \E e \in Calls : req'[e] \in {"approve_committed", "execute"}
    BY <1>15, <1>7, <1>1
<1> QED
    BY <1>3, <1>9, <1>10, <1>12, <1>13, <1>14, <1>15 DEF Next

\* For every plan and every policy: unless a request crashed or an approval row
\* was refused, a paused execution shows a review with a row a reviewer can decide.
THEOREM PausedIsDecidableHolds ==
    ASSUME Serial
    PROVE  Spec => []PausedIsDecidable
<1>1. Init => PauseIsPending
    BY DEF Init, PauseIsPending
<1>2. EngineInvariant /\ HandlerInvariant /\ PauseIsPending /\ [Next]_vars => PauseIsPending'
    BY NextPauseIsPending
<1>3. PauseIsPending => PausedIsDecidable
    BY DEF PauseIsPending, PausedIsDecidable, Over
<1> QED
    BY <1>1, <1>2, <1>3, HandlerInvariantHolds, PTL DEF Spec

-----------------------------------------------------------------------------
(* Work that has been done is known to every later request. *)

\* What WorkIsKnown says of one achieved step s of call c, to a request d.
Known(c, d, s) ==
    /\ execution.status # "deleted" => execution.results[s] # NoResult
    /\ req[d] \in {"approve_loaded", "approve_committed"} => loaded[d][s] # NoResult
    /\ req[d] = "execute" => results[d][s] # NoResult /\ thread[d][s] = "idle"
    /\ c # d => s \notin Achieved(d)

\* Nothing new is achieved, and nothing of what is known is forgotten.
LEMMA KnownStays ==
    ASSUME WorkIsKnown,
           \A c \in Calls : Achieved(c)' \subseteq Achieved(c),
           \A s \in Steps : execution'.status # "deleted" =>
              execution.status # "deleted" /\ execution'.results[s] = execution.results[s],
           \A d \in Calls, s \in Steps :
              req'[d] \in {"approve_loaded", "approve_committed"} =>
                  \/ req[d] \in {"approve_loaded", "approve_committed"} /\ loaded'[d] = loaded[d]
                  \/ execution.status # "deleted" /\ loaded'[d] = execution.results,
           \A d \in Calls, s \in Steps :
              req'[d] = "execute" =>
                  \/ /\ req[d] = "execute"
                     /\ results[d][s] # NoResult => results'[d][s] # NoResult
                     /\ thread[d][s] = "idle" /\ results[d][s] # NoResult => thread'[d][s] = "idle"
                  \/ /\ req[d] = "approve_committed"
                     /\ loaded[d][s] # NoResult => results'[d][s] # NoResult
                     /\ thread'[d][s] = "idle"
    PROVE  WorkIsKnown'
<1> SUFFICES ASSUME NEW c \in Calls, NEW d \in Calls, NEW s \in Achieved(c)' PROVE Known(c, d, s)'
    BY DEF WorkIsKnown, Known
<1>1. s \in Achieved(c) /\ s \in Steps
    BY DEF Achieved
<1>2. Known(c, d, s)
    BY <1>1 DEF WorkIsKnown, Known
<1>3. execution'.status # "deleted" => execution'.results[s] # NoResult
    BY <1>1, <1>2 DEF Known
<1>4. req'[d] \in {"approve_loaded", "approve_committed"} => loaded'[d][s] # NoResult
    BY <1>1, <1>2 DEF Known
<1>5. req'[d] = "execute" => results'[d][s] # NoResult /\ thread'[d][s] = "idle"
    BY <1>1, <1>2 DEF Known
<1>6. c # d => s \notin Achieved(d)'
    BY <1>1, <1>2 DEF Known
<1> QED
    BY <1>3, <1>4, <1>5, <1>6 DEF Known

\* The row is overwritten by a call that began with all that had been achieved,
\* and keeps in it all that the call itself has achieved.
LEMMA StoreKnows ==
    ASSUME EngineInvariant, HandlerInvariant, WorkIsKnown, NEW c \in Calls, StoreOutcome(c)
    PROVE  WorkIsKnown'
<1> USE DEF EngineInvariant, LoopInvariant, LedgerInvariant, PauseInvariant, HandlerInvariant,
            EngineTypeOK, ReviewTypeOK
<1>1. /\ req[c] = "execute" /\ pc[c] = "returned"
      /\ req' = [req EXCEPT ![c] = "done"]
      /\ UNCHANGED <<error_policy, ret, results, thread, loaded>>
      /\ execution'.status # "deleted" =>
            execution.status # "deleted" /\ execution'.results = results[c]
    BY DEF StoreOutcome, engineVars
<1>2. \A d \in Calls : d # c => Achieved(d)' = Achieved(d)
    BY <1>1 DEF Achieved
<1>3. ASSUME NEW s \in Achieved(c)' PROVE thread[c][s] # "idle" /\ results[c][s] # NoResult
  <2>1. s \in Steps /\ error_policy[c] # "fail_fast" /\ ret[c][s] \in Outcomes
      BY <1>1, <1>3 DEF Achieved
  <2>2. thread[c][s] = "done" /\ ~abort[c]
      BY <2>1 DEF RetFollowsThread, AbortHasCause, NoResult, Outcomes, TaskOutcomes
  <2>3. s \notin futures[c]
      BY <1>1, <2>2 DEF DrainIsDry
  <2>4. results[c][s] = ret[c][s]
      BY <2>1, <2>2, <2>3 DEF DoneIsHarvested
  <2> QED
      BY <2>1, <2>2, <2>4 DEF NoResult, Outcomes, TaskOutcomes
<1>4. ASSUME NEW d \in Calls, d # c, NEW s \in Achieved(d)'
      PROVE  thread[c][s] = "idle" /\ results[c][s] # NoResult
    BY <1>1, <1>2, <1>4 DEF WorkIsKnown
<1>5. \A d \in Calls : req'[d] \in Over
    BY <1>1 DEF OneAtATime, Over
<1> SUFFICES ASSUME NEW e \in Calls, NEW d \in Calls, NEW s \in Achieved(e)' PROVE Known(e, d, s)'
    BY DEF WorkIsKnown, Known
<1>6. execution'.status # "deleted" => execution'.results[s] # NoResult
    BY <1>1, <1>3, <1>4
<1>7. req'[d] \notin {"approve_loaded", "approve_committed", "execute"}
    BY <1>5 DEF Over
<1>8. e # d => s \notin Achieved(d)'
  <2>1. CASE e = c
      BY <1>3, <1>4, <2>1
  <2>2. CASE e # c /\ d = c
      BY <1>3, <1>4, <2>2
  <2>3. CASE e # c /\ d # c
      BY <1>2, <2>3 DEF WorkIsKnown
  <2> QED
      BY <2>1, <2>2, <2>3
<1> QED
    BY <1>6, <1>7, <1>8 DEF Known

\* When the run starts nothing has been achieved.
LEMMA RunKnows ==
    ASSUME HandlerInvariant, orchestrations_run
    PROVE  WorkIsKnown'
<1>1. \A c \in Calls : req'[c] # "done"
    BY ReviewAssumption DEF HandlerInvariant, ReviewTypeOK, BeforeTheRun, orchestrations_run
<1> QED
    BY <1>1 DEF WorkIsKnown, Achieved

\* The engine moves: what is done already is not submitted.
LEMMA LoopKnows ==
    ASSUME EngineInvariant, HandlerInvariant, WorkIsKnown, NEW c \in Calls, Loop(c)
    PROVE  WorkIsKnown'
<1> USE DEF EngineInvariant, LoopInvariant, LedgerInvariant, HandlerInvariant
<1>1. req[c] = "execute" /\ LoopEffect(c) /\ UNCHANGED <<execution, req, loaded>>
    BY EveryLoopEffect DEF Loop, reviewVars, rowVars
<1>2. \A d \in Calls : Achieved(d)' \subseteq Achieved(d)
    BY <1>1 DEF Achieved, LoopEffect, CallsKeep
<1>3. ASSUME NEW d \in Calls, NEW s \in Steps, req'[d] = "execute"
      PROVE  /\ req[d] = "execute"
             /\ results[d][s] # NoResult => results'[d][s] # NoResult
             /\ thread[d][s] = "idle" /\ results[d][s] # NoResult => thread'[d][s] = "idle"
  <2>1. d = c
      BY <1>1, <1>3 DEF OneAtATime, Over
  <2>2. results[c][s] # NoResult => s \in completed[c]
      BY DEF CompletedIsLedger, Keys
  <2> QED
      BY <1>1, <2>1, <2>2 DEF LoopEffect, Submitted, Cancelled
<1> QED
    BY <1>1, <1>2, <1>3, KnownStays

\* Nor does a worker's turn submit anything, and only a stored call achieves.
LEMMA StepKnows ==
    ASSUME EngineInvariant, HandlerInvariant, WorkIsKnown, NEW c \in Calls, NEW s \in Steps,
           req[c] = "execute", UNCHANGED reviewVars,
           StartStep(c, s) \/ \E v \in RetValues : FinishStep(c, s, v)
    PROVE  WorkIsKnown'
<1> USE DEF EngineInvariant, LoopInvariant, HandlerInvariant
<1>1. WorkerEffect(c, s) /\ UNCHANGED <<execution, req, loaded>>
    BY EveryWorkerEffect DEF reviewVars, rowVars
<1>2. \A d \in Calls : Achieved(d)' \subseteq Achieved(d)
    BY <1>1 DEF Achieved, WorkerEffect, CallsKeep
<1>3. ASSUME NEW d \in Calls, NEW t \in Steps, req'[d] = "execute"
      PROVE  /\ req[d] = "execute"
             /\ results'[d][t] = results[d][t]
             /\ thread[d][t] = "idle" => thread'[d][t] = "idle"
  <2>1. d = c
      BY <1>1, <1>3 DEF OneAtATime, Over
  <2> QED
      BY <1>1, <2>1 DEF WorkerEffect
<1> QED
    BY <1>1, <1>2, <1>3, KnownStays

\* A resumption begins with all that the decision has read.
LEMMA ResumeKnows ==
    ASSUME EngineInvariant, HandlerInvariant, WorkIsKnown, NEW c \in Calls, Resume(c)
    PROVE  WorkIsKnown'
<1> USE DEF EngineInvariant, LoopInvariant, EngineTypeOK, HandlerInvariant, ReviewTypeOK
<1>1. PICK s \in Steps : s = target[c][2]
    BY DEF HandlerShape, Deciding, Resume
<1>2. /\ req[c] = "approve_committed" /\ req' = [req EXCEPT ![c] = "execute"]
      /\ pc[c] = "idle"
      /\ results' = [results EXCEPT ![c] = ResumedResults(loaded[c], s)]
      /\ UNCHANGED <<execution, loaded, error_policy, ret, thread>>
    BY <1>1 DEF Resume, Begin, poolVars
<1>3. \A d \in Calls : Achieved(d)' \subseteq Achieved(d)
    BY <1>2 DEF Achieved
<1>4. \A t \in Steps : thread[c][t] = "idle"
    BY <1>2 DEF IdleIsClean
<1>5. ASSUME NEW d \in Calls, NEW t \in Steps, req'[d] = "execute"
      PROVE  /\ d = c
             /\ loaded[d][t] # NoResult => results'[d][t] # NoResult
  <2>1. d = c
      BY <1>2, <1>5 DEF OneAtATime, Over
  <2>2. results'[c][t] = ResumedResults(loaded[c], s)[t]
      BY <1>2
  <2>3. loaded[c] \in [Steps -> ResultValues]
      BY <1>2
  <2>4. /\ t = s => ResumedResults(loaded[c], s)[t] # NoResult
        /\ t # s => ResumedResults(loaded[c], s)[t] = loaded[c][t]
      BY <2>3, ResumedType
  <2> QED
      BY <2>1, <2>2, <2>4
<1>6. \A d \in Calls : req'[d] \in {"approve_loaded", "approve_committed"} => req[d] = req'[d]
    BY <1>2
<1> QED
    BY <1>2, <1>3, <1>4, <1>5, <1>6, KnownStays

\* The other actions achieve nothing and forget nothing.
LEMMA RowsKnow ==
    ASSUME HandlerInvariant, EngineInvariant, WorkIsKnown, UNCHANGED engineVars,
           \/ \E c \in Calls : LoadExecution(c) \/ CommitApproval(c) \/ CommitRejection(c)
           \/ \E c \in Calls, s \in Steps :
                 CreateApproval(c, s) \/ CreateTicket(c, s) \/ ResolveTicket(c, s)
           \/ \E c, d \in Calls, s \in Steps : Decision(c, d, s)
           \/ DeleteExecution
           \/ Crash
    PROVE  WorkIsKnown'
<1> USE DEF HandlerInvariant, ReviewTypeOK
<1>1. UNCHANGED <<error_policy, ret, results, thread>>
    BY DEF engineVars
<1>2. ASSUME NEW c \in Calls,
             \/ LoadExecution(c) \/ CommitApproval(c) \/ CommitRejection(c)
             \/ \E d \in Calls, s \in Steps : Decision(c, d, s)
      PROVE  WorkIsKnown'
  <2>1. /\ \A d \in Calls : d # c => req'[d] = req[d] /\ loaded'[d] = loaded[d]
        /\ req'[c] # "execute"
        /\ execution'.status # "deleted" =>
              execution.status # "deleted" /\ execution'.results = execution.results
    BY <1>2 DEF LoadExecution, CommitApproval, CommitRejection, Decision, SelectApproval, rowVars
  <2>2. req'[c] = "done" => req[c] = "reject_seen"
    BY <1>2 DEF LoadExecution, CommitApproval, CommitRejection, Decision, SelectApproval
  <2>3. req'[c] \in {"approve_loaded", "approve_committed"} =>
           \/ req[c] \in {"approve_loaded", "approve_committed"} /\ loaded'[c] = loaded[c]
           \/ execution.status # "deleted" /\ loaded'[c] = execution.results
    BY <1>2 DEF LoadExecution, CommitApproval, CommitRejection, Decision, SelectApproval
  <2>4. req[c] = "reject_seen" => \A s \in Steps : ret[c][s] \notin Outcomes
    <3>1. req[c] = "reject_seen" => pc[c] = "idle"
        BY DEF HandlerShape, Deciding
    <3> QED
        BY <3>1 DEF EngineInvariant, LoopInvariant, PauseInvariant, IdleIsClean,
           RetFollowsThread, NoResult, Outcomes, TaskOutcomes
  <2>5. \A d \in Calls : Achieved(d)' \subseteq Achieved(d)
      BY <1>1, <2>1, <2>2, <2>4 DEF Achieved
  <2> QED
      BY <1>1, <2>1, <2>3, <2>5, KnownStays
<1>3. ASSUME NEW c \in Calls, NEW s \in Steps,
             CreateApproval(c, s) \/ CreateTicket(c, s) \/ ResolveTicket(c, s)
      PROVE  WorkIsKnown'
  <2>1. UNCHANGED <<execution, req, loaded>>
      BY <1>3 DEF CreateApproval, CreateTicket, ResolveTicket
  <2> QED
      BY <1>1, <2>1, KnownStays DEF Achieved
<1>4. CASE DeleteExecution
  <2>1. execution'.status = "deleted" /\ UNCHANGED <<req, loaded>>
      BY <1>4 DEF DeleteExecution
  <2> QED
      BY <1>1, <2>1, KnownStays DEF Achieved
<1>5. CASE Crash
  <2>1. /\ UNCHANGED <<execution, loaded>>
        /\ \A d \in Calls : req'[d] = req[d] \/ req'[d] = "crashed"
      BY <1>5 DEF Crash, rowVars
  <2> QED
      BY <1>1, <2>1, KnownStays DEF Achieved
<1> QED
    BY <1>2, <1>3, <1>4, <1>5

\* Every action keeps what has been achieved known.
LEMMA NextKnows ==
    ASSUME EngineInvariant, HandlerInvariant, WorkIsKnown, [Next]_vars
    PROVE  WorkIsKnown'
<1>1. CASE orchestrations_run
    BY <1>1, RunKnows
<1>2. ASSUME NEW c \in Calls, Handler(c) PROVE WorkIsKnown'
  <2>1. CASE LoadExecution(c) \/ CommitApproval(c) \/ CommitRejection(c)
    <3>1. UNCHANGED engineVars
        BY <2>1 DEF LoadExecution, CommitApproval, CommitRejection
    <3> QED
        BY <2>1, <3>1, RowsKnow
  <2> QED
      BY <1>2, <2>1, LoopKnows, StoreKnows, ResumeKnows DEF Handler
<1>3. ASSUME NEW c \in Calls, NEW s \in Steps, Worker(c, s) \/ ResolveTicket(c, s)
      PROVE  WorkIsKnown'
  <2>1. CASE CreateApproval(c, s) \/ CreateTicket(c, s) \/ ResolveTicket(c, s)
    <3>1. UNCHANGED engineVars
        BY <2>1 DEF CreateApproval, CreateTicket, ResolveTicket
    <3> QED
        BY <2>1, <3>1, RowsKnow
  <2>2. CASE ~(CreateApproval(c, s) \/ CreateTicket(c, s) \/ ResolveTicket(c, s))
    <3>1. /\ req[c] = "execute" /\ UNCHANGED reviewVars
          /\ StartStep(c, s) \/ \E v \in RetValues : FinishStep(c, s, v)
        BY <1>3, <2>2 DEF Worker
    <3> QED
        BY <3>1, StepKnows
  <2> QED
      BY <2>1, <2>2
<1>4. ASSUME NEW c \in Calls, NEW d \in Calls, NEW s \in Steps, Decision(c, d, s)
      PROVE  WorkIsKnown'
  <2>1. UNCHANGED engineVars
      BY <1>4 DEF Decision, SelectApproval
  <2> QED
      BY <1>4, <2>1, RowsKnow
<1>5. CASE DeleteExecution \/ Crash
  <2>1. UNCHANGED engineVars
      BY <1>5 DEF DeleteExecution, Crash
  <2> QED
      BY <1>5, <2>1, RowsKnow
<1>6. CASE UNCHANGED vars
  <2>1. UNCHANGED <<execution, req, loaded, error_policy, ret, results, thread>>
      BY <1>6 DEF vars, engineVars, reviewVars, rowVars
  <2> QED
      BY <2>1 DEF WorkIsKnown, Achieved
<1> QED
    BY <1>1, <1>2, <1>3, <1>4, <1>5, <1>6 DEF Next

\* For every plan, every number of decisions, deletions and crashes: what a step
\* has achieved in one request is not done again by another, unless one of them
\* crashed or fail_fast may have thrown the result away.
THEOREM SuccessNotRepeatedHolds ==
    ASSUME Serial
    PROVE  Spec => []SuccessNotRepeated
<1>1. Init => WorkIsKnown
    BY DEF Init, WorkIsKnown, Achieved
<1>2. EngineInvariant /\ HandlerInvariant /\ WorkIsKnown /\ [Next]_vars => WorkIsKnown'
    BY NextKnows
<1>3. ASSUME EngineInvariant, HandlerInvariant, WorkIsKnown PROVE SuccessNotRepeated
  <2> SUFFICES ASSUME NEW c \in Calls, NEW d \in Calls, NEW s \in Steps,
                      c # d, req[c] # "crashed", req[d] # "crashed",
                      error_policy[c] # "fail_fast", error_policy[d] # "fail_fast",
                      thread[c][s] # "idle", thread[d][s] # "idle",
                      ret[c][s] \in Outcomes, ret[d][s] \in Outcomes
               PROVE  FALSE
      BY DEF SuccessNotRepeated
  <2>1. ASSUME NEW e \in Calls, thread[e][s] # "idle", req[e] # "crashed"
        PROVE  req[e] \in {"execute", "done"}
    <3>1. pc[e] # "idle"
        BY <1>3, <2>1 DEF EngineInvariant, LoopInvariant, IdleIsClean
    <3> QED
        BY <1>3, <2>1, <3>1 DEF HandlerInvariant, ReviewTypeOK, HandlerShape, Deciding, ReqValues
  <2>2. ASSUME NEW e \in Calls, req[e] = "done", error_policy[e] # "fail_fast", ret[e][s] \in Outcomes
        PROVE  s \in Achieved(e)
      BY <2>2 DEF Achieved
  <2>3. req[c] = "execute" => req[d] # "execute"
      BY <1>3 DEF HandlerInvariant, OneAtATime, Over
  <2> QED
      BY <1>3, <2>1, <2>2, <2>3 DEF WorkIsKnown
<1> QED
    BY <1>1, <1>2, <1>3, HandlerInvariantHolds, PTL DEF Spec


-----------------------------------------------------------------------------
(* A success has been reviewed, when of two reviews one depends on the other. *)

\* No row changes, nobody new gets past a decision and nothing becomes a success.
LEMMA OrderKept ==
    ASSUME OrderInvariant, approvals' = approvals,
           execution'.status = "success" => execution.status = "success",
           \A c \in Calls :
              /\ req'[c] \in {"approve_committed", "execute"} =>
                    req[c] \in {"approve_committed", "execute"}
              /\ req[c] \in Over => req'[c] \in Over
    PROVE  OrderInvariant'
<1> USE DEF OrderInvariant
<1>1. OneRowPerCall' /\ OnePending'
    BY DEF OneRowPerCall, OnePending
<1>2. RejectedIsEnd' /\ SuccessIsEnd'
    BY DEF RejectedIsEnd, SuccessIsEnd
<1> QED
    BY <1>1, <1>2

\* While a request is in progress nothing is rejected, and the row is no success.
LEMMA InProgress ==
    ASSUME OrderInvariant, NEW c \in Calls, req[c] \notin Over
    PROVE  /\ execution.status # "success"
           /\ \A d \in Calls, t \in Steps : approvals[d][t] # "rejected"
BY DEF OrderInvariant, RejectedIsEnd, SuccessIsEnd

\* A worker raises a row: it is the only one of its call, because the reviews of
\* one call would have to wait for each other, and the only one that is pending.
LEMMA ApprovalOrder ==
    ASSUME ReviewsInOrder, EngineInvariant, HandlerInvariant, OrderInvariant,
           NEW c \in Calls, NEW s \in Steps, req[c] = "execute", CreateApproval(c, s)
    PROVE  OrderInvariant'
<1> USE DEF HandlerInvariant, OrderInvariant
<1>1. PICK v \in {"pending", "lost"} : approvals' = [approvals EXCEPT ![c][s] = v]
    BY DEF CreateApproval
<1>2. /\ s \in Reviews /\ thread[c][s] = "running"
      /\ UNCHANGED <<execution, req>>
    BY DEF CreateApproval, Reviews
<1>3. /\ approvals'[c][s] = v
      /\ \A d \in Calls, t \in Steps : d # c \/ t # s => approvals'[d][t] = approvals[d][t]
    BY <1>1 DEF ReviewTypeOK
<1>4. \A t \in Steps : t # s => approvals[c][t] = "none"
  <2> SUFFICES ASSUME NEW t \in Steps, t # s, approvals[c][t] # "none" PROVE FALSE
      OBVIOUS
  <2>1. t \in Reviews /\ thread[c][t] # "idle"
      BY DEF RowsOfReviews
  <2>2. t \in DependsOn[s] \/ s \in DependsOn[t]
      BY <1>2, <2>1 DEF ReviewsInOrder
  <2> QED
      BY <1>2, <2>1, <2>2 DEF EngineInvariant, PauseInvariant, GateWithinCall
<1>5. \A d \in Calls : req[d] \notin Over => d = c
    BY DEF OneAtATime, Over
<1>6. \A d \in Calls, t \in Steps : approvals[d][t] = "pending" => d = c
    BY DEF OnePending
<1>7. OneRowPerCall'
    BY <1>3, <1>4 DEF OneRowPerCall
<1>8. OnePending'
  <2>1. \A d \in Calls, t \in Steps : approvals'[d][t] = "pending" => d = c /\ t = s
      BY <1>3, <1>4, <1>6
  <2> QED
      BY <1>2, <1>5, <2>1 DEF OnePending, Over
<1>9. RejectedIsEnd' /\ SuccessIsEnd'
  <2>1. req[c] \notin Over
      BY DEF Over
  <2>2. execution'.status # "success" /\ \A d \in Calls, t \in Steps : approvals'[d][t] # "rejected"
      BY <1>2, <1>3, <2>1, InProgress
  <2> QED
      BY <2>2 DEF RejectedIsEnd, SuccessIsEnd
<1> QED
    BY <1>7, <1>8, <1>9

\* A decision is committed: after it no row is pending.
LEMMA NothingLeftPending ==
    ASSUME HandlerInvariant, OrderInvariant, NEW c \in Calls, NEW v \in {"approved", "rejected"},
           req[c] \in {"reject_seen", "approve_loaded"}, DecideEffect(c, v)
    PROVE  /\ \A e \in Calls, q \in Steps : approvals'[e][q] # "pending"
           /\ \A e \in Calls, q \in Steps : approvals'[e][q] # "none" <=> approvals[e][q] # "none"
           /\ \A e \in Calls, q \in Steps :
                 approvals'[e][q] = "rejected" => v = "rejected" \/ approvals[e][q] = "rejected"
<1> USE DEF HandlerInvariant, OrderInvariant
<1>1. PICK d \in Calls, s \in Steps : d = target[c][1] /\ s = target[c][2]
    BY DEF DecideEffect
<1>2. /\ approvals[d][s] \in {"pending", "deleted"}
      /\ approvals'[d][s] = IF approvals[d][s] = "deleted" THEN "deleted" ELSE v
      /\ \A e \in Calls, t \in Steps : e # d \/ t # s => approvals'[e][t] = approvals[e][t]
    BY <1>1 DEF DecideEffect
<1>3. ASSUME NEW e \in Calls, NEW q \in Steps, approvals[e][q] = "pending"
      PROVE  e = d /\ q = s
  <2>1. approvals[d][s] = "pending"
      BY <1>2, <1>3 DEF DeletedTogether
  <2> QED
      BY <1>3, <2>1 DEF OnePending
<1> QED
    BY <1>2, <1>3

\* An approval is committed: nothing is pending, and nothing was rejected.
LEMMA CommitOrder ==
    ASSUME HandlerInvariant, OrderInvariant, NEW c \in Calls, CommitApproval(c)
    PROVE  OrderInvariant'
<1> USE DEF HandlerInvariant, OrderInvariant
<1>1. req[c] = "approve_loaded" /\ execution' = execution /\ DecideEffect(c, "approved")
    BY DecideRows DEF CommitApproval
<1>2. /\ \A e \in Calls, q \in Steps : approvals'[e][q] # "pending"
      /\ \A e \in Calls, q \in Steps : approvals'[e][q] # "none" <=> approvals[e][q] # "none"
      /\ \A e \in Calls, q \in Steps : approvals'[e][q] = "rejected" => approvals[e][q] = "rejected"
    BY <1>1, NothingLeftPending
<1>3. /\ execution.status # "success"
      /\ \A d \in Calls, t \in Steps : approvals[d][t] # "rejected"
    BY <1>1, InProgress DEF Over
<1> QED
    BY <1>1, <1>2, <1>3 DEF OneRowPerCall, OnePending, RejectedIsEnd, SuccessIsEnd

\* A rejection is committed: nothing is pending or in progress any more.
LEMMA RejectOrder ==
    ASSUME HandlerInvariant, OrderInvariant, NEW c \in Calls, CommitRejection(c)
    PROVE  OrderInvariant'
<1> USE DEF HandlerInvariant, OrderInvariant
<1>1. req[c] = "reject_seen" /\ req' = [req EXCEPT ![c] = "done"]
    BY DEF CommitRejection
<1>2. /\ req'[c] = "done"
      /\ \A d \in Calls : d # c => req'[d] = req[d] /\ req[d] \in Over
    BY <1>1 DEF ReviewTypeOK, OneAtATime, Over
<1>3. CASE UNCHANGED rowVars
    BY <1>1, <1>2, <1>3, OrderKept DEF rowVars, Over
<1>4. CASE ~UNCHANGED rowVars
  <2>1. /\ DecideEffect(c, "rejected")
        /\ execution'.status = IF execution.status = "deleted" THEN "deleted" ELSE "failed"
      BY <1>4, DecideRows DEF CommitRejection, ReviewTypeOK
  <2>2. /\ \A e \in Calls, q \in Steps : approvals'[e][q] # "pending"
        /\ \A e \in Calls, q \in Steps : approvals'[e][q] # "none" <=> approvals[e][q] # "none"
      BY <1>1, <2>1, NothingLeftPending
  <2>3. \A d \in Calls : req'[d] \in Over
      BY <1>2 DEF Over
  <2> QED
      BY <2>1, <2>2, <2>3 DEF OneRowPerCall, OnePending, RejectedIsEnd, SuccessIsEnd
<1> QED
    BY <1>3, <1>4

\* A call that is back without an error and without a pause has left no review
\* behind: the one it ran would have paused it.
LEMMA StoreOrder ==
    ASSUME EngineInvariant, HandlerInvariant, OrderInvariant, NEW c \in Calls, StoreOutcome(c)
    PROVE  OrderInvariant'
<1> USE DEF EngineInvariant, LoopInvariant, LedgerInvariant, PauseInvariant,
            HandlerInvariant, OrderInvariant
<1> DEFINE errs == failed[c] \cup skipped[c]
<1>1. /\ req[c] = "execute" /\ pc[c] = "returned" /\ req' = [req EXCEPT ![c] = "done"]
      /\ approvals' = approvals
      /\ \/ execution'.status = "deleted"
         \/ execution'.status = ExecStatus(results[c], errs, paused_at_step[c])
    BY DEF StoreOutcome
<1>2. \A d \in Calls : req'[d] \in Over
    BY <1>1 DEF OneAtATime, Over, ReviewTypeOK
<1>3. \A d \in Calls, t \in Steps : approvals[d][t] # "rejected"
    BY <1>1, InProgress DEF Over
<1>4. ASSUME NEW d \in Calls, NEW t \in Steps, approvals[d][t] = "pending"
      PROVE  execution'.status # "success"
  <2> SUFFICES ASSUME errs = {}, paused_at_step[c] = NoStep PROVE FALSE
      BY <1>1 DEF ExecStatus
  <2>1. d = c /\ t \in Reviews /\ thread[c][t] = "done"
      BY <1>1, <1>4 DEF OnePending, RowsOfReviews, QuietWhenReturned
  <2>2. ~abort[c]
      BY DEF AbortHasCause
  <2>3. t \notin futures[c]
      BY <1>1, <2>2 DEF DrainIsDry
  <2>4. ret[c][t] = "pending_human_review"
      BY <2>1, ReviewOutput DEF DoneIsHarvested
  <2>5. results[c][t] = "pending_human_review"
      BY <2>1, <2>2, <2>3, <2>4 DEF DoneIsHarvested, Outcomes
  <2>6. t \in completed[c]
      BY <2>5 DEF CompletedIsLedger, Keys, NoResult
  <2> QED
      BY <2>1, <2>6 DEF ReviewPauses
<1>5. OneRowPerCall' /\ OnePending'
    BY <1>1, <1>2 DEF OneRowPerCall, OnePending, Over
<1>6. RejectedIsEnd' /\ SuccessIsEnd'
    BY <1>1, <1>2, <1>3, <1>4 DEF RejectedIsEnd, SuccessIsEnd
<1> QED
    BY <1>5, <1>6

\* Before the run there are no rows.
LEMMA RunOrder ==
    ASSUME HandlerInvariant, orchestrations_run
    PROVE  OrderInvariant'
<1>1. execution'.status = "partial"
    BY DEF orchestrations_run, HandlerInvariant, ReviewTypeOK
<1>2. \A c \in Calls, s \in Steps : approvals'[c][s] = "none"
    BY DEF orchestrations_run, HandlerInvariant, BeforeTheRun
<1> QED
    BY <1>1, <1>2 DEF OrderInvariant, OneRowPerCall, OnePending, RejectedIsEnd, SuccessIsEnd

\* A deletion takes every row that is decided or pending with it.
LEMMA DeleteOrder ==
    ASSUME HandlerInvariant, OrderInvariant, DeleteExecution
    PROVE  OrderInvariant'
<1>1. execution'.status = "deleted"
    BY DEF DeleteExecution, HandlerInvariant, ReviewTypeOK
<1>2. \A c \in Calls, s \in Steps :
        /\ approvals'[c][s] \notin {"pending", "rejected"}
        /\ approvals'[c][s] # "none" <=> approvals[c][s] # "none"
    BY DEF DeleteExecution
<1> QED
    BY <1>1, <1>2 DEF OrderInvariant, OneRowPerCall, OnePending, RejectedIsEnd, SuccessIsEnd

\* A decision is taken up only if its row is pending, so after no rejection and
\* no success.
LEMMA SelectOrder ==
    ASSUME HandlerInvariant, OrderInvariant, NEW c \in Calls, NEW d \in Calls, NEW s \in Steps,
           Decision(c, d, s)
    PROVE  OrderInvariant'
<1> USE DEF OrderInvariant
<1>1. PICK v \in {"approve_seen", "reject_seen", "refused"} :
         /\ req' = [req EXCEPT ![c] = v]
         /\ v # "refused" => approvals[d][s] = "pending"
    BY DEF Decision, SelectApproval, Decidable
<1>2. UNCHANGED <<execution, approvals>>
    BY DEF Decision, SelectApproval, rowVars
<1>3. req'[c] = v /\ \A e \in Calls : e # c => req'[e] = req[e]
    BY <1>1 DEF HandlerInvariant, ReviewTypeOK
<1>4. OneRowPerCall' /\ OnePending'
    BY <1>2, <1>3 DEF OneRowPerCall, OnePending
<1>5. RejectedIsEnd' /\ SuccessIsEnd'
    BY <1>1, <1>2, <1>3 DEF RejectedIsEnd, SuccessIsEnd, Over
<1> QED
    BY <1>4, <1>5

\* Every action keeps the reviews in order.
LEMMA NextOrder ==
    ASSUME ReviewsInOrder, EngineInvariant, HandlerInvariant, OrderInvariant, [Next]_vars
    PROVE  OrderInvariant'
<1>1. ASSUME UNCHANGED <<execution, approvals, req>> PROVE OrderInvariant'
    BY <1>1, OrderKept
<1>2. ASSUME NEW c \in Calls, LoadExecution(c) \/ Resume(c) PROVE OrderInvariant'
  <2>1. /\ UNCHANGED <<execution, approvals>>
        /\ req[c] \in {"approve_seen", "approve_committed"}
        /\ \E v \in {"approve_loaded", "refused", "execute"} :
              /\ req' = [req EXCEPT ![c] = v]
              /\ v = "execute" => req[c] = "approve_committed"
      BY <1>2 DEF LoadExecution, Resume, rowVars
  <2> QED
      BY <2>1, OrderKept DEF HandlerInvariant, ReviewTypeOK, Over
<1>3. CASE Crash
  <2>1. /\ UNCHANGED <<execution, approvals>>
        /\ \A c \in Calls : req'[c] = IF req[c] \in Over THEN req[c] ELSE "crashed"
      BY <1>3 DEF Crash, rowVars
  <2> QED
      BY <2>1, OrderKept DEF Over
<1>4. ASSUME NEW c \in Calls, Handler(c) PROVE OrderInvariant'
  <2>1. CASE Loop(c)
      BY <1>1, <2>1 DEF Loop, reviewVars, rowVars
  <2> QED
      BY <1>2, <1>4, <2>1, StoreOrder, CommitOrder, RejectOrder DEF Handler
<1>5. ASSUME NEW c \in Calls, NEW s \in Steps, Worker(c, s) \/ ResolveTicket(c, s)
      PROVE  OrderInvariant'
  <2>1. CASE CreateApproval(c, s) /\ req[c] = "execute"
      BY <2>1, ApprovalOrder
  <2>2. CASE ~(CreateApproval(c, s) /\ req[c] = "execute")
    <3>1. UNCHANGED <<execution, approvals, req>>
        BY <1>5, <2>2 DEF Worker, CreateTicket, ResolveTicket, reviewVars, rowVars
    <3> QED
        BY <1>1, <3>1
  <2> QED
      BY <2>1, <2>2
<1>6. CASE UNCHANGED vars
    BY <1>1, <1>6 DEF vars, reviewVars, rowVars
<1> QED
    BY <1>3, <1>4, <1>5, <1>6, RunOrder, SelectOrder, DeleteOrder DEF Next

\* With reviewers who act one at a time, and reviews of which one depends on the
\* other: the reviews of an execution are raised and decided in order.
LEMMA OrderHolds ==
    ASSUME Serial, ReviewsInOrder
    PROVE  Spec => []OrderInvariant
<1>1. Init => OrderInvariant
    BY DEF Init, OrderInvariant, OneRowPerCall, OnePending, RejectedIsEnd, SuccessIsEnd
<1>2. EngineInvariant /\ HandlerInvariant /\ OrderInvariant /\ [Next]_vars => OrderInvariant'
    BY NextOrder
<1> QED
    BY <1>1, <1>2, HandlerInvariantHolds, PTL DEF Spec

\* For every plan in which of two reviews one depends on the other: no execution
\* stored as success has a review left undecided or rejected.
THEOREM SuccessIsReviewedHolds ==
    ASSUME Serial, ReviewsInOrder
    PROVE  Spec => []SuccessIsReviewed
<1>1. OrderInvariant => SuccessIsReviewed
    BY DEF OrderInvariant, SuccessIsEnd, SuccessIsReviewed, Reviews
<1> QED
    BY <1>1, OrderHolds, PTL


-----------------------------------------------------------------------------
(* Then nothing that depends on a review is submitted before it is approved. *)

\* Nothing is submitted, nobody goes further, no row becomes pending.
LEMMA GateKept ==
    ASSUME GateInvariant, UNCHANGED error_policy,
           \A r \in Reviews : Agreed(r) => Agreed(r)',
           \A r \in Reviews : execution'.results[r] = execution.results[r],
           \A d \in Calls, t \in Steps :
              /\ approvals'[d][t] = "pending" => approvals[d][t] = "pending"
              /\ thread[d][t] = "idle" <=> thread'[d][t] = "idle",
           \A c \in Calls :
              /\ req'[c] \in {"approve_loaded", "approve_committed"} =>
                    /\ req[c] \in {"approve_loaded", "approve_committed"}
                    /\ loaded'[c] = loaded[c] /\ target'[c] = target[c]
              /\ req'[c] = "execute" => req[c] = "execute" /\ completed'[c] = completed[c]
    PROVE  GateInvariant'
<1> USE DEF GateInvariant
<1>1. PolicyKept' /\ RestIsAgreed'
    BY DEF PolicyKept, RestIsAgreed, Reviews
<1>2. SeedsAreAgreed'
    BY DEF SeedsAreAgreed, Reviews
<1>3. ReviewGate'
  <2> SUFFICES ASSUME NEW c \in Calls, NEW s \in Steps, thread'[c][s] # "idle",
                      NEW r \in DependsOn[s] \cap Reviews
               PROVE  Agreed(r)'
      BY DEF ReviewGate, Agreed, Reviews
  <2>1. Agreed(r)
      BY DEF ReviewGate, Agreed
  <2> QED
      BY <2>1
<1> QED
    BY <1>1, <1>2, <1>3

\* An agreed review stays agreed, when no approved or deleted row is touched.
LEMMA AgreedStays ==
    ASSUME \A d \in Calls, t \in Steps :
              approvals[d][t] \in {"approved", "deleted"} =>
                  approvals'[d][t] \in {"approved", "deleted"}
    PROVE  \A r \in Reviews : Agreed(r) => Agreed(r)'
BY DEF Agreed, Reviews

\* The loop submits what depends on completed steps only, and the reviews among
\* these are agreed, or were run by the call itself, which has paused then.
LEMMA LoopGate ==
    ASSUME "dependent_fail" \notin Policies, EngineInvariant, HandlerInvariant, GateInvariant,
           NEW c \in Calls, Loop(c)
    PROVE  GateInvariant'
<1> USE DEF EngineInvariant, LoopInvariant, PauseInvariant, HandlerInvariant, GateInvariant
<1>1. req[c] = "execute" /\ LoopEffect(c) /\ UNCHANGED reviewVars
    BY EveryLoopEffect DEF Loop
<1>2. UNCHANGED <<execution, approvals, req, target, loaded>>
    BY <1>1 DEF reviewVars, rowVars
<1>3. error_policy[c] # "dependent_fail" /\ PolicyKept'
    BY <1>1 DEF PolicyKept, LoopEffect, CallsKeep
<1>4. \A r \in Reviews : Agreed(r)' <=> Agreed(r)
    BY <1>2 DEF Agreed
<1>5. RestIsAgreed'
    BY <1>2, <1>4 DEF RestIsAgreed, Reviews
<1>6. ASSUME NEW r \in Reviews, r \in completed'[c]
      PROVE  Agreed(r) \/ thread'[c][r] # "idle"
  <2>1. r \in Steps
      BY DEF Reviews
  <2>2. thread[c][r] # "idle" => thread'[c][r] # "idle"
      BY <1>1, <2>1 DEF LoopEffect, Submitted, Cancelled
  <2>3. r \in completed[c] \/ thread[c][r] # "idle"
      BY <1>1, <1>3, <1>6, <2>1 DEF LoopEffect
  <2> QED
      BY <1>1, <2>2, <2>3 DEF SeedsAreAgreed
<1>7. \A d \in Calls : req[d] = "execute" => d = c
    BY <1>1 DEF OneAtATime, Over
<1>8. SeedsAreAgreed'
    BY <1>2, <1>4, <1>6, <1>7 DEF SeedsAreAgreed, Reviews
<1>9. ReviewGate'
  <2> SUFFICES ASSUME NEW d \in Calls, NEW s \in Steps, thread'[d][s] # "idle",
                      NEW r \in DependsOn[s] \cap Reviews
               PROVE  Agreed(r)
      BY <1>2, <1>4 DEF ReviewGate, Agreed, Reviews
  <2>1. CASE thread[d][s] # "idle"
      BY <2>1 DEF ReviewGate, Agreed
  <2>2. CASE thread[d][s] = "idle"
    <3>1. d = c /\ Submitted(c, s)
        BY <1>1, <2>2 DEF LoopEffect, CallsKeep, Cancelled
    <3>2. r \in completed[c] /\ paused_at_step[c] = NoStep
        BY <1>3, <3>1 DEF Submitted
    <3>3. thread[c][r] = "idle"
        BY <3>2 DEF ReviewPauses
    <3> QED
        BY <1>1, <3>2, <3>3 DEF SeedsAreAgreed
  <2> QED
      BY <2>1, <2>2
<1> QED
    BY <1>3, <1>5, <1>8, <1>9

\* The row is overwritten: a review whose result the call has stored is agreed,
\* or it is the one the call ran, whose row is the pending one.
LEMMA StoreGate ==
    ASSUME EngineInvariant, HandlerInvariant, OrderInvariant, GateInvariant,
           NEW c \in Calls, StoreOutcome(c)
    PROVE  GateInvariant'
<1> USE DEF EngineInvariant, LoopInvariant, LedgerInvariant, PauseInvariant,
            HandlerInvariant, OrderInvariant, GateInvariant
<1>1. /\ req[c] = "execute" /\ req' = [req EXCEPT ![c] = "done"]
      /\ UNCHANGED <<approvals, error_policy, thread>>
      /\ execution' = execution \/ execution'.results = results[c]
    BY DEF StoreOutcome, engineVars
<1>2. \A r \in Reviews : Agreed(r)' <=> Agreed(r)
    BY <1>1 DEF Agreed
<1>3. PolicyKept' /\ ReviewGate'
    BY <1>1 DEF PolicyKept, ReviewGate
<1>4. SeedsAreAgreed'
  <2>1. \A d \in Calls : req'[d] \in Over
      BY <1>1 DEF OneAtATime, Over, ReviewTypeOK
  <2> QED
      BY <2>1 DEF SeedsAreAgreed, Over
<1>5. RestIsAgreed'
  <2> SUFFICES ASSUME NEW d \in Calls, NEW t \in Steps, approvals[d][t] = "pending",
                      NEW r \in Reviews, execution'.results[r] # NoResult
               PROVE  r = t \/ Agreed(r)
      BY <1>1, <1>2 DEF RestIsAgreed
  <2>1. CASE execution' = execution
      BY <2>1 DEF RestIsAgreed
  <2>2. CASE execution'.results = results[c]
    <3>1. d = c /\ r \in Steps
        BY <1>1 DEF OnePending, Reviews
    <3>2. r \in completed[c]
        BY <2>2, <3>1 DEF CompletedIsLedger, Keys
    <3>3. Agreed(r) \/ thread[c][r] # "idle"
        BY <1>1, <3>2 DEF SeedsAreAgreed
    <3>4. thread[c][r] # "idle" => r = t
        BY <3>1, <3>2 DEF ReviewPauses, RowsOfReviews, OneRowPerCall
    <3> QED
        BY <3>3, <3>4
  <2> QED
      BY <1>1, <2>1, <2>2
<1> QED
    BY <1>3, <1>4, <1>5

\* A decision reads the row: all it has results of is agreed, but for the review
\* it is about.
LEMMA LoadGate ==
    ASSUME HandlerInvariant, GateInvariant, NEW c \in Calls, LoadExecution(c)
    PROVE  GateInvariant'
<1> USE DEF HandlerInvariant, GateInvariant
<1>1. /\ req[c] = "approve_seen"
      /\ UNCHANGED <<execution, approvals, target, error_policy, thread, completed>>
      /\ \/ /\ execution.status # "deleted" /\ req' = [req EXCEPT ![c] = "approve_loaded"]
            /\ loaded' = [loaded EXCEPT ![c] = execution.results]
         \/ req' = [req EXCEPT ![c] = "refused"] /\ loaded' = loaded
    BY DEF LoadExecution, engineVars, rowVars
<1>2. \A r \in Reviews : Agreed(r)' <=> Agreed(r)
    BY <1>1 DEF Agreed
<1>3. PolicyKept' /\ ReviewGate' /\ RestIsAgreed'
    BY <1>1, <1>2 DEF PolicyKept, ReviewGate, RestIsAgreed
<1>4. \A d \in Calls : d # c => req'[d] = req[d] /\ loaded'[d] = loaded[d] /\ target'[d] = target[d]
    BY <1>1 DEF ReviewTypeOK
<1>5. CASE req' = [req EXCEPT ![c] = "approve_loaded"]
  <2>1. /\ req'[c] = "approve_loaded" /\ loaded'[c] = execution.results
        /\ execution.status # "deleted"
      BY <1>1, <1>5 DEF ReviewTypeOK
  <2>2. PICK d \in Calls, s \in Steps : d = target[c][1] /\ s = target[c][2]
      BY <1>1 DEF HandlerShape, Deciding
  <2>3. approvals[d][s] = "pending"
      BY <1>1, <2>1, <2>2 DEF RowsWait, DeletedTogether
  <2>4. \A r \in Reviews : execution.results[r] # NoResult => r = s \/ Agreed(r)
      BY <2>3 DEF RestIsAgreed
  <2> QED
      BY <1>1, <1>2, <1>3, <1>4, <2>1, <2>2, <2>4 DEF SeedsAreAgreed
<1>6. CASE req' = [req EXCEPT ![c] = "refused"]
  <2>1. req'[c] = "refused"
      BY <1>6 DEF ReviewTypeOK
  <2> QED
      BY <1>1, <1>2, <1>3, <1>4, <2>1 DEF SeedsAreAgreed
<1> QED
    BY <1>1, <1>5, <1>6

\* A resumption begins from what the decision has read, once its review is agreed.
LEMMA ResumeGate ==
    ASSUME EngineInvariant, HandlerInvariant, GateInvariant, NEW c \in Calls, Resume(c)
    PROVE  GateInvariant'
<1> USE DEF HandlerInvariant, GateInvariant
<1>1. PICK d \in Calls, s \in Steps : d = target[c][1] /\ s = target[c][2]
    BY DEF HandlerShape, Deciding, Resume
<1>2. /\ req[c] = "approve_committed" /\ req' = [req EXCEPT ![c] = "execute"]
      /\ completed' = [completed EXCEPT ![c] = Keys(ResumedResults(loaded[c], s))]
      /\ UNCHANGED <<execution, approvals, loaded, target, error_policy, thread>>
    BY <1>1 DEF Resume, Begin, poolVars
<1>3. \A r \in Reviews : Agreed(r)' <=> Agreed(r)
    BY <1>2 DEF Agreed
<1>4. PolicyKept' /\ ReviewGate' /\ RestIsAgreed'
    BY <1>2, <1>3 DEF PolicyKept, ReviewGate, RestIsAgreed
<1>5. approvals[d][s] \in {"approved", "deleted"}
    BY <1>1, <1>2 DEF RowsWait
<1>6. Agreed(s)
    BY <1>5 DEF Agreed
<1>7. ASSUME NEW r \in Reviews, loaded[c][r] # NoResult \/ execution.results[r] # NoResult
      PROVE  Agreed(r)
    BY <1>1, <1>2, <1>6, <1>7 DEF SeedsAreAgreed
<1>8. ASSUME NEW r \in Reviews, r \in completed'[c] PROVE Agreed(r)
  <2>1. r \in Keys(ResumedResults(loaded[c], s)) /\ r \in Steps
      BY <1>2, <1>8 DEF EngineInvariant, LoopInvariant, EngineTypeOK, Reviews
  <2>2. r = s \/ loaded[c][r] # NoResult
      BY <2>1, ResumedType DEF Keys, ReviewTypeOK
  <2> QED
      BY <1>6, <1>7, <2>2
<1>9. \A e \in Calls : req'[e] \notin Over => e = c
    BY <1>2 DEF OneAtATime, Over, ReviewTypeOK
<1>10. req'[c] = "execute"
    BY <1>2 DEF ReviewTypeOK
<1>11. SeedsAreAgreed'
    BY <1>2, <1>3, <1>7, <1>8, <1>9, <1>10 DEF SeedsAreAgreed, Over
<1> QED
    BY <1>4, <1>11

\* A worker raises a row: the execution goes on from agreed reviews only.
LEMMA RowGate ==
    ASSUME HandlerInvariant, GateInvariant, NEW c \in Calls, NEW s \in Steps,
           req[c] = "execute", CreateApproval(c, s)
    PROVE  GateInvariant'
<1> USE DEF HandlerInvariant, GateInvariant
<1>1. PICK v \in {"pending", "lost"} : approvals' = [approvals EXCEPT ![c][s] = v]
    BY DEF CreateApproval
<1>2. /\ approvals[c][s] = "none"
      /\ UNCHANGED <<execution, req, target, loaded, error_policy, thread, completed>>
    BY DEF CreateApproval, engineVars
<1>3. /\ approvals'[c][s] = v
      /\ \A d \in Calls, t \in Steps : d # c \/ t # s => approvals'[d][t] = approvals[d][t]
    BY <1>1 DEF ReviewTypeOK
<1>4. \A r \in Reviews : Agreed(r) => Agreed(r)'
  <2>1. \A d \in Calls, t \in Steps : approvals[d][t] \in {"approved", "deleted"} =>
           approvals'[d][t] \in {"approved", "deleted"}
      BY <1>2, <1>3
  <2> QED
      BY <2>1, AgreedStays
<1>5. RestIsAgreed'
  <2> SUFFICES ASSUME NEW d \in Calls, NEW t \in Steps, approvals'[d][t] = "pending",
                      NEW r \in Reviews, execution.results[r] # NoResult
               PROVE  r = t \/ Agreed(r)
      BY <1>2, <1>4 DEF RestIsAgreed
  <2>1. CASE d = c /\ t = s
      BY <1>2 DEF SeedsAreAgreed
  <2>2. CASE ~(d = c /\ t = s)
      BY <1>3, <2>2 DEF RestIsAgreed
  <2> QED
      BY <2>1, <2>2
<1>6. PolicyKept' /\ SeedsAreAgreed'
    BY <1>2, <1>4 DEF PolicyKept, SeedsAreAgreed
<1>7. ReviewGate'
  <2> SUFFICES ASSUME NEW d \in Calls, NEW t \in Steps, thread[d][t] # "idle",
                      NEW r \in DependsOn[t] \cap Reviews
               PROVE  Agreed(r)'
      BY <1>2 DEF ReviewGate, Agreed
  <2>1. Agreed(r)
      BY DEF ReviewGate, Agreed
  <2> QED
      BY <1>4, <2>1
<1> QED
    BY <1>5, <1>6, <1>7

\* The run begins with no results, and no rows.
LEMMA RunGate ==
    ASSUME EngineInvariant, HandlerInvariant, GateInvariant, orchestrations_run
    PROVE  GateInvariant'
<1> USE ReviewAssumption DEF HandlerInvariant, GateInvariant
<1>1. /\ req[RunCall] = "none" /\ req' = [req EXCEPT ![RunCall] = "execute"]
      /\ execution' = [execution EXCEPT !.status = "partial"]
      /\ completed' = [completed EXCEPT ![RunCall] = Keys(EmptyResults)]
      /\ UNCHANGED <<approvals, error_policy, thread>>
    BY DEF orchestrations_run, Begin, poolVars
<1>2. /\ execution'.results = EmptyResults /\ completed'[RunCall] = {}
      /\ \A c \in Calls : req[c] = "none" /\ \A s \in Steps : approvals[c][s] = "none"
    BY <1>1 DEF BeforeTheRun, ReviewTypeOK, Keys, EmptyResults, EngineInvariant, LoopInvariant,
       EngineTypeOK
<1>3. \A c \in Calls : req'[c] = IF c = RunCall THEN "execute" ELSE "none"
    BY <1>1, <1>2 DEF ReviewTypeOK
<1>4. PolicyKept' /\ ReviewGate' /\ RestIsAgreed'
    BY <1>1, <1>2 DEF PolicyKept, ReviewGate, RestIsAgreed
<1>5. SeedsAreAgreed'
    BY <1>2, <1>3 DEF SeedsAreAgreed, EmptyResults, Reviews
<1> QED
    BY <1>4, <1>5

\* A request that decides, a deletion or a crash takes nobody further.
LEMMA DecisionGate ==
    ASSUME HandlerInvariant, GateInvariant,
           \/ \E c \in Calls : CommitApproval(c) \/ CommitRejection(c)
           \/ \E c, d \in Calls, s \in Steps : Decision(c, d, s)
           \/ DeleteExecution
           \/ Crash
    PROVE  GateInvariant'
<1> USE DEF HandlerInvariant, ReviewTypeOK
<1>1. /\ UNCHANGED <<error_policy, thread, completed, loaded>>
      /\ \A r \in Reviews : execution'.results[r] = execution.results[r]
    BY DEF CommitApproval, CommitRejection, Decision, SelectApproval, DeleteExecution, Crash,
       engineVars, rowVars
<1>2. ASSUME NEW c \in Calls, CommitApproval(c) \/ CommitRejection(c)
      PROVE  /\ \A d \in Calls, t \in Steps :
                   /\ approvals'[d][t] = "pending" => approvals[d][t] = "pending"
                   /\ approvals[d][t] \in {"approved", "deleted"} =>
                         approvals'[d][t] \in {"approved", "deleted"}
             /\ target' = target
             /\ \A d \in Calls :
                   /\ req'[d] \in {"approve_loaded", "approve_committed"} =>
                         req[d] \in {"approve_loaded", "approve_committed"}
                   /\ req'[d] = "execute" => req[d] = "execute"
  <2>1. \/ req[c] = "approve_loaded" /\ req' = [req EXCEPT ![c] = "approve_committed"]
        \/ req' = [req EXCEPT ![c] = "done"]
      BY <1>2 DEF CommitApproval, CommitRejection
  <2>2. \/ approvals' = approvals
        \/ \E v \in {"approved", "rejected"} : DecideEffect(c, v)
      BY <1>2, DecideRows DEF CommitApproval, CommitRejection, rowVars
  <2>3. \A d \in Calls, t \in Steps :
           /\ approvals'[d][t] = "pending" => approvals[d][t] = "pending"
           /\ approvals[d][t] \in {"approved", "deleted"} =>
                 approvals'[d][t] \in {"approved", "deleted"}
    <3>1. CASE approvals' = approvals
        BY <3>1
    <3>2. ASSUME NEW v \in {"approved", "rejected"}, DecideEffect(c, v),
                 NEW d \in Calls, NEW t \in Steps
          PROVE  /\ approvals'[d][t] = "pending" => approvals[d][t] = "pending"
                 /\ approvals[d][t] \in {"approved", "deleted"} =>
                       approvals'[d][t] \in {"approved", "deleted"}
      <4>1. CASE d = target[c][1] /\ t = target[c][2]
          BY <3>2, <4>1 DEF DecideEffect
      <4>2. CASE ~(d = target[c][1] /\ t = target[c][2])
          BY <3>2, <4>2 DEF DecideEffect
      <4> QED
          BY <4>1, <4>2
    <3> QED
        BY <2>2, <3>1, <3>2
  <2>4. target' = target
      BY <1>2 DEF CommitApproval, CommitRejection
  <2> QED
      BY <2>1, <2>3, <2>4
<1>3. ASSUME NEW c \in Calls, NEW d \in Calls, NEW s \in Steps, Decision(c, d, s)
      PROVE  /\ approvals' = approvals
             /\ \A e \in Calls :
                   req'[e] \in {"approve_loaded", "approve_committed", "execute"} =>
                      req'[e] = req[e] /\ target'[e] = target[e]
    BY <1>3 DEF Decision, SelectApproval, rowVars
<1>4. CASE DeleteExecution \/ Crash
  <2>1. /\ \A d \in Calls, t \in Steps :
              /\ approvals'[d][t] = "pending" => approvals[d][t] = "pending"
              /\ approvals[d][t] \in {"approved", "deleted"} =>
                    approvals'[d][t] \in {"approved", "deleted"}
        /\ target' = target
        /\ \A d \in Calls : req'[d] = req[d] \/ req'[d] = "crashed"
      BY <1>4 DEF DeleteExecution, Crash, rowVars
  <2> QED
      BY <1>1, <2>1, AgreedStays, GateKept
<1> QED
  <2>1. CASE \E c \in Calls : CommitApproval(c) \/ CommitRejection(c)
      BY <1>1, <1>2, <2>1, AgreedStays, GateKept
  <2>2. CASE \E c, d \in Calls, s \in Steps : Decision(c, d, s)
      BY <1>1, <1>3, <2>2, AgreedStays, GateKept
  <2> QED
      BY <1>4, <2>1, <2>2

\* Tickets are raised and resolved, workers start and end steps: nobody has gone
\* further, and nothing has been submitted.
LEMMA QuietGate ==
    ASSUME EngineInvariant, HandlerInvariant, GateInvariant,
           \/ \E c \in Calls, s \in Steps :
                 \/ Worker(c, s) /\ ~CreateApproval(c, s)
                 \/ ResolveTicket(c, s)
           \/ UNCHANGED vars
    PROVE  GateInvariant'
<1>1. /\ UNCHANGED <<execution, approvals, req, target, loaded>>
      /\ UNCHANGED <<error_policy, completed>>
    BY DEF Worker, CreateTicket, ResolveTicket, StartStep, FinishStep, vars, engineVars, loopVars,
       reviewVars, rowVars
<1>2. \A d \in Calls, t \in Steps : thread[d][t] = "idle" <=> thread'[d][t] = "idle"
  <2>1. CASE UNCHANGED engineVars
      BY <2>1 DEF engineVars
  <2>2. CASE ~UNCHANGED engineVars
    <3>1. PICK c \in Calls, s \in Steps :
             StartStep(c, s) \/ \E v \in RetValues : FinishStep(c, s, v)
        BY <2>2 DEF Worker, CreateTicket, ResolveTicket, vars
    <3>2. WorkerEffect(c, s)
        BY <3>1, EveryWorkerEffect DEF EngineInvariant
    <3> QED
        BY <3>2 DEF WorkerEffect, CallsKeep
  <2> QED
      BY <2>1, <2>2
<1>3. \A r \in Reviews : Agreed(r) => Agreed(r)'
    BY <1>1 DEF Agreed
<1> QED
    BY <1>1, <1>2, <1>3, GateKept

\* Every action keeps the gate closed.
LEMMA NextGate ==
    ASSUME "dependent_fail" \notin Policies, EngineInvariant, HandlerInvariant, OrderInvariant,
           GateInvariant, [Next]_vars
    PROVE  GateInvariant'
<1>1. ASSUME NEW c \in Calls, Handler(c) PROVE GateInvariant'
    BY <1>1, LoopGate, StoreGate, LoadGate, ResumeGate, DecisionGate DEF Handler
<1>2. ASSUME NEW c \in Calls, NEW s \in Steps, Worker(c, s) \/ ResolveTicket(c, s)
      PROVE  GateInvariant'
  <2>1. CASE CreateApproval(c, s) /\ req[c] = "execute"
      BY <2>1, RowGate
  <2>2. CASE ~(CreateApproval(c, s) /\ req[c] = "execute")
    <3>1. (Worker(c, s) /\ ~CreateApproval(c, s)) \/ ResolveTicket(c, s)
        BY <1>2, <2>2 DEF Worker
    <3> QED
        BY <3>1, QuietGate
  <2> QED
      BY <2>1, <2>2
<1> QED
    BY <1>1, <1>2, RunGate, DecisionGate, QuietGate DEF Next

\* For every plan in which of two reviews one depends on the other, run under any
\* policy but dependent_fail: no step that depends on a review is submitted, by
\* the run or by any resumption, before a reviewer has approved it.
THEOREM ReviewGateHolds ==
    ASSUME Serial, ReviewsInOrder, "dependent_fail" \notin Policies
    PROVE  Spec => []ReviewGate
<1>1. Init => GateInvariant
    BY DEF Init, EngineInit, GateInvariant, PolicyKept, SeedsAreAgreed, RestIsAgreed, ReviewGate
<1>2. EngineInvariant /\ HandlerInvariant /\ OrderInvariant /\ GateInvariant /\ [Next]_vars
         => GateInvariant'
    BY NextGate
<1>3. GateInvariant => ReviewGate
    BY DEF GateInvariant
<1> QED
    BY <1>1, <1>2, <1>3, HandlerInvariantHolds, OrderHolds, PTL DEF Spec

=============================================================================
