----------------------------- MODULE HumanReview -----------------------------
(***************************************************************************)
(* One execution of a plan from POST /v1/orchestrations/run to the end of  *)
(* its human reviews: the handlers of orchestration/services/main.py that  *)
(* run, approve, reject and delete it, the review executor that raises     *)
(* approvals and tickets, and the rows they share in the database.         *)
(*                                                                         *)
(* A call of PlanEngine is here a request: RunCall is the POST that        *)
(* starts the execution, every other one a reviewer's decision, which      *)
(* resumes the plan if it approves.  Each action is one database           *)
(* transaction, or one SELECT whose result the handler keeps in memory.    *)
(***************************************************************************)
EXTENDS PlanEngine

CONSTANTS
    RunCall,        \* the request that starts the execution
    Serial,         \* do reviewers act one at a time, on a run that is back?
    DeskSteps,      \* the steps whose tickets somebody opens or resolves by hand
    MaxFaults       \* bound on faults: refused best-effort writes and crashes

ASSUME ReviewAssumption ==
    /\ RunCall \in Calls
    /\ DeskSteps \subseteq Steps
    /\ Serial \in BOOLEAN
    /\ MaxFaults \in Nat

VARIABLES
    execution,  \* the orchestration.executions row: status, results, errors
    approvals,  \* [Calls -> [Steps -> ApprovalValues]]: the row raised by a step of a call
    tickets,    \* [Calls -> [Steps -> TicketValues]]
    req,        \* [Calls -> ReqValues]: where the request's handler is
    target,     \* [Calls -> Calls \X Steps]: the approval a decision is about
    loaded,     \* [Calls -> [Steps -> ResultValues]]: results the handler has read
    faults      \* how many faults there have been

rowVars    == <<execution, approvals, tickets>>
reviewVars == <<rowVars, req, target, loaded, faults>>
vars       == <<engineVars, reviewVars>>

StatusValues   == {"absent", "partial", "success", "failed", "paused", "deleted"}
\* "lost": the INSERT was refused, and the step went on without the row.
ApprovalValues == {"none", "lost", "pending", "approved", "rejected", "deleted"}
TicketValues   == {"none", "lost", "OPEN", "RESOLVED"}
ReqValues      == {"none", "approve_seen", "reject_seen", "approve_loaded",
                   "approve_committed", "execute", "done", "refused", "crashed"}

Over == {"none", "done", "refused", "crashed"}

NoTarget == <<RunCall, NoStep>>

\* The requests of one execution run one plan: its error policy stays the same.
Init ==
    /\ EngineInit
    /\ \A c \in Calls : error_policy[c] = error_policy[RunCall]
    /\ execution   = [status |-> "absent", results |-> EmptyResults, errors |-> {}]
    /\ approvals   = [c \in Calls |-> [s \in Steps |-> "none"]]
    /\ tickets     = [c \in Calls |-> [s \in Steps |-> "none"]]
    /\ req         = [c \in Calls |-> "none"]
    /\ target      = [c \in Calls |-> NoTarget]
    /\ loaded      = [c \in Calls |-> EmptyResults]
    /\ faults      = 0

-----------------------------------------------------------------------------
\* The environment lets something go wrong.
Fault == faults < MaxFaults /\ faults' = faults + 1

(* POST /v1/orchestrations/run *)

\* The plan is found, the row is committed as 'partial', and the engine starts.
orchestrations_run ==
    /\ req[RunCall] = "none"
    /\ execution' = [execution EXCEPT !.status = "partial"]
    /\ req'       = [req EXCEPT ![RunCall] = "execute"]
    /\ Begin(RunCall, EmptyResults)
    /\ UNCHANGED <<approvals, tickets, target, loaded, faults>>

\* The engine is back: the handler overwrites results, errors and status of the
\* row, whatever became of it in the meantime.  run and resume do the same.
StoreOutcome(c) ==
    LET errs == failed[c] \cup skipped[c]
    IN  /\ req[c] = "execute"
        /\ pc[c] = "returned"
        /\ execution' =
              IF execution.status = "deleted" THEN execution
              ELSE [status  |-> ExecStatus(results[c], errs, paused_at_step[c]),
                    results |-> results[c],
                    errors  |-> StoredErrors(results[c], errs, paused_at_step[c])]
        /\ req' = [req EXCEPT ![c] = "done"]
        /\ UNCHANGED <<engineVars, approvals, tickets, target, loaded, faults>>

-----------------------------------------------------------------------------
(* HumanReviewExecutor.execute, on a worker of the call's pool *)

\* The approval row is committed as 'pending' while the run is still going on.
\* The INSERT is refused when the execution has been deleted (foreign key).
CreateApproval(c, s) ==
    /\ thread[c][s] = "running"
    /\ Kind[s] = "human_review"
    /\ approvals[c][s] = "none"
    /\ tickets[c][s] = "none"
    /\ \/ /\ execution.status # "deleted"
          /\ approvals' = [approvals EXCEPT ![c][s] = "pending"]
          /\ UNCHANGED faults
       \/ /\ (execution.status = "deleted" /\ UNCHANGED faults) \/ Fault
          /\ approvals' = [approvals EXCEPT ![c][s] = "lost"]
    /\ UNCHANGED <<engineVars, execution, tickets, req, target, loaded>>

\* Then Slack is told, and an OPEN ticket is committed, best effort.  An INSERT
\* refused before leaves the transaction aborted, and this one fails with it.
CreateTicket(c, s) ==
    /\ thread[c][s] = "running"
    /\ Kind[s] = "human_review" => approvals[c][s] # "none"
    /\ Kind[s] # "task"
    /\ tickets[c][s] = "none"
    /\ \/ /\ approvals[c][s] # "lost"
          /\ tickets' = [tickets EXCEPT ![c][s] = "OPEN"]
          /\ UNCHANGED faults
       \/ /\ (approvals[c][s] = "lost" /\ UNCHANGED faults) \/ Fault
          /\ tickets' = [tickets EXCEPT ![c][s] = "lost"]
    /\ UNCHANGED <<engineVars, execution, approvals, req, target, loaded>>

\* A worker's step; a review step returns only once its ticket was attempted.
Worker(c, s) ==
    /\ req[c] = "execute"
    /\ \/ CreateApproval(c, s)
       \/ CreateTicket(c, s)
       \/ /\ StartStep(c, s)
          /\ UNCHANGED reviewVars
       \/ /\ Kind[s] # "task" => tickets[c][s] # "none"
          /\ \E v \in RetValues : FinishStep(c, s, v)
          /\ UNCHANGED reviewVars

Loop(c) ==
    /\ req[c] = "execute"
    /\ EngineLoop(c)
    /\ UNCHANGED reviewVars

-----------------------------------------------------------------------------
(* POST /v1/human-review-approvals/{id}/approve and .../reject *)

\* Requests are alike: a decision takes any one that is unused.
Unused    == {c \in Calls \ {RunCall} : req[c] = "none"}
FreshCall == CHOOSE c \in Unused : TRUE

Decidable(d, s) == approvals[d][s] = "pending"

\* Both handlers first SELECT the approval and go on only if it is pending.
SelectApproval(c, d, s, next) ==
    /\ Unused # {}
    /\ c = FreshCall
    /\ Serial => \A e \in Calls : req[e] \in Over
    /\ approvals[d][s] \notin {"none", "lost", "deleted"}
    /\ req'    = [req EXCEPT ![c] = IF Decidable(d, s) THEN next ELSE "refused"]
    /\ target' = [target EXCEPT ![c] = <<d, s>>]
    /\ UNCHANGED <<engineVars, rowVars, loaded, faults>>

\* approve: SELECT the execution and load the plan by name; 404 without either.
\* The plan may have been deactivated at any time.
LoadExecution(c) ==
    /\ req[c] = "approve_seen"
    /\ \/ /\ execution.status # "deleted"
          /\ req'    = [req EXCEPT ![c] = "approve_loaded"]
          /\ loaded' = [loaded EXCEPT ![c] = execution.results]
       \/ /\ req' = [req EXCEPT ![c] = "refused"]
          /\ UNCHANGED loaded
    /\ UNCHANGED <<engineVars, rowVars, target, faults>>

\* The status of an approval row, overwritten; a deleted row stays deleted.
Decide(d, s, decision) ==
    approvals' = [approvals EXCEPT ![d][s] = IF @ = "deleted" THEN @ ELSE decision]

\* The ticket of a review, if it is open, is resolved with the decision.
ResolvedTicket(t) == IF t = "OPEN" THEN "RESOLVED" ELSE t

\* approve: the decision is committed, without looking at the row's status again.
CommitApproval(c) ==
    /\ req[c] = "approve_loaded"
    /\ Decide(target[c][1], target[c][2], "approved")
    /\ req' = [req EXCEPT ![c] = "approve_committed"]
    /\ UNCHANGED <<engineVars, execution, tickets, target, loaded, faults>>

\* Mutant: the resumption knows of the decision only.
DecisionAlone(res, s) == [EmptyResults EXCEPT ![s] = "approved"]

\* resumed_results: what was read, with the status of this review overwritten.
ResumedResults(res, s) == [res EXCEPT ![s] = "approved"]

\* approve: the ticket is resolved, best effort, and the plan is resumed from the
\* results read before.
Resume(c) ==
    LET d == target[c][1]
        s == target[c][2]
    IN  /\ req[c] = "approve_committed"
        /\ \/ /\ tickets' = [tickets EXCEPT ![d][s] = ResolvedTicket(@)]
              /\ UNCHANGED faults
           \/ Fault /\ UNCHANGED tickets
        /\ Begin(c, ResumedResults(loaded[c], s))
        /\ req' = [req EXCEPT ![c] = "execute"]
        /\ UNCHANGED <<execution, approvals, target, loaded>>

\* reject: approval, execution and ticket in one transaction.  A ticket UPDATE
\* that fails rolls the other two back, and the handler answers as before.
CommitRejection(c) ==
    LET d == target[c][1]
        s == target[c][2]
    IN  /\ req[c] = "reject_seen"
        /\ \/ /\ Decide(d, s, "rejected")
              /\ execution' = IF execution.status = "deleted" THEN execution
                              ELSE [execution EXCEPT !.status = "failed",
                                                     !.errors = @ \cup {s}]
              /\ tickets' = [tickets EXCEPT ![d][s] = ResolvedTicket(@)]
              /\ UNCHANGED faults
           \/ Fault /\ UNCHANGED rowVars
        /\ req' = [req EXCEPT ![c] = "done"]
        /\ UNCHANGED <<engineVars, target, loaded>>

-----------------------------------------------------------------------------
(* The other handlers that touch these rows, and crashes *)

\* GET of a ticket older than 30 s, or POST .../resolve on it: an OPEN ticket of
\* any type becomes RESOLVED.
ResolveTicket(c, s) ==
    /\ s \in DeskSteps
    /\ tickets[c][s] = "OPEN"
    /\ tickets' = [tickets EXCEPT ![c][s] = "RESOLVED"]
    /\ UNCHANGED <<engineVars, execution, approvals, req, target, loaded, faults>>

\* DELETE of the execution; its approvals go with it, its tickets stay.
DeleteExecution ==
    /\ execution.status \notin {"absent", "deleted"}
    /\ execution' = [execution EXCEPT !.status = "deleted"]
    /\ approvals' = [c \in Calls |-> [s \in Steps |->
                        IF approvals[c][s] \in {"pending", "approved", "rejected"}
                        THEN "deleted" ELSE approvals[c][s]]]
    /\ UNCHANGED <<engineVars, tickets, req, target, loaded, faults>>

\* The service dies: every request in progress is lost, the rows stay.
Crash ==
    /\ Fault
    /\ \E c \in Calls : req[c] \notin Over
    /\ req' = [c \in Calls |-> IF req[c] \in Over THEN req[c] ELSE "crashed"]
    /\ UNCHANGED <<engineVars, rowVars, target, loaded>>

-----------------------------------------------------------------------------

\* What a request does once it has begun, by itself.
Handler(c) ==
    \/ Loop(c)
    \/ StoreOutcome(c)
    \/ LoadExecution(c)
    \/ CommitApproval(c)
    \/ Resume(c)
    \/ CommitRejection(c)

Decision(c, d, s) ==
    \/ SelectApproval(c, d, s, "approve_seen")
    \/ SelectApproval(c, d, s, "reject_seen")

Next ==
    \/ orchestrations_run
    \/ \E c \in Calls : Handler(c)
    \/ \E c \in Calls, s \in Steps : Worker(c, s) \/ ResolveTicket(c, s)
    \/ \E c, d \in Calls, s \in Steps : Decision(c, d, s)
    \/ DeleteExecution
    \/ Crash

Spec == Init /\ [][Next]_vars

-----------------------------------------------------------------------------
(* Properties. *)

Reviews == {s \in Steps : Kind[s] = "human_review"}

\* "The plan genuinely pauses until someone approves it": no step that depends on
\* a human review is submitted, by the run or by any resumption, before a
\* reviewer has approved that review.  (A row deleted since had been decided.)
ReviewGate ==
    \A c \in Calls, s \in Steps : thread[c][s] # "idle" =>
        \A r \in DependsOn[s] \cap Reviews :
            \E d \in Calls : approvals[d][r] \in {"approved", "deleted"}

\* A paused execution can always be moved on: when no request is in progress,
\* none has crashed and no approval row was refused, one of the reviews the row
\* shows as pending has a pending approval a reviewer can decide.
PausedIsDecidable ==
    /\ execution.status = "paused"
    /\ \A c \in Calls : req[c] \in Over \ {"crashed"}
    /\ \A c \in Calls, s \in Steps : approvals[c][s] # "lost"
    => \E c \in Calls, s \in Reviews :
           approvals[c][s] = "pending" /\ execution.results[s] = "pending_human_review"

\* Work is not done twice: a step that has succeeded in one request of an
\* execution is not submitted by a later one, as long as the service did not
\* crash and fail_fast did not throw the result away.
SuccessNotRepeated ==
    \A c, d \in Calls, s \in Steps :
        /\ c # d /\ req[c] # "crashed" /\ req[d] # "crashed"
        /\ error_policy[c] # "fail_fast" /\ error_policy[d] # "fail_fast"
        /\ thread[c][s] # "idle" /\ thread[d][s] # "idle"
        => ret[c][s] \notin Outcomes \/ ret[d][s] \notin Outcomes

\* A success is one the reviewers agreed to: an execution stored as success by
\* requests that are over has no review left undecided or rejected.
SuccessIsReviewed ==
    /\ execution.status = "success"
    /\ \A c \in Calls : req[c] \in Over
    => \A c \in Calls, s \in Reviews :
           approvals[c][s] \notin {"pending", "rejected"}

\* "Seeding it with the results/completed steps it already had at pause time so
\* nothing re-runs": a step that a stored request has completed, whether with a
\* result or with an error, is not submitted again by a resumption.
NothingReruns ==
    \A c, d \in Calls, s \in Steps :
        c # d /\ req[c] = "done" /\ req[d] = "execute" /\ s \in completed[c] =>
            thread[d][s] = "idle"

=============================================================================
