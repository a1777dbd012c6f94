------------------------------ MODULE AgentTask ------------------------------
(***************************************************************************)
(* agent_task steps: AgentRuntime.run with its budgets and its approval    *)
(* gate (orchestration/services/agent/), the executor that records a run,  *)
(* and the two handlers of main.py that decide a requested action.         *)
(*                                                                         *)
(* The language model is the environment: it may answer anything, for ever.*)
(* Costs are counted in units of 0.001 USD, the price of one model call.   *)
(***************************************************************************)
EXTENDS Naturals, FiniteSets

CONSTANTS
    Runs,                   \* the agent_task steps of one execution
    Tools,                  \* tool names the model may come up with
    Registered,             \* those the tool registry has
    AllowedTools,           \* config.allowed_tools
    ReadOnlyTools,          \* _READ_ONLY_TOOLS
    MutatingTools,          \* _MUTATING_TOOLS and tools of a mutating action_type
    ApprovalMode,           \* config.approval_policy.mode
    RequireApprovalFor,     \* config.approval_policy.require_approval_for
    ToolCost,               \* [Tools -> Nat]: the cost_usd a tool reports
    MaxIterations,          \* [Runs -> Nat]: config.budgets of each step
    MaxModelCalls,          \* [Runs -> Nat]
    MaxToolCalls,           \* [Runs -> Nat]
    MaxCost,                \* [Runs -> Nat]
    OnBudgetExceeded,       \* config.fallback_policy, "fail" or "human_review"
    OnOutputInvalid,
    DecideAfterStore        \* do reviewers wait until the execution is stored?

\* _call_model: one attempt and max_retries = 3 more.
MaxAttempts == 4

ModelCost == 1

ASSUME AgentAssumption ==
    /\ IsFiniteSet(Runs)
    /\ Registered \subseteq Tools /\ AllowedTools \subseteq Tools
    /\ ReadOnlyTools \subseteq Tools /\ MutatingTools \subseteq Tools
    /\ RequireApprovalFor \subseteq Tools
    /\ ApprovalMode \in {"none", "auto_for_read_only", "required_for_all_actions"}
    /\ ToolCost \in [Tools -> Nat]
    /\ OnBudgetExceeded \in {"fail", "human_review"}
    /\ OnOutputInvalid \in {"fail", "human_review"}
    /\ DecideAfterStore \in BOOLEAN

ASSUME BudgetAssumption ==
    /\ MaxIterations \in [Runs -> Nat] /\ MaxModelCalls \in [Runs -> Nat]
    /\ MaxToolCalls \in [Runs -> Nat] /\ MaxCost \in [Runs -> Nat]

VARIABLES
    apc,                \* [Runs -> ApcValues]: where AgentRuntime.run is
    iterations_used,    \* [Runs -> Nat], and so on: AgentBudgetManager
    model_calls_used,
    tool_calls_used,
    cost_used,
    attempt,            \* [Runs -> Nat]: HTTP attempts of the current model call
    requests,           \* [Runs -> Nat]: HTTP requests sent to the model, in all
    tools_run,          \* [Runs -> SUBSET Tools]: tools that were executed
    calls_made,         \* [Runs -> Nat]: how many executions of tools
    status,             \* [Runs -> StatusValues]: AgentRunResult.status
    run_row,            \* [Runs -> RowValues]: orchestration.agent_task_runs
    approval,           \* [Runs -> ApprovalValues]: agent_task_approvals
    failing,            \* SUBSET Runs: rejections about to fail the execution
    exec_status,        \* status of the execution row
    stored              \* has the run's final UPDATE of it happened?

budgetVars == <<iterations_used, model_calls_used, tool_calls_used, cost_used>>
callVars   == <<attempt, requests, tools_run, calls_made>>
dbVars     == <<run_row, approval, failing, exec_status, stored>>
agentVars  == <<apc, budgetVars, callVars, status, dbVars>>

ApcValues      == {"idle", "iterate", "model", "returned", "recorded"}
FailedStatuses == {"failed", "budget_exceeded", "output_invalid"}
StatusValues   == {"unset", "success", "needs_approval", "needs_human_review"}
                     \cup FailedStatuses
RowValues      == {"no_row", "running"} \cup (StatusValues \ {"unset"})
ApprovalValues == {"none", "lost", "pending", "approved", "rejected"}

Zero == [r \in Runs |-> 0]

AgentInit ==
    /\ apc = [r \in Runs |-> "idle"]
    /\ iterations_used = Zero /\ model_calls_used = Zero
    /\ tool_calls_used = Zero /\ cost_used = Zero
    /\ attempt = Zero /\ requests = Zero
    /\ tools_run = [r \in Runs |-> {}]
    /\ calls_made = Zero
    /\ status   = [r \in Runs |-> "unset"]
    /\ run_row  = [r \in Runs |-> "no_row"]
    /\ approval = [r \in Runs |-> "none"]
    /\ failing  = {}
    /\ exec_status = "partial"
    /\ stored = FALSE

-----------------------------------------------------------------------------
(* Pure decisions. *)

\* Mutant: only the tools the policy lists need approval.
ListedNeedApproval(t) == t \in RequireApprovalFor \ ReadOnlyTools

requires_approval(t) ==
    CASE ApprovalMode = "none"                     -> FALSE
      [] ApprovalMode = "required_for_all_actions" -> TRUE
      [] OTHER -> t \notin ReadOnlyTools /\ t \in MutatingTools \cup RequireApprovalFor

BudgetStatus ==
    IF OnBudgetExceeded = "human_review" THEN "needs_human_review" ELSE "budget_exceeded"

InvalidStatus ==
    IF OnOutputInvalid = "human_review" THEN "needs_human_review" ELSE "output_invalid"

\* What the executor tells the engine: an answer that needs a person is no error.
StepFailed(st) == st \in FailedStatuses

-----------------------------------------------------------------------------
(* AgentTaskExecutor.execute and AgentRuntime.run *)

\* The row is inserted as 'running', best effort, and the runtime starts.
StartRun(r) ==
    /\ apc[r] = "idle"
    /\ apc' = [apc EXCEPT ![r] = "iterate"]
    /\ \E row \in {"running", "no_row"} : run_row' = [run_row EXCEPT ![r] = row]
    /\ UNCHANGED <<budgetVars, callVars, status, approval, failing, exec_status, stored>>

\* The step's bindings are no valid AgentTaskConfig: it fails with no run at all.
InvalidConfig(r) ==
    /\ apc[r] = "idle"
    /\ apc'    = [apc EXCEPT ![r] = "recorded"]
    /\ status' = [status EXCEPT ![r] = "failed"]
    /\ UNCHANGED <<budgetVars, callVars, dbVars>>

\* The runtime returns with a status.
Finish(r, st) ==
    /\ apc'    = [apc EXCEPT ![r] = "returned"]
    /\ status' = [status EXCEPT ![r] = st]

\* check_before_iteration counts first and raises over the limit, or when the
\* run has taken too long, which may be the case at any iteration.
IterationRefused(r) ==
    /\ apc[r] = "iterate"
    /\ iterations_used' = [iterations_used EXCEPT ![r] = @ + 1]
    /\ Finish(r, BudgetStatus)
    /\ UNCHANGED <<model_calls_used, tool_calls_used, cost_used, callVars, dbVars>>

\* The iteration is let through and building the model's state raises.
StateFails(r) ==
    /\ apc[r] = "iterate"
    /\ iterations_used[r] + 1 <= MaxIterations[r]
    /\ iterations_used' = [iterations_used EXCEPT ![r] = @ + 1]
    /\ Finish(r, "failed")
    /\ UNCHANGED <<model_calls_used, tool_calls_used, cost_used, callVars, dbVars>>

\* Mutant: the limit is off by one.
ModelBudgetOffByOne(r) ==
    model_calls_used[r] > MaxModelCalls[r] \/ cost_used[r] + ModelCost > MaxCost[r]

\* check_before_model_call, once it has counted the call.
ModelBudgetExceeded(r) ==
    model_calls_used[r] + 1 > MaxModelCalls[r] \/ cost_used[r] + ModelCost > MaxCost[r]

\* The iteration is let through; check_before_model_call counts, then raises
\* over its limit or when the estimated cost does not fit any more.
Iterate(r) ==
    /\ apc[r] = "iterate"
    /\ iterations_used[r] + 1 <= MaxIterations[r]
    /\ iterations_used'  = [iterations_used EXCEPT ![r] = @ + 1]
    /\ model_calls_used' = [model_calls_used EXCEPT ![r] = @ + 1]
    /\ IF ModelBudgetExceeded(r)
       THEN Finish(r, BudgetStatus)
       ELSE apc' = [apc EXCEPT ![r] = "model"] /\ UNCHANGED status
    /\ attempt' = [attempt EXCEPT ![r] = 0]
    /\ UNCHANGED <<tool_calls_used, cost_used, requests, tools_run, calls_made, dbVars>>

\* _call_model gets a 429 it is willing to wait for, and tries again.
RateLimited(r) ==
    /\ apc[r] = "model"
    /\ attempt[r] + 1 < MaxAttempts
    /\ attempt'  = [attempt EXCEPT ![r] = @ + 1]
    /\ requests' = [requests EXCEPT ![r] = @ + 1]
    /\ UNCHANGED <<apc, budgetVars, tools_run, calls_made, status, dbVars>>

\* The call fails: no API key, the last 429, too long a wait, another error, no
\* JSON.  Only without a key was nothing sent.
ModelCallFails(r) ==
    /\ apc[r] = "model"
    /\ \E sent \in {0, 1} : requests' = [requests EXCEPT ![r] = @ + sent]
    /\ Finish(r, "failed")
    /\ UNCHANGED <<budgetVars, attempt, tools_run, calls_made, dbVars>>

\* The model has answered: one more request, and its cost is recorded.
Answered(r) ==
    /\ apc[r] = "model"
    /\ requests' = [requests EXCEPT ![r] = @ + 1]
    /\ UNCHANGED attempt

\* The answer is paid for and fails the run.
FailAnswered(r) ==
    /\ Answered(r)
    /\ cost_used' = [cost_used EXCEPT ![r] = @ + ModelCost]
    /\ Finish(r, "failed")
    /\ UNCHANGED <<iterations_used, model_calls_used, tool_calls_used, tools_run,
                   calls_made, dbVars>>

\* tool_call with a tool the step does not allow.
RefuseTool(r, t) == t \notin AllowedTools /\ FailAnswered(r)

\* An action nobody knows, request_approval for what needs no approval, which
\* ends as one of those, or an answer that is no object at all.
UnknownAction(r) == FailAnswered(r)

\* create_approval_request: the INSERT is best effort.
ApprovalRequested == {"pending", "lost"}

\* The approval gate: a tool_call, or a request_approval for any tool at all,
\* that needs approval.  The row is best effort; the run ends here either way.
AskApproval(r, t) ==
    /\ Answered(r)
    /\ requires_approval(t)
    /\ cost_used' = [cost_used EXCEPT ![r] = @ + ModelCost]
    /\ \E a \in ApprovalRequested : approval' = [approval EXCEPT ![r] = a]
    /\ Finish(r, "needs_approval")
    /\ UNCHANGED <<iterations_used, model_calls_used, tool_calls_used, tools_run,
                   calls_made, run_row, failing, exec_status, stored>>

\* check_before_tool_call, once it has counted the call.
ToolBudgetExceeded(r) == tool_calls_used[r] + 1 > MaxToolCalls[r]

\* tool_call past the gate, over the tool budget: counted, then refused.
ToolRefused(r, t) ==
    /\ Answered(r)
    /\ t \in AllowedTools
    /\ ~requires_approval(t)
    /\ ToolBudgetExceeded(r)
    /\ cost_used'       = [cost_used EXCEPT ![r] = @ + ModelCost]
    /\ tool_calls_used' = [tool_calls_used EXCEPT ![r] = @ + 1]
    /\ Finish(r, BudgetStatus)
    /\ UNCHANGED <<iterations_used, model_calls_used, tools_run, calls_made, dbVars>>

\* tool_call past the gate and within budget: the tool runs.  If it returns, its
\* cost is recorded and the loop goes round; if it raises the run fails.
UseTool(r, t) ==
    /\ Answered(r)
    /\ t \in AllowedTools
    /\ ~requires_approval(t)
    /\ ~ToolBudgetExceeded(r)
    /\ tool_calls_used' = [tool_calls_used EXCEPT ![r] = @ + 1]
    /\ IF t \in Registered
       THEN /\ tools_run'  = [tools_run EXCEPT ![r] = @ \cup {t}]
            /\ calls_made' = [calls_made EXCEPT ![r] = @ + 1]
       ELSE UNCHANGED <<tools_run, calls_made>>
    /\ \/ /\ t \in Registered
          /\ cost_used' = [cost_used EXCEPT ![r] = @ + ModelCost + ToolCost[t]]
          /\ apc' = [apc EXCEPT ![r] = "iterate"]
          /\ UNCHANGED status
       \/ /\ cost_used' = [cost_used EXCEPT ![r] = @ + ModelCost]
          /\ Finish(r, "failed")
    /\ UNCHANGED <<iterations_used, model_calls_used, dbVars>>

\* What the schema and the evaluations may make of a final answer.
AnswerVerdicts == {"success", "needs_human_review", InvalidStatus}

\* final_answer: the schema and the evaluations decide what it is worth.
FinalAnswer(r) ==
    /\ Answered(r)
    /\ cost_used' = [cost_used EXCEPT ![r] = @ + ModelCost]
    /\ \E st \in AnswerVerdicts : Finish(r, st)
    /\ UNCHANGED <<iterations_used, model_calls_used, tool_calls_used, tools_run,
                   calls_made, dbVars>>

\* Mutant: a run whose row was never inserted is not finished.
RecordRunWithRow(r) ==
    /\ apc[r] = "returned"
    /\ run_row[r] # "no_row"
    /\ apc' = [apc EXCEPT ![r] = "recorded"]
    /\ run_row' = [run_row EXCEPT ![r] = status[r]]
    /\ UNCHANGED <<budgetVars, callVars, status, approval, failing, exec_status, stored>>

\* The executor updates the row, best effort, and returns to the engine.
RecordRun(r) ==
    /\ apc[r] = "returned"
    /\ apc' = [apc EXCEPT ![r] = "recorded"]
    /\ \E row \in {status[r], run_row[r]} :
          run_row' = [run_row EXCEPT ![r] = IF @ = "no_row" THEN @ ELSE row]
    /\ UNCHANGED <<budgetVars, callVars, status, approval, failing, exec_status, stored>>

\* orchestrations_run stores the outcome once every step is over.
StoreExecution ==
    /\ ~stored
    /\ \A r \in Runs : apc[r] = "recorded"
    /\ stored' = TRUE
    /\ exec_status' =
          IF \A r \in Runs : ~StepFailed(status[r]) THEN "success"
          ELSE IF \A r \in Runs : StepFailed(status[r]) THEN "failed"
          ELSE "partial"
    /\ UNCHANGED <<apc, budgetVars, callVars, status, run_row, approval, failing>>

-----------------------------------------------------------------------------
(* POST /v1/agent-approvals/{id}/approve and .../reject *)

\* resolve_approval: one guarded UPDATE, so of two reviewers one gets a 404.
resolve_approval(r, decision) ==
    /\ DecideAfterStore => stored
    /\ approval[r] = "pending"
    /\ approval' = [approval EXCEPT ![r] = decision]

ApproveAction(r) ==
    /\ resolve_approval(r, "approved")
    /\ UNCHANGED <<apc, budgetVars, callVars, status, run_row, failing, exec_status, stored>>

RejectAction(r) ==
    /\ resolve_approval(r, "rejected")
    /\ failing' = failing \cup {r}
    /\ UNCHANGED <<apc, budgetVars, callVars, status, run_row, exec_status, stored>>

\* Mutant: the execution keeps the status the run gave it.
ForgetRejection(r) ==
    /\ r \in failing
    /\ failing' = failing \ {r}
    /\ UNCHANGED <<apc, budgetVars, callVars, status, run_row, approval, exec_status, stored>>

\* reject, second transaction: the execution is marked failed.
FailExecution(r) ==
    /\ r \in failing
    /\ failing' = failing \ {r}
    /\ exec_status' = "failed"
    /\ UNCHANGED <<apc, budgetVars, callVars, status, run_row, approval, stored>>

-----------------------------------------------------------------------------

AgentRun(r) ==
    \/ StartRun(r)
    \/ InvalidConfig(r)
    \/ IterationRefused(r)
    \/ StateFails(r)
    \/ Iterate(r)
    \/ RateLimited(r)
    \/ ModelCallFails(r)
    \/ UnknownAction(r)
    \/ \E t \in Tools :
          RefuseTool(r, t) \/ AskApproval(r, t) \/ ToolRefused(r, t) \/ UseTool(r, t)
    \/ FinalAnswer(r)
    \/ RecordRun(r)

AgentNext ==
    \/ \E r \in Runs : AgentRun(r) \/ ApproveAction(r) \/ RejectAction(r) \/ FailExecution(r)
    \/ StoreExecution

\* A run goes on whatever the model answers; every HTTP call has a timeout.  A
\* handler that has begun to reject goes on too; nobody has to decide.
AgentFairness ==
    /\ \A r \in Runs : WF_agentVars(AgentRun(r)) /\ WF_agentVars(FailExecution(r))
    /\ WF_agentVars(StoreExecution)

AgentSpec == AgentInit /\ [][AgentNext]_agentVars /\ AgentFairness

-----------------------------------------------------------------------------
(* Properties. *)

\* Whatever the model answers and however often it is rate limited, a run sends
\* at most MaxAttempts requests per model call it is granted, executes at most
\* MaxToolCalls tools, and the usage it reports is at most one over each limit
\* (the refused attempt is counted).
WithinBudget ==
    \A r \in Runs :
        /\ requests[r] <= MaxAttempts * MaxModelCalls[r]
        /\ calls_made[r] <= MaxToolCalls[r]
        /\ iterations_used[r] <= MaxIterations[r] + 1
        /\ model_calls_used[r] <= MaxModelCalls[r] + 1
        /\ tool_calls_used[r] <= MaxToolCalls[r] + 1

\* No tool that needs approval is ever executed by a run, and a run that asked for
\* approval executes nothing afterwards: it ends waiting, with its one request.
ApprovalGate ==
    /\ \A r \in Runs : \A t \in tools_run[r] :
          t \in AllowedTools /\ (ApprovalMode = "none" \/ t \notin MutatingTools \ ReadOnlyTools)
    /\ \A r \in Runs : approval[r] # "none" =>
          apc[r] \in {"returned", "recorded"} /\ status[r] = "needs_approval"

\* A rejected action fails the execution in the end, although the step that
\* asked counted as a success, when the decision came after the run was stored.
RejectionFailsExecution ==
    \A r \in Runs :
        (approval[r] = "rejected" /\ stored) ~> [](exec_status = "failed")

\* What is left of a run: the iterations it may still begin, each with its model
\* call's attempts, and its end.
StepsLeft(r) ==
    CASE apc[r] \in {"idle", "iterate", "model"} ->
            (MaxAttempts + 1) * (MaxIterations[r] - iterations_used[r])
              + (CASE apc[r] = "idle"    -> 4
                   [] apc[r] = "iterate" -> 3
                   [] OTHER              -> 3 + MaxAttempts - attempt[r])
      [] apc[r] = "returned" -> 1
      [] OTHER               -> 0

\* An iteration, an attempt or a tool cannot be had for nothing: every step of a
\* run brings it closer to its end, whatever the model answers, and no decision
\* of a reviewer takes it back.
RunsRunDown ==
    [][\A r \in Runs : /\ StepsLeft(r)' <= StepsLeft(r)
                       /\ AgentRun(r) => StepsLeft(r)' < StepsLeft(r)]_agentVars

\* Every agent run ends, however long the model would like to go on.
RunsEnd == \A r \in Runs : (apc[r] = "iterate") ~> (apc[r] = "recorded")

=============================================================================
