--------------------------- MODULE AgentTaskProofs ---------------------------
(***************************************************************************)
(* Proofs about AgentTask for every set of runs and tools, every budget    *)
(* and every approval policy: the budgets bound what a run sends, executes *)
(* and spends and how many steps it takes, whatever the model answers, the *)
(* approval gate holds, and a rejection is final.                          *)
(***************************************************************************)
EXTENDS AgentTask, TLAPS

-----------------------------------------------------------------------------
(* The inductive invariant, part by part. *)

\* Every variable has its type.
AgentTypeOK ==
    /\ apc              \in [Runs -> ApcValues]
    /\ iterations_used  \in [Runs -> Nat]
    /\ model_calls_used \in [Runs -> Nat]
    /\ tool_calls_used  \in [Runs -> Nat]
    /\ cost_used        \in [Runs -> Nat]
    /\ attempt          \in [Runs -> Nat]
    /\ requests         \in [Runs -> Nat]
    /\ tools_run        \in [Runs -> SUBSET Tools]
    /\ calls_made       \in [Runs -> Nat]
    /\ status           \in [Runs -> StatusValues]
    /\ run_row          \in [Runs -> RowValues]
    /\ approval         \in [Runs -> ApprovalValues]
    /\ failing          \subseteq Runs
    /\ exec_status      \in {"partial", "success", "failed"}
    /\ stored           \in BOOLEAN

\* While the loop may still go round, the iterations counted are within the
\* limit; the refused one is the last.
IterationsCounted ==
    \A r \in Runs :
        /\ iterations_used[r] <= MaxIterations[r] + 1
        /\ apc[r] \in {"idle", "iterate", "model"} => iterations_used[r] <= MaxIterations[r]

\* Every granted model call has sent at most MaxAttempts requests; the current
\* one has sent one for each attempt behind it.
RequestsCounted ==
    \A r \in Runs :
        /\ requests[r] <= MaxAttempts * MaxModelCalls[r]
        /\ model_calls_used[r] <= MaxModelCalls[r] + 1
        /\ apc[r] \in {"idle", "iterate"} =>
              /\ model_calls_used[r] <= MaxModelCalls[r]
              /\ requests[r] <= MaxAttempts * model_calls_used[r]
        /\ apc[r] = "model" =>
              /\ model_calls_used[r] <= MaxModelCalls[r]
              /\ attempt[r] < MaxAttempts
              /\ requests[r] + MaxAttempts <= MaxAttempts * model_calls_used[r] + attempt[r]

\* A tool is executed only when it has been counted and granted.
ToolsCounted ==
    \A r \in Runs :
        /\ calls_made[r] <= tool_calls_used[r]
        /\ calls_made[r] <= MaxToolCalls[r]
        /\ tool_calls_used[r] <= MaxToolCalls[r] + 1
        /\ apc[r] \in {"idle", "iterate", "model"} => tool_calls_used[r] <= MaxToolCalls[r]

\* The money limit is looked at before a model call only, with what the call
\* will cost: a run overdraws it by the price of one tool at most.
CostOverrun ==
    \A r \in Runs :
        \/ cost_used[r] <= MaxCost[r]
        \/ \E t \in tools_run[r] : cost_used[r] <= MaxCost[r] + ToolCost[t]

CostReserved ==
    \A r \in Runs : apc[r] = "model" => cost_used[r] + ModelCost <= MaxCost[r]

NothingSpentYet == \A r \in Runs : apc[r] = "idle" => cost_used[r] = 0

\* A run that is over has a status.
EndedHasStatus == \A r \in Runs : apc[r] = "returned" => status[r] # "unset"

BudgetInvariant ==
    /\ AgentTypeOK
    /\ EndedHasStatus
    /\ IterationsCounted
    /\ RequestsCounted
    /\ ToolsCounted
    /\ CostOverrun
    /\ CostReserved
    /\ NothingSpentYet
    /\ ApprovalGate

-----------------------------------------------------------------------------
(* What the pure decisions promise. *)

\* Without a gate, or past it, a tool is none that must wait for a person.
LEMMA GateMeaning ==
    ASSUME NEW t \in Tools, ~requires_approval(t)
    PROVE  ApprovalMode = "none" \/ t \notin MutatingTools \ ReadOnlyTools
BY AgentAssumption DEF requires_approval

\* The statuses a run can be given when it ends.
LEMMA StatusesOfRuns ==
    /\ BudgetStatus \in StatusValues \ {"unset"}
    /\ AnswerVerdicts \subseteq StatusValues \ {"unset"}
    /\ {"failed", "needs_approval"} \subseteq StatusValues \ {"unset"}
BY DEF BudgetStatus, AnswerVerdicts, InvalidStatus, StatusValues, FailedStatuses

\* While a model call goes on there is room for its next request, within what
\* the calls granted so far allow and within what the budget allows.
LEMMA OneMoreRequest ==
    ASSUME AgentTypeOK, RequestsCounted, NEW r \in Runs, apc[r] = "model"
    PROVE  /\ requests[r] + 1 <= MaxAttempts * model_calls_used[r]
           /\ requests[r] + 1 <= MaxAttempts * MaxModelCalls[r]
<1>1. /\ requests[r] \in Nat /\ model_calls_used[r] \in Nat /\ attempt[r] \in Nat
      /\ MaxModelCalls[r] \in Nat
    BY BudgetAssumption DEF AgentTypeOK
<1>2. /\ model_calls_used[r] <= MaxModelCalls[r] /\ attempt[r] < MaxAttempts
      /\ requests[r] + MaxAttempts <= MaxAttempts * model_calls_used[r] + attempt[r]
    BY DEF RequestsCounted
<1> QED
    BY <1>1, <1>2 DEF MaxAttempts

-----------------------------------------------------------------------------
(* Each action preserves BudgetInvariant. *)

\* Before any run has begun nothing is used.
LEMMA InitWithinBudget == AgentInit => BudgetInvariant
<1> SUFFICES ASSUME AgentInit PROVE BudgetInvariant
    OBVIOUS
<1>1. AgentTypeOK /\ EndedHasStatus
    BY DEF AgentInit, Zero, AgentTypeOK, EndedHasStatus, ApcValues, StatusValues, RowValues, ApprovalValues
<1>2. IterationsCounted /\ RequestsCounted /\ ToolsCounted
    BY BudgetAssumption DEF AgentInit, Zero, IterationsCounted, RequestsCounted,
       ToolsCounted, MaxAttempts
<1>3. CostOverrun /\ CostReserved /\ NothingSpentYet /\ ApprovalGate
    BY BudgetAssumption DEF AgentInit, Zero, CostOverrun, CostReserved, NothingSpentYet,
       ApprovalGate
<1> QED
    BY <1>1, <1>2, <1>3 DEF BudgetInvariant

\* Starting a run, or failing before it starts, uses nothing.
LEMMA StartWithinBudget ==
    ASSUME BudgetInvariant, NEW r \in Runs, StartRun(r) \/ InvalidConfig(r)
    PROVE  BudgetInvariant'
<1> USE DEF BudgetInvariant
<1>1. UNCHANGED <<budgetVars, callVars, approval>>
    BY DEF StartRun, InvalidConfig, dbVars
<1>2. apc[r] = "idle" /\ apc' \in {[apc EXCEPT ![r] = "iterate"], [apc EXCEPT ![r] = "recorded"]}
    BY DEF StartRun, InvalidConfig
<1>3. AgentTypeOK' /\ EndedHasStatus'
    BY <1>1 DEF StartRun, InvalidConfig, AgentTypeOK, EndedHasStatus, ApcValues, StatusValues,
       FailedStatuses, RowValues, budgetVars, callVars, dbVars
<1>4. IterationsCounted' /\ RequestsCounted' /\ ToolsCounted'
    BY <1>1, <1>2 DEF AgentTypeOK, IterationsCounted, RequestsCounted, ToolsCounted,
       budgetVars, callVars
<1>5. CostOverrun' /\ CostReserved' /\ NothingSpentYet'
    BY <1>1, <1>2 DEF AgentTypeOK, CostOverrun, CostReserved, NothingSpentYet,
       budgetVars, callVars
<1>6. ApprovalGate'
    BY <1>1, <1>2 DEF StartRun, InvalidConfig, AgentTypeOK, ApprovalGate, callVars
<1> QED
    BY <1>3, <1>4, <1>5, <1>6

\* An iteration is counted before anything is sent; over a limit it is the last.
LEMMA IterationWithinBudget ==
    ASSUME BudgetInvariant, NEW r \in Runs,
           IterationRefused(r) \/ StateFails(r) \/ Iterate(r)
    PROVE  BudgetInvariant'
<1> USE DEF BudgetInvariant
<1>1. /\ apc[r] = "iterate"
      /\ iterations_used' = [iterations_used EXCEPT ![r] = @ + 1]
      /\ UNCHANGED <<tool_calls_used, cost_used, requests, tools_run, calls_made, dbVars>>
    BY DEF IterationRefused, StateFails, Iterate, callVars
<1>2. \/ /\ \E st \in StatusValues \ {"unset"} : Finish(r, st)
         /\ UNCHANGED <<model_calls_used, attempt>>
      \/ /\ iterations_used[r] + 1 <= MaxIterations[r]
         /\ model_calls_used' = [model_calls_used EXCEPT ![r] = @ + 1]
         /\ attempt' = [attempt EXCEPT ![r] = 0]
         /\ \/ \E st \in StatusValues \ {"unset"} : Finish(r, st)
            \/ /\ ~ModelBudgetExceeded(r)
               /\ apc' = [apc EXCEPT ![r] = "model"] /\ UNCHANGED status
    BY StatusesOfRuns DEF IterationRefused, StateFails, Iterate, callVars
<1>3. AgentTypeOK' /\ EndedHasStatus'
    BY <1>1, <1>2 DEF Finish, AgentTypeOK, EndedHasStatus, ApcValues, dbVars
<1>4. \A q \in Runs : q # r =>
         /\ apc'[q] = apc[q] /\ status'[q] = status[q] /\ attempt'[q] = attempt[q]
         /\ iterations_used'[q] = iterations_used[q]
         /\ model_calls_used'[q] = model_calls_used[q]
    BY <1>1, <1>2 DEF Finish, AgentTypeOK
<1>5. /\ iterations_used'[r] = iterations_used[r] + 1
      /\ \/ apc'[r] = "returned" /\ model_calls_used'[r] = model_calls_used[r]
         \/ /\ model_calls_used'[r] = model_calls_used[r] + 1
            /\ \/ apc'[r] = "returned"
               \/ /\ apc'[r] = "model" /\ attempt'[r] = 0
                  /\ iterations_used[r] + 1 <= MaxIterations[r]
                  /\ ~ModelBudgetExceeded(r)
    BY <1>1, <1>2 DEF Finish, AgentTypeOK
<1>6. /\ iterations_used[r] \in Nat /\ model_calls_used[r] \in Nat /\ requests[r] \in Nat
      /\ MaxIterations[r] \in Nat /\ MaxModelCalls[r] \in Nat /\ MaxCost[r] \in Nat
      /\ cost_used[r] \in Nat
    BY BudgetAssumption DEF AgentTypeOK
<1>7. IterationsCounted'
    BY <1>1, <1>4, <1>5, <1>6 DEF IterationsCounted
<1>8. ToolsCounted'
    BY <1>1, <1>4 DEF ToolsCounted
<1>9. RequestsCounted'
  <2>1. /\ model_calls_used[r] <= MaxModelCalls[r]
        /\ requests[r] <= MaxAttempts * model_calls_used[r]
        /\ requests[r] <= MaxAttempts * MaxModelCalls[r]
      BY <1>1 DEF RequestsCounted
  <2>2. ~ModelBudgetExceeded(r) => model_calls_used[r] + 1 <= MaxModelCalls[r]
      BY <1>6 DEF ModelBudgetExceeded
  <2>3. /\ model_calls_used'[r] <= MaxModelCalls[r] + 1
        /\ apc'[r] = "model" =>
              /\ model_calls_used'[r] <= MaxModelCalls[r]
              /\ attempt'[r] < MaxAttempts
              /\ requests[r] + MaxAttempts <= MaxAttempts * model_calls_used'[r] + attempt'[r]
      BY <1>5, <1>6, <2>1, <2>2 DEF MaxAttempts
  <2> QED
      BY <1>1, <1>4, <1>5, <2>1, <2>3 DEF RequestsCounted
<1>10. CostOverrun' /\ CostReserved' /\ NothingSpentYet'
  <2>1. ~ModelBudgetExceeded(r) => cost_used[r] + ModelCost <= MaxCost[r]
      BY <1>6 DEF ModelBudgetExceeded, ModelCost
  <2> QED
      BY <1>1, <1>4, <1>5, <2>1 DEF CostOverrun, CostReserved, NothingSpentYet
<1>11. ApprovalGate'
    BY <1>1, <1>4 DEF ApprovalGate, dbVars
<1> QED
    BY <1>3, <1>7, <1>8, <1>9, <1>10, <1>11

\* Each HTTP attempt is one request, and there are MaxAttempts of them at most.
LEMMA AttemptWithinBudget ==
    ASSUME BudgetInvariant, NEW r \in Runs, RateLimited(r) \/ ModelCallFails(r)
    PROVE  BudgetInvariant'
<1> USE DEF BudgetInvariant
<1>1. /\ apc[r] = "model"
      /\ UNCHANGED <<budgetVars, tools_run, calls_made, dbVars>>
    BY DEF RateLimited, ModelCallFails
<1>2. \/ /\ attempt[r] + 1 < MaxAttempts
         /\ attempt' = [attempt EXCEPT ![r] = @ + 1]
         /\ requests' = [requests EXCEPT ![r] = @ + 1]
         /\ UNCHANGED <<apc, status>>
      \/ /\ \E sent \in {0, 1} : requests' = [requests EXCEPT ![r] = @ + sent]
         /\ Finish(r, "failed")
         /\ UNCHANGED attempt
    BY DEF RateLimited, ModelCallFails
<1>3. AgentTypeOK' /\ EndedHasStatus'
    BY <1>1, <1>2, StatusesOfRuns DEF Finish, AgentTypeOK, EndedHasStatus, ApcValues, budgetVars, dbVars
<1>4. IterationsCounted' /\ ToolsCounted'
    BY <1>1, <1>2 DEF Finish, AgentTypeOK, IterationsCounted, ToolsCounted, budgetVars
<1>5. RequestsCounted'
    BY <1>1, <1>2, BudgetAssumption DEF Finish, AgentTypeOK, RequestsCounted, MaxAttempts,
       budgetVars
<1>6. CostOverrun' /\ CostReserved' /\ NothingSpentYet'
    BY <1>1, <1>2 DEF Finish, AgentTypeOK, CostOverrun, CostReserved, NothingSpentYet,
       budgetVars
<1>7. ApprovalGate'
    BY <1>1, <1>2 DEF Finish, AgentTypeOK, ApprovalGate, dbVars
<1> QED
    BY <1>3, <1>4, <1>5, <1>6, <1>7

\* An answer that ends the run without a tool costs one request and one call.
LEMMA AnswerWithinBudget ==
    ASSUME BudgetInvariant, NEW r \in Runs,
           UnknownAction(r) \/ FinalAnswer(r) \/ \E t \in Tools : RefuseTool(r, t) \/ AskApproval(r, t)
    PROVE  BudgetInvariant'
<1> USE DEF BudgetInvariant
<1>1. /\ apc[r] = "model"
      /\ requests' = [requests EXCEPT ![r] = @ + 1]
      /\ cost_used' = [cost_used EXCEPT ![r] = @ + ModelCost]
      /\ UNCHANGED <<attempt, iterations_used, model_calls_used, tool_calls_used,
                     tools_run, calls_made, run_row, failing, exec_status, stored>>
    BY DEF UnknownAction, FinalAnswer, RefuseTool, AskApproval, FailAnswered, Answered, dbVars
<1>2. \/ approval' = approval /\ \E st \in StatusValues \ {"unset"} : Finish(r, st)
      \/ /\ \E a \in ApprovalRequested : approval' = [approval EXCEPT ![r] = a]
         /\ Finish(r, "needs_approval")
    BY StatusesOfRuns DEF UnknownAction, FinalAnswer, RefuseTool, AskApproval, FailAnswered, dbVars
<1>3. AgentTypeOK' /\ EndedHasStatus'
    BY <1>1, <1>2, StatusesOfRuns DEF Finish, AgentTypeOK, EndedHasStatus, ApcValues, ModelCost,
       ApprovalRequested, ApprovalValues
<1>4. IterationsCounted' /\ ToolsCounted'
    BY <1>1, <1>2 DEF Finish, AgentTypeOK, IterationsCounted, ToolsCounted
<1>5. RequestsCounted'
  <2>1. \A q \in Runs : q # r => apc'[q] = apc[q] /\ requests'[q] = requests[q]
      BY <1>1, <1>2 DEF Finish, AgentTypeOK
  <2>2. apc'[r] = "returned" /\ requests'[r] = requests[r] + 1
      BY <1>1, <1>2 DEF Finish, AgentTypeOK
  <2>3. requests'[r] <= MaxAttempts * MaxModelCalls[r]
      BY <1>1, <2>2, OneMoreRequest
  <2> QED
      BY <1>1, <2>1, <2>2, <2>3 DEF RequestsCounted
<1>6. CostOverrun' /\ CostReserved' /\ NothingSpentYet'
    BY <1>1, <1>2 DEF Finish, AgentTypeOK, CostOverrun, CostReserved, NothingSpentYet
<1>7. ApprovalGate'
    BY <1>1, <1>2 DEF Finish, AgentTypeOK, ApprovalGate
<1> QED
    BY <1>3, <1>4, <1>5, <1>6, <1>7

\* A tool call is counted, then refused or executed past the gate.
LEMMA ToolWithinBudget ==
    ASSUME BudgetInvariant, NEW r \in Runs, NEW t \in Tools, ToolRefused(r, t) \/ UseTool(r, t)
    PROVE  BudgetInvariant'
<1> USE DEF BudgetInvariant
<1>1. /\ apc[r] = "model" /\ t \in AllowedTools /\ ~requires_approval(t)
      /\ requests' = [requests EXCEPT ![r] = @ + 1]
      /\ tool_calls_used' = [tool_calls_used EXCEPT ![r] = @ + 1]
      /\ UNCHANGED <<attempt, iterations_used, model_calls_used, dbVars>>
    BY DEF ToolRefused, UseTool, Answered
<1>2. \/ /\ \E st \in StatusValues \ {"unset"} : Finish(r, st)
         /\ cost_used' = [cost_used EXCEPT ![r] = @ + ModelCost]
      \/ /\ apc' = [apc EXCEPT ![r] = "iterate"] /\ UNCHANGED status
         /\ tool_calls_used[r] + 1 <= MaxToolCalls[r]
         /\ cost_used' = [cost_used EXCEPT ![r] = @ + ModelCost + ToolCost[t]]
         /\ t \in tools_run'[r]
    BY StatusesOfRuns, BudgetAssumption DEF ToolRefused, UseTool, ToolBudgetExceeded, AgentTypeOK
<1>3. \/ UNCHANGED <<tools_run, calls_made>>
      \/ /\ tools_run' = [tools_run EXCEPT ![r] = @ \cup {t}]
         /\ calls_made' = [calls_made EXCEPT ![r] = @ + 1]
         /\ tool_calls_used[r] + 1 <= MaxToolCalls[r]
    BY BudgetAssumption DEF ToolRefused, UseTool, ToolBudgetExceeded, AgentTypeOK
<1>4. ToolCost[t] \in Nat
    BY AgentAssumption
<1>5. /\ \A q \in Runs : q # r =>
            /\ apc'[q] = apc[q] /\ status'[q] = status[q] /\ cost_used'[q] = cost_used[q]
            /\ requests'[q] = requests[q] /\ tool_calls_used'[q] = tool_calls_used[q]
            /\ calls_made'[q] = calls_made[q]
      /\ requests'[r] = requests[r] + 1 /\ tool_calls_used'[r] = tool_calls_used[r] + 1
      /\ \/ calls_made'[r] = calls_made[r]
         \/ calls_made'[r] = calls_made[r] + 1 /\ tool_calls_used[r] + 1 <= MaxToolCalls[r]
      /\ \/ apc'[r] = "returned"
         \/ apc'[r] = "iterate" /\ tool_calls_used[r] + 1 <= MaxToolCalls[r]
    BY <1>1, <1>2, <1>3 DEF Finish, AgentTypeOK
<1>6. AgentTypeOK' /\ EndedHasStatus'
  <2>1. cost_used' \in [Runs -> Nat]
      BY <1>2, <1>4 DEF AgentTypeOK, ModelCost
  <2>2. /\ apc' \in [Runs -> ApcValues] /\ status' \in [Runs -> StatusValues]
        /\ EndedHasStatus'
      BY <1>2 DEF Finish, AgentTypeOK, EndedHasStatus, ApcValues
  <2>3. tools_run' \in [Runs -> SUBSET Tools] /\ calls_made' \in [Runs -> Nat]
      BY <1>3 DEF AgentTypeOK
  <2>4. requests' \in [Runs -> Nat] /\ tool_calls_used' \in [Runs -> Nat]
      BY <1>1 DEF AgentTypeOK
  <2> QED
      BY <1>1, <2>1, <2>2, <2>3, <2>4 DEF AgentTypeOK, dbVars
<1>7. IterationsCounted' /\ ToolsCounted'
  <2>1. /\ tool_calls_used[r] \in Nat /\ calls_made[r] \in Nat /\ MaxToolCalls[r] \in Nat
      BY BudgetAssumption DEF AgentTypeOK
  <2>2. /\ calls_made[r] <= tool_calls_used[r] /\ calls_made[r] <= MaxToolCalls[r]
        /\ tool_calls_used[r] <= MaxToolCalls[r]
      BY <1>1 DEF ToolsCounted
  <2>3. ToolsCounted'
      BY <1>1, <1>5, <2>1, <2>2 DEF ToolsCounted
  <2>4. IterationsCounted'
      BY <1>1, <1>5 DEF IterationsCounted
  <2> QED
      BY <2>3, <2>4
<1>8. RequestsCounted'
  <2>1. /\ requests'[r] <= MaxAttempts * model_calls_used[r]
        /\ requests'[r] <= MaxAttempts * MaxModelCalls[r]
      BY <1>1, <1>5, OneMoreRequest
  <2> QED
      BY <1>1, <1>5, <2>1 DEF RequestsCounted
<1>9. CostOverrun' /\ CostReserved' /\ NothingSpentYet'
  <2>1. \A q \in Runs : tools_run[q] \subseteq tools_run'[q]
      BY <1>3 DEF AgentTypeOK
  <2>2. cost_used[r] + ModelCost <= MaxCost[r]
      BY <1>1 DEF CostReserved
  <2>3. \A q \in Runs : q # r => cost_used'[q] = cost_used[q] /\ apc'[q] = apc[q]
      BY <1>2 DEF Finish, AgentTypeOK
  <2>4. apc'[r] \in {"iterate", "returned"}
      BY <1>2 DEF Finish, AgentTypeOK
  <2>5. \/ cost_used'[r] <= MaxCost[r]
        \/ t \in tools_run'[r] /\ cost_used'[r] <= MaxCost[r] + ToolCost[t]
      BY <1>2, <1>4, <2>2, BudgetAssumption DEF AgentTypeOK, ModelCost
  <2>6. CostOverrun'
      BY <2>1, <2>3, <2>5 DEF CostOverrun
  <2>7. CostReserved' /\ NothingSpentYet'
      BY <2>3, <2>4 DEF CostReserved, NothingSpentYet
  <2> QED
      BY <2>6, <2>7
<1>10. ApprovalGate'
  <2>1. \A q \in Runs : tools_run'[q] \subseteq tools_run[q] \cup {t}
      BY <1>3 DEF AgentTypeOK
  <2>2. t \in AllowedTools /\ (ApprovalMode = "none" \/ t \notin MutatingTools \ ReadOnlyTools)
      BY <1>1, GateMeaning
  <2>3. approval' = approval /\ approval[r] = "none"
      BY <1>1 DEF ApprovalGate, dbVars
  <2>4. \A q \in Runs : q # r => apc'[q] = apc[q] /\ status'[q] = status[q]
      BY <1>2 DEF Finish, AgentTypeOK
  <2> QED
      BY <2>1, <2>2, <2>3, <2>4 DEF ApprovalGate
<1> QED
    BY <1>6, <1>7, <1>8, <1>9, <1>10

\* Recording a run, storing the execution and deciding a request use nothing.
LEMMA RecordWithinBudget ==
    ASSUME BudgetInvariant,
           \/ StoreExecution
           \/ \E r \in Runs : \/ RecordRun(r) \/ ApproveAction(r)
                              \/ RejectAction(r) \/ FailExecution(r)
    PROVE  BudgetInvariant'
<1> USE DEF BudgetInvariant
<1>1. UNCHANGED <<budgetVars, callVars, status>>
    BY DEF StoreExecution, RecordRun, ApproveAction, RejectAction, FailExecution
<1>2. \/ apc' = apc
      \/ \E r \in Runs : apc[r] = "returned" /\ apc' = [apc EXCEPT ![r] = "recorded"]
    BY DEF StoreExecution, RecordRun, ApproveAction, RejectAction, FailExecution
<1>3. \/ approval' = approval
      \/ \E r \in Runs, a \in {"approved", "rejected"} :
            approval[r] = "pending" /\ approval' = [approval EXCEPT ![r] = a]
    BY DEF StoreExecution, RecordRun, ApproveAction, RejectAction, FailExecution,
       resolve_approval
<1>4. AgentTypeOK' /\ EndedHasStatus'
  <2>1. run_row' \in [Runs -> RowValues]
    <3>1. CASE run_row' = run_row
        BY <3>1 DEF AgentTypeOK
    <3>2. ASSUME NEW r \in Runs, RecordRun(r) PROVE run_row' \in [Runs -> RowValues]
      <4>1. status[r] # "unset" => status[r] \in RowValues
          BY DEF AgentTypeOK, RowValues
      <4>3. status[r] # "unset"
          BY <3>2 DEF RecordRun, EndedHasStatus
      <4>2. run_row[r] \in RowValues
          BY DEF AgentTypeOK
      <4> QED
          BY <3>2, <4>1, <4>2, <4>3 DEF RecordRun, AgentTypeOK
    <3> QED
        BY <3>1, <3>2 DEF StoreExecution, ApproveAction, RejectAction, FailExecution
  <2>2. exec_status' \in {"partial", "success", "failed"} /\ failing' \subseteq Runs
        /\ stored' \in BOOLEAN
      BY DEF StoreExecution, RecordRun, ApproveAction, RejectAction, FailExecution, AgentTypeOK
  <2> QED
      BY <1>1, <1>2, <1>3, <2>1, <2>2 DEF AgentTypeOK, EndedHasStatus, ApcValues, ApprovalValues,
         budgetVars, callVars
<1>5. IterationsCounted' /\ RequestsCounted' /\ ToolsCounted'
    BY <1>1, <1>2 DEF AgentTypeOK, IterationsCounted, RequestsCounted, ToolsCounted,
       budgetVars, callVars
<1>6. CostOverrun' /\ CostReserved' /\ NothingSpentYet'
    BY <1>1, <1>2 DEF AgentTypeOK, CostOverrun, CostReserved, NothingSpentYet,
       budgetVars, callVars
<1>7. ApprovalGate'
    BY <1>1, <1>2, <1>3 DEF AgentTypeOK, ApprovalGate, callVars
<1> QED
    BY <1>4, <1>5, <1>6, <1>7

\* The invariant depends on the agent's variables alone.
LEMMA StutterWithinBudget ==
    ASSUME BudgetInvariant, UNCHANGED agentVars
    PROVE  BudgetInvariant'
BY DEF BudgetInvariant, agentVars, budgetVars, callVars, dbVars, AgentTypeOK,
       EndedHasStatus, IterationsCounted, RequestsCounted, ToolsCounted, CostOverrun,
       CostReserved, NothingSpentYet, ApprovalGate

\* Every step preserves the invariant.
LEMMA NextWithinBudget ==
    ASSUME BudgetInvariant, [AgentNext]_agentVars
    PROVE  BudgetInvariant'
<1>1. ASSUME NEW r \in Runs, AgentRun(r) PROVE BudgetInvariant'
  <2>1. CASE RecordRun(r)
      BY <2>1, RecordWithinBudget
  <2>2. CASE RateLimited(r) \/ ModelCallFails(r)
      BY <2>2, AttemptWithinBudget
  <2>3. CASE IterationRefused(r) \/ StateFails(r) \/ Iterate(r)
      BY <2>3, IterationWithinBudget
  <2>4. CASE StartRun(r) \/ InvalidConfig(r)
      BY <2>4, StartWithinBudget
  <2>5. CASE UnknownAction(r) \/ FinalAnswer(r)
             \/ \E t \in Tools : RefuseTool(r, t) \/ AskApproval(r, t)
      BY <2>5, AnswerWithinBudget
  <2>6. CASE \E t \in Tools : ToolRefused(r, t) \/ UseTool(r, t)
      BY <2>6, ToolWithinBudget
  <2> QED
      BY <1>1, <2>1, <2>2, <2>3, <2>4, <2>5, <2>6 DEF AgentRun
<1>2. CASE StoreExecution \/ \E r \in Runs : ApproveAction(r) \/ RejectAction(r) \/ FailExecution(r)
    BY <1>2, RecordWithinBudget
<1>3. CASE UNCHANGED agentVars
    BY <1>3, StutterWithinBudget
<1> QED
    BY <1>1, <1>2, <1>3 DEF AgentNext

\* The counters of AgentBudgetManager, the requests and the executed tools stay
\* in step, in every state of every run.
THEOREM BudgetInvariantHolds == AgentSpec => []BudgetInvariant
<1>1. AgentInit => BudgetInvariant
    BY InitWithinBudget
<1>2. BudgetInvariant /\ [AgentNext]_agentVars => BudgetInvariant'
    BY NextWithinBudget
<1> QED
    BY <1>1, <1>2, PTL DEF AgentSpec

\* Whatever the model answers, for every budget: a run sends at most MaxAttempts
\* requests per model call granted and executes at most MaxToolCalls tools.
THEOREM WithinBudgetHolds == AgentSpec => []WithinBudget
<1>1. BudgetInvariant => WithinBudget
    BY DEF BudgetInvariant, WithinBudget, IterationsCounted, RequestsCounted, ToolsCounted
<1> QED
    BY <1>1, BudgetInvariantHolds, PTL

\* For every money budget: a run overdraws it by the price of one executed tool
\* at most, the only cost AgentRuntime.run does not estimate beforehand.
THEOREM CostOverrunHolds == AgentSpec => []CostOverrun
<1>1. BudgetInvariant => CostOverrun
    BY DEF BudgetInvariant
<1> QED
    BY <1>1, BudgetInvariantHolds, PTL

\* For every tool registry and approval policy: no run executes a tool that its
\* policy keeps for a person, and one that asked executes nothing afterwards.
THEOREM ApprovalGateHolds == AgentSpec => []ApprovalGate
<1>1. BudgetInvariant => ApprovalGate
    BY DEF BudgetInvariant
<1> QED
    BY <1>1, BudgetInvariantHolds, PTL

-----------------------------------------------------------------------------
(* Runs end. *)

\* Starting, or failing before that, leaves one step fewer.
LEMMA StartRunsDown ==
    ASSUME BudgetInvariant, NEW r \in Runs, StartRun(r) \/ InvalidConfig(r)
    PROVE  StepsLeft(r)' < StepsLeft(r)
<1>1. /\ apc[r] = "idle" /\ apc'[r] \in {"iterate", "recorded"}
      /\ iterations_used'[r] = iterations_used[r]
    BY DEF BudgetInvariant, AgentTypeOK, StartRun, InvalidConfig, budgetVars
<1>2. /\ iterations_used[r] \in Nat /\ MaxIterations[r] \in Nat
      /\ iterations_used[r] <= MaxIterations[r]
    BY <1>1, BudgetAssumption DEF BudgetInvariant, AgentTypeOK, IterationsCounted
<1> QED
    BY <1>1, <1>2 DEF StepsLeft, MaxAttempts

\* An iteration is counted before its model call begins.
LEMMA IterationRunsDown ==
    ASSUME BudgetInvariant, NEW r \in Runs,
           IterationRefused(r) \/ StateFails(r) \/ Iterate(r)
    PROVE  StepsLeft(r)' < StepsLeft(r)
<1>1. /\ apc[r] = "iterate"
      /\ iterations_used'[r] = iterations_used[r] + 1
      /\ \/ apc'[r] = "returned"
         \/ /\ apc'[r] = "model" /\ attempt'[r] = 0
            /\ iterations_used[r] + 1 <= MaxIterations[r]
    BY DEF BudgetInvariant, AgentTypeOK, IterationRefused, StateFails, Iterate, Finish, callVars
<1>2. /\ iterations_used[r] \in Nat /\ MaxIterations[r] \in Nat
      /\ iterations_used[r] <= MaxIterations[r]
    BY <1>1, BudgetAssumption DEF BudgetInvariant, AgentTypeOK, IterationsCounted
<1> QED
    BY <1>1, <1>2 DEF StepsLeft, MaxAttempts

\* What a run waits for the model has its attempts counted, and what the model
\* answers ends the call.
LEMMA CallRunsDown ==
    ASSUME BudgetInvariant, NEW r \in Runs,
           \/ RateLimited(r) \/ ModelCallFails(r) \/ UnknownAction(r) \/ FinalAnswer(r)
           \/ \E t \in Tools :
                 RefuseTool(r, t) \/ AskApproval(r, t) \/ ToolRefused(r, t) \/ UseTool(r, t)
    PROVE  StepsLeft(r)' < StepsLeft(r)
<1>1. /\ apc[r] = "model" /\ iterations_used'[r] = iterations_used[r]
      /\ \/ apc'[r] \in {"iterate", "returned"}
         \/ apc'[r] = "model" /\ attempt'[r] = attempt[r] + 1
    BY DEF BudgetInvariant, AgentTypeOK, RateLimited, ModelCallFails, UnknownAction, FinalAnswer,
       RefuseTool, AskApproval, ToolRefused, UseTool, FailAnswered, Answered, Finish, budgetVars
<1>2. /\ iterations_used[r] \in Nat /\ MaxIterations[r] \in Nat /\ attempt[r] \in Nat
      /\ iterations_used[r] <= MaxIterations[r] /\ attempt[r] < MaxAttempts
    BY <1>1, BudgetAssumption
    DEF BudgetInvariant, AgentTypeOK, IterationsCounted, RequestsCounted
<1> QED
    BY <1>1, <1>2 DEF StepsLeft, MaxAttempts

\* Every step of a run brings it closer to its end.
LEMMA RunRunsDown ==
    ASSUME BudgetInvariant, NEW r \in Runs, AgentRun(r)
    PROVE  StepsLeft(r)' < StepsLeft(r)
<1>1. CASE RecordRun(r)
  <2>1. apc[r] = "returned" /\ apc'[r] = "recorded"
      BY <1>1 DEF BudgetInvariant, AgentTypeOK, RecordRun
  <2> QED
      BY <2>1 DEF StepsLeft
<1> QED
    BY <1>1, StartRunsDown, IterationRunsDown, CallRunsDown DEF AgentRun

\* What is left of a run depends on where it is and on two of its counters.
LEMMA LeftAlone ==
    ASSUME NEW r \in Runs, apc'[r] = apc[r], iterations_used'[r] = iterations_used[r],
           attempt'[r] = attempt[r]
    PROVE  StepsLeft(r)' = StepsLeft(r)
BY DEF StepsLeft

\* A step of one run leaves the others where they are.
LEMMA RunKeepsOthers ==
    ASSUME BudgetInvariant, NEW r \in Runs, AgentRun(r), NEW q \in Runs, q # r
    PROVE  StepsLeft(q)' = StepsLeft(q)
<1>1. CASE StartRun(r) \/ InvalidConfig(r) \/ RecordRun(r)
    BY <1>1, LeftAlone
    DEF BudgetInvariant, AgentTypeOK, StartRun, InvalidConfig, RecordRun, budgetVars, callVars
<1>2. CASE IterationRefused(r) \/ StateFails(r) \/ Iterate(r)
    BY <1>2, LeftAlone
    DEF BudgetInvariant, AgentTypeOK, IterationRefused, StateFails, Iterate, Finish, callVars
<1>3. CASE RateLimited(r) \/ ModelCallFails(r) \/ UnknownAction(r) \/ FinalAnswer(r)
    BY <1>3, LeftAlone
    DEF BudgetInvariant, AgentTypeOK, RateLimited, ModelCallFails, UnknownAction, FinalAnswer,
        FailAnswered, Answered, Finish, budgetVars
<1>4. CASE \E t \in Tools :
              RefuseTool(r, t) \/ AskApproval(r, t) \/ ToolRefused(r, t) \/ UseTool(r, t)
    BY <1>4, LeftAlone
    DEF BudgetInvariant, AgentTypeOK, RefuseTool, AskApproval, ToolRefused, UseTool,
        FailAnswered, Answered, Finish
<1> QED
    BY <1>1, <1>2, <1>3, <1>4 DEF AgentRun

\* What the handlers and the store do is no step of a run.
LEMMA OthersKeepRuns ==
    ASSUME \/ StoreExecution
           \/ \E r \in Runs : ApproveAction(r) \/ RejectAction(r) \/ FailExecution(r),
           NEW q \in Runs
    PROVE  StepsLeft(q)' = StepsLeft(q)
BY LeftAlone DEF StoreExecution, ApproveAction, RejectAction, FailExecution, budgetVars, callVars

\* How far a run is from its end is a number, never negative.
LEMMA StepsLeftIsNumber ==
    ASSUME BudgetInvariant, NEW r \in Runs
    PROVE  StepsLeft(r) \in Nat
<1>1. /\ iterations_used[r] \in Nat /\ MaxIterations[r] \in Nat /\ attempt[r] \in Nat
    BY BudgetAssumption DEF BudgetInvariant, AgentTypeOK
<1>2. /\ apc[r] \in {"idle", "iterate", "model"} => iterations_used[r] <= MaxIterations[r]
      /\ apc[r] = "model" => attempt[r] < MaxAttempts
    BY DEF BudgetInvariant, IterationsCounted, RequestsCounted
<1> QED
    BY <1>1, <1>2 DEF StepsLeft, MaxAttempts

\* A step of a run brings it closer to its end and moves no other.
LEMMA NextRunsDown ==
    ASSUME BudgetInvariant, AgentNext, NEW r \in Runs
    PROVE  /\ StepsLeft(r)' <= StepsLeft(r)
           /\ AgentRun(r) => StepsLeft(r)' < StepsLeft(r)
<1>1. StepsLeft(r) \in Nat /\ StepsLeft(r)' \in Nat
  <2>1. BudgetInvariant'
      BY NextWithinBudget
  <2>2. ASSUME BudgetInvariant' PROVE StepsLeft(r)' \in Nat
    <3>1. /\ iterations_used'[r] \in Nat /\ MaxIterations[r] \in Nat /\ attempt'[r] \in Nat
        BY <2>2, BudgetAssumption DEF BudgetInvariant, AgentTypeOK
    <3>2. /\ apc'[r] \in {"idle", "iterate", "model"} => iterations_used'[r] <= MaxIterations[r]
          /\ apc'[r] = "model" => attempt'[r] < MaxAttempts
        BY <2>2 DEF BudgetInvariant, IterationsCounted, RequestsCounted
    <3> QED
        BY <3>1, <3>2 DEF StepsLeft, MaxAttempts
  <2> QED
      BY <2>1, <2>2, StepsLeftIsNumber
<1>2. ASSUME NEW q \in Runs, AgentRun(q) PROVE StepsLeft(r)' <= StepsLeft(r)
    BY <1>1, <1>2, RunRunsDown, RunKeepsOthers
<1>3. ASSUME \/ StoreExecution
             \/ \E q \in Runs : ApproveAction(q) \/ RejectAction(q) \/ FailExecution(q)
      PROVE  StepsLeft(r)' <= StepsLeft(r)
    BY <1>1, <1>3, OthersKeepRuns
<1>4. StepsLeft(r)' <= StepsLeft(r)
    BY <1>2, <1>3 DEF AgentNext
<1> QED
    BY <1>4, RunRunsDown

\* For every budget: every step of a run makes what is left of it smaller, so
\* that no model can keep AgentRuntime.run going for ever.
THEOREM RunsRunDownHolds == AgentSpec => RunsRunDown
<1>1. BudgetInvariant /\ [AgentNext]_agentVars =>
        [\A r \in Runs : /\ StepsLeft(r)' <= StepsLeft(r)
                         /\ AgentRun(r) => StepsLeft(r)' < StepsLeft(r)]_agentVars
    BY NextRunsDown
<1> QED
    BY <1>1, BudgetInvariantHolds, PTL DEF AgentSpec, RunsRunDown

\* What is left of a run is a number, and never more than MaxIterations and the
\* attempts of their model calls allow: with RunsRunDown, a bound on its steps.
THEOREM StepsAreBounded ==
    AgentSpec => [](\A r \in Runs :
        StepsLeft(r) \in Nat /\ StepsLeft(r) <= (MaxAttempts + 1) * (MaxIterations[r] + 1) + 2)
<1>1. ASSUME BudgetInvariant, NEW r \in Runs
      PROVE  StepsLeft(r) \in Nat /\ StepsLeft(r) <= (MaxAttempts + 1) * (MaxIterations[r] + 1) + 2
  <2>1. /\ iterations_used[r] \in Nat /\ MaxIterations[r] \in Nat /\ attempt[r] \in Nat
        /\ apc[r] \in ApcValues
      BY <1>1, BudgetAssumption DEF BudgetInvariant, AgentTypeOK
  <2>2. /\ iterations_used[r] <= MaxIterations[r] + 1
        /\ apc[r] \in {"idle", "iterate", "model"} => iterations_used[r] <= MaxIterations[r]
        /\ apc[r] = "model" => attempt[r] < MaxAttempts
      BY <1>1 DEF BudgetInvariant, IterationsCounted, RequestsCounted
  <2> QED
      BY <2>1, <2>2 DEF StepsLeft, MaxAttempts
<1>2. BudgetInvariant =>
        \A r \in Runs :
            StepsLeft(r) \in Nat /\ StepsLeft(r) <= (MaxAttempts + 1) * (MaxIterations[r] + 1) + 2
    BY <1>1
<1> QED
    BY <1>2, BudgetInvariantHolds, PTL

-----------------------------------------------------------------------------
(* A rejection is not forgotten. *)

\* A rejected action whose handler is done has failed the execution.  Nothing is
\* rejected before the run is stored, which would write another status.
RejectionIsFinal ==
    /\ \A r \in Runs : approval[r] \in {"approved", "rejected"} => stored
    /\ \A r \in Runs : approval[r] = "rejected" => r \in failing \/ exec_status = "failed"
    /\ \A r \in failing : approval[r] = "rejected"

\* The safety half of RejectionFailsExecution, for every number of runs and
\* reviewers who decide once the execution is stored: a rejection that is no
\* longer on its way has marked the execution failed, and nothing undoes that.
THEOREM RejectionIsFinalHolds ==
    ASSUME DecideAfterStore
    PROVE  AgentSpec => [](RejectionIsFinal)
<1> DEFINE I == BudgetInvariant /\ RejectionIsFinal
<1>1. AgentInit => RejectionIsFinal
    BY DEF AgentInit, RejectionIsFinal
<1>2. ASSUME BudgetInvariant, RejectionIsFinal, [AgentNext]_agentVars
      PROVE  RejectionIsFinal'
  <2>1. ASSUME NEW r \in Runs, AgentRun(r) PROVE RejectionIsFinal'
    <3>1. UNCHANGED <<failing, exec_status, stored>>
        BY <2>1 DEF AgentRun, StartRun, InvalidConfig, IterationRefused, StateFails, Iterate,
           RateLimited, ModelCallFails, UnknownAction, RefuseTool, AskApproval, ToolRefused,
           UseTool, FailAnswered, FinalAnswer, RecordRun, dbVars
    <3>2. \/ approval' = approval
          \/ /\ apc[r] = "model"
             /\ \E a \in ApprovalRequested : approval' = [approval EXCEPT ![r] = a]
        BY <2>1 DEF AgentRun, StartRun, InvalidConfig, IterationRefused, StateFails, Iterate,
           RateLimited, ModelCallFails, UnknownAction, RefuseTool, AskApproval, Answered,
           ToolRefused, UseTool, FailAnswered, FinalAnswer, RecordRun, dbVars
    <3>3. apc[r] = "model" => approval[r] = "none"
        BY <1>2 DEF BudgetInvariant, ApprovalGate
    <3>4. approval \in [Runs -> ApprovalValues] /\ failing \subseteq Runs
        BY <1>2 DEF BudgetInvariant, AgentTypeOK
    <3>5. CASE approval' = approval
        BY <1>2, <3>1, <3>5 DEF RejectionIsFinal
    <3>6. CASE apc[r] = "model" /\ \E a \in ApprovalRequested :
                  approval' = [approval EXCEPT ![r] = a]
      <4>1. \A q \in Runs : \/ approval'[q] = approval[q]
                            \/ approval'[q] \in {"pending", "lost"}
          BY <3>4, <3>6 DEF ApprovalRequested
      <4>2. r \notin failing
          BY <1>2, <3>3, <3>6 DEF RejectionIsFinal
      <4>3. \A q \in failing : approval'[q] = approval[q]
          BY <3>4, <3>6, <4>2
      <4> QED
          BY <1>2, <3>1, <4>1, <4>3 DEF RejectionIsFinal
    <3> QED
        BY <3>2, <3>5, <3>6
  <2>2. CASE StoreExecution
    <3>1. \A r \in Runs : approval[r] # "rejected"
        BY <1>2, <2>2 DEF StoreExecution, RejectionIsFinal
    <3> QED
        BY <1>2, <2>2, <3>1 DEF StoreExecution, RejectionIsFinal
  <2>3. ASSUME NEW r \in Runs, ApproveAction(r) \/ RejectAction(r) PROVE RejectionIsFinal'
    <3>1. /\ stored /\ approval[r] = "pending"
          /\ UNCHANGED <<stored, exec_status>>
        BY <2>3 DEF ApproveAction, RejectAction, resolve_approval
    <3>2. approval \in [Runs -> ApprovalValues] /\ failing \subseteq Runs
        BY <1>2 DEF BudgetInvariant, AgentTypeOK
    <3>3. \A q \in Runs : q # r => approval'[q] = approval[q]
        BY <2>3, <3>2 DEF ApproveAction, RejectAction, resolve_approval
    <3>4. \/ approval'[r] = "approved" /\ failing' = failing
          \/ approval'[r] = "rejected" /\ failing' = failing \cup {r}
        BY <2>3, <3>2 DEF ApproveAction, RejectAction, resolve_approval
    <3> QED
        BY <1>2, <3>1, <3>2, <3>3, <3>4 DEF RejectionIsFinal
  <2>4. ASSUME NEW r \in Runs, FailExecution(r) PROVE RejectionIsFinal'
      BY <1>2, <2>4 DEF FailExecution, RejectionIsFinal
  <2>5. CASE UNCHANGED agentVars
      BY <1>2, <2>5 DEF RejectionIsFinal, agentVars, dbVars
  <2> QED
      BY <1>2, <2>1, <2>2, <2>3, <2>4, <2>5 DEF AgentNext
<1> QED
    BY <1>1, <1>2, BudgetInvariantHolds, PTL DEF AgentSpec

=============================================================================
