----------------------------- MODULE MCAgentTask -----------------------------
(***************************************************************************)
(* Two agent steps.  "long" meets its model call and its cost limit,       *)
(* "short" may use no tool at all.  The tools: two read-only ones, one of  *)
(* which costs money, a document tool that needs approval only because the *)
(* policy lists it, a webhook, a tool the steps do not allow, and one they *)
(* allow but nobody registered.                                            *)
(***************************************************************************)
EXTENDS AgentTask, TLC

MCTools == {"prompt_run", "datasource_lookup", "document_generate", "webhook", "adapter_analyze", "ghost"}

MCToolCost == [t \in MCTools |-> IF t = "prompt_run" THEN 2 ELSE 0]

MCRuns == {"long", "short"}

Limit(long, short) == [r \in MCRuns |-> IF r = "long" THEN long ELSE short]

MCMaxIterations == Limit(3, 1)
MCMaxModelCalls == Limit(2, 1)
MCMaxToolCalls  == Limit(2, 0)
MCMaxCost       == Limit(3, 1)

=============================================================================
