---------------------------- MODULE MCPlanEngine ----------------------------
(***************************************************************************)
(* A five-step plan for PlanEngine: a diamond with a human review on one   *)
(* side, a step whose condition needs the review approved, and one step    *)
(* that depends on nothing.                                                *)
(***************************************************************************)
EXTENDS PlanEngine, TLC

MCSteps == {"fetch", "check", "review", "act", "side"}

MCEnabled == MCSteps

MCDependsOn ==
    [s \in MCSteps |-> CASE s = "check"  -> {"fetch"}
                         [] s = "review" -> {"fetch"}
                         [] s = "act"    -> {"check", "review"}
                         [] OTHER        -> {}]

MCKind == [s \in MCSteps |-> IF s = "review" THEN "human_review" ELSE "task"]

MCCond == [s \in MCSteps |-> IF s = "act" THEN {<<"review", "approved">>} ELSE {}]

\* A first run, and the resumptions of a call that paused at "review": each other
\* step that can be over by then has a result, or failed and has none.
MCSeeds ==
    {EmptyResults} \cup
    {[s \in MCSteps |-> CASE s = "review"   -> "approved"
                          [] s \in had      -> "ok"
                          [] OTHER          -> NoResult] : had \in SUBSET {"fetch", "check", "side"}}

=============================================================================
