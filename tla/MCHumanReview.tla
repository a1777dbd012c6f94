---------------------------- MODULE MCHumanReview ----------------------------
(***************************************************************************)
(* Two plans for HumanReview.  "Chain": two reviews one after the other,   *)
(* with a task that may fail beside the first one and a ticket-only review *)
(* at the end.  "Parallel": two reviews side by side, each gating a task.  *)
(***************************************************************************)
EXTENDS HumanReview, TLC

ChainSteps == {"enrich", "review1", "review2", "notify"}

ChainDependsOn ==
    [s \in ChainSteps |-> CASE s = "review2" -> {"review1", "enrich"}
                            [] s = "notify"  -> {"review2"}
                            [] OTHER         -> {}]

ChainKind ==
    [s \in ChainSteps |-> CASE s \in {"review1", "review2"} -> "human_review"
                            [] s = "notify"                 -> "ticket_only"
                            [] OTHER                        -> "task"]

ChainCond == [s \in ChainSteps |-> {}]

ParallelSteps == {"review1", "review2", "pay1", "pay2"}

ParallelDependsOn ==
    [s \in ParallelSteps |-> CASE s = "pay1" -> {"review1"}
                               [] s = "pay2" -> {"review2"}
                               [] OTHER      -> {}]

ParallelKind ==
    [s \in ParallelSteps |-> IF s \in {"review1", "review2"}
                             THEN "human_review" ELSE "task"]

ParallelCond == [s \in ParallelSteps |-> {}]

NoSeeds == {}

=============================================================================
