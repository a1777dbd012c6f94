------------------------------- MODULE PlanRun -------------------------------
(***************************************************************************)
(* What execute_plan promises its caller, without futures, batches or pool *)
(* workers: a ledger with one entry per step.  A step is submitted at most *)
(* once, after its dependencies are closed; it closes with a result, an    *)
(* error or a skip; a pause stops submissions, an abort drops what is not  *)
(* closed; and the call returns when nothing is in flight and nothing more *)
(* can run.  PlanEngine is shown to implement this specification.          *)
(***************************************************************************)
EXTENDS PlanDef

CONSTANT Calls

VARIABLES
    phase,          \* [Calls -> {"idle", "active", "returned"}]
    error_policy,   \* [Calls -> AllPolicies]
    entry,          \* [Calls -> [Steps -> Entries]]
    mode            \* [Calls -> {"normal", "paused", "aborted", "both"}]

runVars == <<phase, error_policy, entry, mode>>

Entries == {"absent", "open", "inflight", "result", "error", "skipped"}

Closed(e) == {s \in Steps : e[s] \in {"result", "error", "skipped"}}

Paused(c)  == mode[c] \in {"paused", "both"}
Aborted(c) == mode[c] \in {"aborted", "both"}

RunInit ==
    /\ phase = [c \in Calls |-> "idle"]
    /\ error_policy \in [Calls -> Policies]
    /\ entry = [c \in Calls |-> [s \in Steps |-> "absent"]]
    /\ mode  = [c \in Calls |-> "normal"]

\* The call starts, with some steps closed by its seed.
Start(c) ==
    /\ phase[c] = "idle"
    /\ phase' = [phase EXCEPT ![c] = "active"]
    /\ \E seed \in SUBSET Steps :
          entry' = [entry EXCEPT ![c] =
                       [s \in Steps |-> IF s \in seed THEN "result"
                                        ELSE IF s \in Enabled THEN "open" ELSE "absent"]]
    /\ UNCHANGED <<error_policy, mode>>

\* Open steps with a failed dependency are skipped, under dependent_fail, and
\* some whose dependencies are closed go in flight, unless paused.
Submit(c) ==
    /\ phase[c] = "active"
    /\ ~Aborted(c)
    /\ \E skip, go \in SUBSET {s \in Steps : entry[c][s] = "open"} :
          LET closed == Closed(entry[c]) \cup skip
          IN  /\ skip \cap go = {}
              /\ \A s \in skip : /\ error_policy[c] = "dependent_fail"
                                 /\ \E d \in DependsOn[s] : entry[c][d] = "error"
              /\ \A s \in go : /\ DependsOn[s] \subseteq closed
                               /\ error_policy[c] = "dependent_fail" =>
                                     \A d \in DependsOn[s] : entry[c][d] # "error"
              /\ go # {} => ~Paused(c)
              /\ entry' = [entry EXCEPT ![c] =
                              [s \in Steps |-> IF s \in skip THEN "skipped"
                                               ELSE IF s \in go THEN "inflight" ELSE @[s]]]
    /\ UNCHANGED <<phase, error_policy, mode>>

\* A step in flight closes; a human review may pause the call, a failure under
\* fail_fast aborts it.
Close(c, s) ==
    /\ phase[c] = "active"
    /\ entry[c][s] = "inflight"
    /\ ~Aborted(c)
    /\ \/ /\ entry' = [entry EXCEPT ![c][s] = "result"]
          /\ mode'  = [mode EXCEPT ![c] = IF Kind[s] = "human_review" THEN "paused" ELSE @]
       \/ /\ entry' = [entry EXCEPT ![c][s] = "error"]
          /\ mode'  = [mode EXCEPT ![c] =
                          IF error_policy[c] # "fail_fast" THEN @
                          ELSE IF Paused(c) THEN "both" ELSE "aborted"]
    /\ UNCHANGED <<phase, error_policy>>

\* After an abort, steps that are in flight or open drop out of the ledger.
Drop(c) ==
    /\ phase[c] = "active"
    /\ Aborted(c)
    /\ \E gone \in SUBSET {s \in Steps : entry[c][s] \in {"open", "inflight"}} :
          entry' = [entry EXCEPT ![c] =
                       [s \in Steps |-> IF s \in gone THEN "absent" ELSE @[s]]]
    /\ UNCHANGED <<phase, error_policy, mode>>

\* The call returns: nothing is in flight, and no open step could run that has
\* neither a condition nor an open dependency, unless it paused or aborted.
Finish(c) ==
    /\ phase[c] = "active"
    /\ \A s \in Steps : entry[c][s] # "inflight"
    /\ mode[c] = "normal" =>
          \A s \in Steps : entry[c][s] = "open" =>
              Cond[s] # {} \/ ~(DependsOn[s] \subseteq Closed(entry[c]))
    /\ phase' = [phase EXCEPT ![c] = "returned"]
    /\ UNCHANGED <<error_policy, entry, mode>>

RunNext ==
    \E c \in Calls :
        \/ Start(c)
        \/ Submit(c)
        \/ \E s \in Steps : Close(c, s)
        \/ Drop(c)
        \/ Finish(c)

RunSpec == RunInit /\ [][RunNext]_runVars

=============================================================================
