--------------------------- MODULE MCConfiguration ----------------------------
(***************************************************************************)
(* Two of most things, so that two requests can meet over one row and a    *)
(* choice between two rows can go wrong.                                   *)
(***************************************************************************)
EXTENDS Configuration, TLC

MCPackPlans == ("pack" :> <<"a", "b">>)
MCStepSets  == {{}, {[key |-> "k", detail |-> TRUE]}}

MCRules == {[auto |-> 80, manual |-> 50, mode |-> "STRICT_SINGLE"],
            [auto |-> 80, manual |-> 50, mode |-> "AUTO_ALL"],
            [auto |-> 95, manual |-> 75, mode |-> "AUTO_SUBSET"]}

MCRawChecks == {[severity |-> "CRITICAL", passed |-> "true",  status |-> "none"],
                [severity |-> "WARNING",  passed |-> "false", status |-> "PASS"],
                [severity |-> "high",     passed |-> "none",  status |-> "none"]}

=============================================================================
