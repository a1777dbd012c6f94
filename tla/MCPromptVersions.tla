--------------------------- MODULE MCPromptVersions ---------------------------
(***************************************************************************)
(* Two sessions on one prompt: one that publishes and rolls back and one   *)
(* that edits, or two that publish.                                        *)
(***************************************************************************)
EXTENDS PromptVersions, TLC

OnePublisher ==
    [t \in {"publisher", "editor"} |->
        IF t = "publisher" THEN {"publish", "publish_number", "rollback"}
        ELSE {"create", "schema", "archive", "blocks"}]

TwoPublishers == [t \in {"publisher", "editor"} |-> {"create", "publish", "rollback"}]

=============================================================================
