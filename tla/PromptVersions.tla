---------------------------- MODULE PromptVersions ----------------------------
(***************************************************************************)
(* The versions of one prompt: the handlers of Prompt Builder's            *)
(* api/prompts.py that create, publish, roll back and edit them, as the    *)
(* READ COMMITTED transactions they are.                                   *)
(*                                                                         *)
(* A session sends one request after another; a request is a transaction,  *)
(* a transaction a list of SQL statements (stmts holds the rest of it),    *)
(* and each action is one statement.  A statement sees what is committed   *)
(* when it starts, and its own transaction's writes; a row that another    *)
(* transaction has written is locked until that one ends.  Rows are        *)
(* reduced to their status, their schema columns and whether they hold a   *)
(* compiled snapshot.  The prompt's own row is reduced to its lock: any    *)
(* client may set its status to anything with PUT /prompts/{id}.           *)
(***************************************************************************)
EXTENDS Naturals, FiniteSets, Sequences

CONSTANTS
    Sessions,       \* clients, each with at most one request at a time
    Ops,            \* [Sessions -> SUBSET AllOps]: what a session asks for
    Schemas,        \* the contents of the schema columns
    EmptySchema,    \* the one a first version starts with
    MaxVersions     \* bound on the number of versions

AllOps       == {"create", "schema", "publish", "publish_number", "rollback",
                 "archive", "blocks"}
InsertingOps == {"create", "schema", "publish"}
NumberOps    == {"publish_number", "rollback"}
Numbers      == 1..MaxVersions

ASSUME VersionAssumption ==
    /\ IsFiniteSet(Sessions)
    /\ Ops \in [Sessions -> SUBSET AllOps]
    /\ EmptySchema \in Schemas
    /\ MaxVersions \in Nat

VARIABLES
    versions,   \* [Numbers -> Rows]: the committed rows of prompt_versions
    writes,     \* [Sessions -> [Numbers -> Rows]]: those a transaction has written
    op,         \* [Sessions -> AllOps \cup {"none"}]
    stmts,      \* [Sessions -> Seq(Statements)]: the statements to come
    target,     \* [Sessions -> Nat]: version_number the request is about
    payload,    \* [Sessions -> Schemas]: schema columns to be written
    todo,       \* [Sessions -> SUBSET Numbers]: rows left of an UPDATE
    holds       \* SUBSET Sessions: has written the row of prompts

txVars == <<op, stmts, target, payload, todo>>
vars   == <<versions, writes, txVars, holds>>

Statuses   == {"absent", "draft", "published", "deprecated"}
Rows       == [status : Statuses, schema : Schemas, compiled : BOOLEAN]
Statements == {"lookup", "find_draft", "next", "carry", "insert", "write_schema",
               "deprecate", "deprecating", "promote", "touch", "commit"}

NoRow    == [status |-> "absent", schema |-> EmptySchema, compiled |-> FALSE]
NoWrites == [v \in Numbers |-> NoRow]

Init ==
    /\ versions = NoWrites
    /\ writes  = [t \in Sessions |-> NoWrites]
    /\ op      = [t \in Sessions |-> "none"]
    /\ stmts   = [t \in Sessions |-> << >>]
    /\ target  = [t \in Sessions |-> 0]
    /\ payload = [t \in Sessions |-> EmptySchema]
    /\ todo    = [t \in Sessions |-> {}]
    /\ holds   = {}

-----------------------------------------------------------------------------
(* What a transaction sees, and what it has to wait for. *)

Written(t) == {v \in Numbers : writes[t][v] # NoRow}

Sees(t, v) == IF v \in Written(t) THEN writes[t][v] ELSE versions[v]

Present(t) == {v \in Numbers : Sees(t, v).status # "absent"}

WithStatus(t, st) == {v \in Numbers : Sees(t, v).status = st}

\* LIMIT 1 of an ORDER BY version_number DESC; 0 for no row.
Latest(S) == IF S = {} THEN 0 ELSE CHOOSE v \in S : \A w \in S : w <= v

Locked(t, v) == \E u \in Sessions \ {t} : v \in Written(u)

Active == {t \in Sessions : op[t] # "none"}

Now(t, s) == stmts[t] # << >> /\ Head(stmts[t]) = s

\* The statement a transaction is at.
Heading(t) == IF stmts[t] = << >> THEN "none" ELSE Head(stmts[t])

\* The version rows that the statement a transaction is at has to lock.
Wanted(t) ==
    IF Now(t, "insert") \/ Now(t, "write_schema") \/ Now(t, "promote") THEN {target[t]}
    ELSE IF Now(t, "deprecating") THEN todo[t] ELSE {}

WaitsFor(t, u) ==
    /\ u # t
    /\ \/ Wanted(t) # {} /\ Wanted(t) \subseteq UNION {Written(w) : w \in Sessions \ {t}}
          /\ Wanted(t) \cap Written(u) # {}
       \/ Now(t, "touch") /\ u \in holds

\* t is one of several transactions each of which waits for another of them.
Deadlocked(t) ==
    \E S \in SUBSET Sessions : t \in S /\ \A u \in S : \E w \in S : WaitsFor(u, w)

-----------------------------------------------------------------------------
(* Requests. *)

InsertDraft == <<"next", "carry", "insert">>

\* Mutant: the prompt is marked published before its versions are touched.
StatusFirst == <<"touch", "deprecate", "deprecating", "promote", "commit">>

\* Steps 3 to 5 of publish_prompt and 2 to 4 of rollback_prompt.
PublishTail == <<"deprecate", "deprecating", "promote", "touch", "commit">>

\* The handlers, as the statements they send in the order they send them.
create_prompt_version == InsertDraft \o <<"commit">>
update_prompt_schema  == <<"find_draft", "write_schema", "touch", "commit">>
publish_prompt        == <<"find_draft">> \o PublishTail
rollback_prompt       == <<"lookup">> \o PublishTail
delete_prompt         == <<"touch", "commit">>

\* Blocks, inputs and bindings are rewritten by PUTs that lock none of the rows
\* here but the prompt's, to bump updated_at.
replace_prompt_blocks == <<"touch", "commit">>

\* publish_prompt with a version number looks that version up, as rollback does.
Program(o) ==
    CASE o = "create"      -> create_prompt_version
      [] o = "schema"      -> update_prompt_schema
      [] o = "publish"     -> publish_prompt
      [] o \in NumberOps   -> rollback_prompt
      [] o = "archive"     -> delete_prompt
      [] o = "blocks"      -> replace_prompt_blocks

\* Room for one more version, whatever the requests in progress insert.
Room == Cardinality({v \in Numbers : versions[v] # NoRow})
          + Cardinality({t \in Active : op[t] \in InsertingOps}) < MaxVersions

\* A request arrives, and its transaction begins.
Begin(t, o, v, x) ==
    /\ op[t] = "none"
    /\ o \in InsertingOps => Room
    /\ op'      = [op EXCEPT ![t] = o]
    /\ stmts'   = [stmts EXCEPT ![t] = Program(o)]
    /\ target'  = [target EXCEPT ![t] = IF o \in NumberOps THEN v ELSE 0]
    /\ payload' = [payload EXCEPT ![t] = IF o = "schema" THEN x ELSE EmptySchema]
    /\ UNCHANGED <<versions, writes, todo, holds>>

\* The transaction is over: its locks are released, its session is free.
End(t) ==
    /\ writes'  = [writes EXCEPT ![t] = NoWrites]
    /\ op'      = [op EXCEPT ![t] = "none"]
    /\ stmts'   = [stmts EXCEPT ![t] = << >>]
    /\ target'  = [target EXCEPT ![t] = 0]
    /\ payload' = [payload EXCEPT ![t] = EmptySchema]
    /\ todo'    = [todo EXCEPT ![t] = {}]
    /\ holds'   = holds \ {t}

\* HTTPException, a statement that fails, or a lost connection: rollback.
Rollback(t) == End(t) /\ UNCHANGED versions

Advance(t) == stmts' = [stmts EXCEPT ![t] = Tail(@)]

\* SELECT of the version asked for; 404 without one, 400 if it is published.
Lookup(t) ==
    /\ Now(t, "lookup")
    /\ IF target[t] \in Present(t) \ WithStatus(t, "published")
       THEN Advance(t) /\ UNCHANGED <<versions, writes, op, target, payload, todo, holds>>
       ELSE Rollback(t)

\* SELECT of the latest draft.  Without one publish inserts a snapshot first, and
\* schema a draft with its payload.
FindDraft(t) ==
    LET v == Latest(WithStatus(t, "draft"))
    IN  /\ Now(t, "find_draft")
        /\ target' = [target EXCEPT ![t] = v]
        /\ stmts'  = [stmts EXCEPT ![t] =
                         IF v # 0 THEN Tail(@)
                         ELSE IF op[t] = "publish" THEN InsertDraft \o Tail(@)
                         ELSE <<"next", "insert">> \o Tail(Tail(@))]
        /\ UNCHANGED <<versions, writes, op, payload, todo, holds>>

\* COALESCE(MAX(version_number), 0) + 1
NextNumber(v) == v + 1

ReadNext(t) ==
    /\ Now(t, "next")
    /\ target' = [target EXCEPT ![t] = NextNumber(Latest(Present(t)))]
    /\ Advance(t)
    /\ UNCHANGED <<versions, writes, op, payload, todo, holds>>

\* SELECT of the latest version's schema columns, then of blocks, inputs and
\* bindings for the snapshot.
CarryForward(t) ==
    LET v == Latest(Present(t))
    IN  /\ Now(t, "carry")
        /\ payload' = [payload EXCEPT ![t] =
                          IF v = 0 THEN EmptySchema ELSE Sees(t, v).schema]
        /\ Advance(t)
        /\ UNCHANGED <<versions, writes, op, target, todo, holds>>

\* create_prompt_version and publish_prompt store a snapshot in the row they
\* insert, update_prompt_schema leaves the column at its default, empty.
NewDraft(t) ==
    [status |-> "draft", schema |-> payload[t], compiled |-> op[t] # "schema"]

\* Mutant: a number that is taken is waited for.
InsertWhenFree(t) ==
    LET v == target[t]
    IN  /\ Now(t, "insert")
        /\ ~Locked(t, v)
        /\ versions[v] = NoRow
        /\ writes' = [writes EXCEPT ![t][v] = NewDraft(t)]
        /\ Advance(t)
        /\ UNCHANGED <<versions, op, target, payload, todo, holds>>

\* INSERT of a draft.  UNIQUE(prompt_id, version_number): it waits for an
\* insertion of the same number in progress, and fails on one that is committed.
Insert(t) ==
    LET v == target[t]
    IN  /\ Now(t, "insert")
        /\ ~Locked(t, v)
        /\ IF versions[v] # NoRow THEN Rollback(t)
           ELSE /\ writes' = [writes EXCEPT ![t][v] = NewDraft(t)]
                /\ Advance(t)
                /\ UNCHANGED <<versions, op, target, payload, todo, holds>>

\* UPDATE of the schema columns, by version_id: its status is not asked again.
WriteSchema(t) ==
    LET v == target[t]
    IN  /\ Now(t, "write_schema")
        /\ ~Locked(t, v)
        /\ writes' = [writes EXCEPT ![t][v] = [Sees(t, v) EXCEPT !.schema = payload[t]]]
        /\ Advance(t)
        /\ UNCHANGED <<versions, op, target, payload, todo, holds>>

\* Mutant: no version is deprecated.
NothingPublished(t) == {}

\* The rows UPDATE ... WHERE status = 'published' finds when it starts.
PublishedRows(t) == WithStatus(t, "published")

DeprecateScan(t) ==
    /\ Now(t, "deprecate")
    /\ todo' = [todo EXCEPT ![t] = PublishedRows(t)]
    /\ Advance(t)
    /\ UNCHANGED <<versions, writes, op, target, payload, holds>>

\* Each of them is locked and, once it is, asked again whether it is published.
DeprecateRow(t, v) ==
    /\ Now(t, "deprecating")
    /\ v \in todo[t]
    /\ ~Locked(t, v)
    /\ todo' = [todo EXCEPT ![t] = @ \ {v}]
    /\ writes' = IF Sees(t, v).status # "published" THEN writes
                 ELSE [writes EXCEPT ![t][v] = [Sees(t, v) EXCEPT !.status = "deprecated"]]
    /\ UNCHANGED <<versions, op, stmts, target, payload, holds>>

Deprecated(t) ==
    /\ Now(t, "deprecating")
    /\ todo[t] = {}
    /\ Advance(t)
    /\ UNCHANGED <<versions, writes, op, target, payload, todo, holds>>

\* Mutant: a version that has been deprecated in the meantime is left as it is.
PromoteDraft(row) == IF row.status = "draft" THEN [row EXCEPT !.status = "published"] ELSE row

PromotedRow(row) == [row EXCEPT !.status = "published"]

\* UPDATE of the target to published, whatever its status is by now.
Promote(t) ==
    LET v == target[t]
    IN  /\ Now(t, "promote")
        /\ ~Locked(t, v)
        /\ writes' = [writes EXCEPT ![t][v] = PromotedRow(Sees(t, v))]
        /\ Advance(t)
        /\ UNCHANGED <<versions, op, target, payload, todo, holds>>

\* UPDATE of the prompt's row: its status, or updated_at only.
Touch(t) ==
    /\ Now(t, "touch")
    /\ holds \subseteq {t}
    /\ holds' = {t}
    /\ Advance(t)
    /\ UNCHANGED <<versions, writes, op, target, payload, todo>>

Commit(t) ==
    /\ Now(t, "commit")
    /\ versions' = [v \in Numbers |-> Sees(t, v)]
    /\ End(t)

-----------------------------------------------------------------------------

Step(t) ==
    \/ Lookup(t) \/ FindDraft(t) \/ ReadNext(t) \/ CarryForward(t)
    \/ Insert(t) \/ WriteSchema(t)
    \/ DeprecateScan(t) \/ Deprecated(t) \/ \E v \in Numbers : DeprecateRow(t, v)
    \/ Promote(t) \/ Touch(t) \/ Commit(t)

\* A request fails half way, or the database picks it to break a deadlock.
Break(t) == t \in Active /\ Rollback(t)

Next ==
    \E t \in Sessions :
        \/ \E o \in Ops[t], v \in Numbers, x \in Schemas : Begin(t, o, v, x)
        \/ Step(t)
        \/ Break(t)

\* A handler goes on, a lock goes to those who wait for it in turn, and the
\* database breaks a deadlock.
Fairness ==
    \A t \in Sessions : SF_vars(Step(t)) /\ WF_vars(Deadlocked(t) /\ Break(t))

Spec == Init /\ [][Next]_vars /\ Fairness

-----------------------------------------------------------------------------
(* Properties. *)

PublishedVersions == {v \in Numbers : versions[v].status = "published"}

\* "Only one version per prompt may be `published` at a time."
AtMostOnePublished == Cardinality(PublishedVersions) <= 1

\* A prompt that has a published version never loses it: a run that asks for the
\* published version finds one, whatever is published or rolled back meanwhile.
StaysPublished == [][PublishedVersions # {} => PublishedVersions' # {}]_vars

\* Requests take their locks in one order (versions, then the prompt), so that
\* none of them ends as the victim of a deadlock.
NoDeadlock == \A t \in Sessions : ~Deadlocked(t)

\* A transaction is at a statement that has nothing to wait for.
Ready(t) ==
    \/ Heading(t) \in {"lookup", "find_draft", "next", "carry", "deprecate", "commit"}
    \/ Heading(t) \in {"insert", "write_schema", "promote"} /\ ~Locked(t, target[t])
    \/ Heading(t) = "deprecating" /\ (todo[t] = {} \/ \E v \in todo[t] : ~Locked(t, v))
    \/ Heading(t) = "touch" /\ holds \subseteq {t}

\* While requests are under way one of them can send its next statement: locks are
\* held by transactions that go on or end, never by one that is over.
SomebodyGoes == Active # {} => \E t \in Active : Ready(t)

\* How far a statement is from the end of its request, by the one order in which
\* all handlers send theirs; and each row that is left to deprecate counts.
Place(s) ==
    CASE s = "none"         -> 0
      [] s = "commit"       -> 1
      [] s = "touch"        -> 2
      [] s = "promote"      -> 3
      [] s = "deprecating"  -> 4
      [] s = "deprecate"    -> MaxVersions + 5
      [] s \in {"insert", "write_schema"}   -> MaxVersions + 6
      [] s = "carry"        -> MaxVersions + 7
      [] s = "next"         -> MaxVersions + 8
      [] s \in {"lookup", "find_draft"}     -> MaxVersions + 9

ToSend(t) == Place(Heading(t)) + Cardinality(todo[t])

\* Nothing sends a request back to a statement it has sent: whatever the others do
\* between its statements, each step is a request that begins, or brings one
\* closer to its end.
RequestsRunDown ==
    [][\E t \in Sessions : /\ op[t] # "none" => ToSend(t)' < ToSend(t)
                           /\ \A u \in Sessions \ {t} : ToSend(u)' = ToSend(u)]_vars

\* A request ends, whoever it has to wait for.
RequestsEnd == \A t \in Sessions : (op[t] # "none") ~> (op[t] = "none")

\* "A version is an immutable snapshot of a prompt's blocks, inputs, output schema
\* and guardrails": what is published holds a snapshot.
PublishedHasSnapshot == \A v \in PublishedVersions : versions[v].compiled

=============================================================================
