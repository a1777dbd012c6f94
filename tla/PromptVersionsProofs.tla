-------------------------- MODULE PromptVersionsProofs --------------------------
(***************************************************************************)
(* Theorems about module PromptVersions, for any number of sessions, of    *)
(* versions and of schemas.                                                *)
(*                                                                         *)
(*   StaysPublishedHolds       a prompt never loses its published version, *)
(*                             whatever the sessions ask for               *)
(*   AtMostOnePublishedHolds   it has one at most, if one session          *)
(*                             publishes and rolls back                    *)
(*   NoDeadlockHolds           and then no request is a deadlock's victim  *)
(*   SomebodyGoesHolds         and one of them can always go on            *)
(*   RequestsRunDownHolds      each statement brings a request closer to   *)
(*                             its end, whatever the sessions ask for      *)
(*                                                                         *)
(* Those about one publisher name their hypothesis, LonePublisher; run     *)
(* prompt_versions_race shows what two publishers do.                      *)
(***************************************************************************)
EXTENDS PromptVersions, FiniteSetTheorems, SequenceTheorems, WellFoundedInduction, TLAPS

-----------------------------------------------------------------------------
(* The statements a transaction may still have before it. *)

Publishing == {"publish"} \cup NumberOps

TouchLists  == {<<"touch", "commit">>, <<"commit">>}
CreateLists == {<<"next", "carry", "insert", "commit">>, <<"carry", "insert", "commit">>,
                <<"insert", "commit">>, <<"commit">>}
SchemaLists == {<<"find_draft", "write_schema", "touch", "commit">>,
                <<"write_schema", "touch", "commit">>,
                <<"next", "insert", "touch", "commit">>, <<"insert", "touch", "commit">>}
               \cup TouchLists
TailLists   == {<<"deprecate", "deprecating", "promote", "touch", "commit">>,
                <<"deprecating", "promote", "touch", "commit">>,
                <<"promote", "touch", "commit">>} \cup TouchLists
PublishLists ==
    {<<"find_draft", "deprecate", "deprecating", "promote", "touch", "commit">>,
     <<"next", "carry", "insert", "deprecate", "deprecating", "promote", "touch", "commit">>,
     <<"carry", "insert", "deprecate", "deprecating", "promote", "touch", "commit">>,
     <<"insert", "deprecate", "deprecating", "promote", "touch", "commit">>} \cup TailLists
NumberLists ==
    {<<"lookup", "deprecate", "deprecating", "promote", "touch", "commit">>} \cup TailLists

ListsOf(o) ==
    CASE o = "create"          -> CreateLists
      [] o = "schema"          -> SchemaLists
      [] o = "publish"         -> PublishLists
      [] o \in NumberOps       -> NumberLists
      [] o \in {"archive", "blocks"} -> TouchLists
      [] o = "none"            -> {<< >>}

\* The statements before the first that writes a version, and that one.
Early == {"none", "lookup", "find_draft", "next", "carry", "insert", "write_schema"}

-----------------------------------------------------------------------------
(* The inductive invariant. *)

TypeOK ==
    /\ versions \in [Numbers -> Rows]
    /\ writes \in [Sessions -> [Numbers -> Rows]]
    /\ op \in [Sessions -> AllOps \cup {"none"}]
    /\ DOMAIN stmts = Sessions /\ \A t \in Sessions : stmts[t] \in ListsOf(op[t])
    /\ stmts = [t \in Sessions |-> stmts[t]]
    /\ target \in [Sessions -> Nat]
    /\ payload \in [Sessions -> Schemas]
    /\ todo \in [Sessions -> SUBSET Numbers]
    /\ holds \subseteq Sessions

\* The committed versions are numbered without a gap.
Committed == {v \in Numbers : versions[v] # NoRow}
Filled    == \E k \in 0..MaxVersions : Committed = 1..k

Inserting == {t \in Active : op[t] \in InsertingOps}
Counted   == Cardinality(Committed) + Cardinality(Inserting) <= MaxVersions

\* A row that is there has a status, and one writer at most.
RowsExist ==
    /\ \A v \in Numbers : versions[v].status = "absent" => versions[v] = NoRow
    /\ \A t \in Sessions : \A v \in Numbers : writes[t][v].status = "absent" => writes[t][v] = NoRow

OneWriter ==
    \A t, u \in Sessions : \A v \in Numbers : v \in Written(t) /\ v \in Written(u) => t = u

\* What a statement finds when its turn comes.
Prepared(t) ==
    /\ Heading(t) \in Early => Written(t) = {}
    /\ Heading(t) \in {"carry", "insert"} =>
         target[t] \in Numbers /\ \A w \in Numbers : w < target[t] => versions[w] # NoRow
    /\ Heading(t) = "write_schema" => target[t] \in Numbers /\ versions[target[t]] # NoRow
    /\ Heading(t) \in {"deprecate", "deprecating", "promote"} =>
         target[t] \in Numbers /\ Sees(t, target[t]) # NoRow
    /\ Heading(t) \in {"touch", "commit"} /\ op[t] \in Publishing =>
         target[t] \in Numbers /\ writes[t][target[t]].status = "published"
    /\ t \in holds => Heading(t) = "commit"

\* A transaction that does not publish leaves every status as it is; the one row
\* a transaction adds is the next.
Careful(t) ==
    \A v \in Written(t) :
        /\ versions[v] = NoRow =>
             /\ v = target[t] /\ op[t] \in InsertingOps
             /\ \A w \in Numbers : w < v => versions[w] # NoRow
        /\ op[t] \notin Publishing =>
             \/ writes[t][v].status = versions[v].status
             \/ versions[v] = NoRow /\ writes[t][v].status = "draft"

VersionsInvariant ==
    /\ TypeOK /\ Filled /\ Counted /\ RowsExist /\ OneWriter
    /\ \A t \in Sessions : Prepared(t) /\ Careful(t)

-----------------------------------------------------------------------------
(* With one publisher. *)

LonePublisher ==
    \A t, u \in Sessions : Ops[t] \cap Publishing # {} /\ Ops[u] \cap Publishing # {} => t = u

\* What a publisher has still to deprecate.
Deprecates(t) ==
    /\ Heading(t) = "deprecating" => WithStatus(t, "published") \subseteq todo[t]
    /\ Heading(t) = "promote" => WithStatus(t, "published") = {}
    /\ Heading(t) \in {"touch", "commit"} /\ op[t] \in Publishing =>
         WithStatus(t, "published") \subseteq {target[t]}

LoneInvariant ==
    /\ \A t \in Sessions : op[t] \in Ops[t] \cup {"none"}
    /\ \A t \in Sessions : Deprecates(t)
    /\ \A v, w \in PublishedVersions : v = w

-----------------------------------------------------------------------------
(* Lemmas about the lists of statements. *)

\* A list of statements with one more at its end is one.
LEMMA Longer ==
    ASSUME NEW s \in Seq(Statements), NEW e \in Statements
    PROVE  Append(s, e) \in Seq(Statements)
  BY AppendProperties

\* The tail of a publication.
LEMMA PublishTailList == PublishTail \in Seq(Statements)
  <1>1. /\ "deprecate" \in Statements /\ "deprecating" \in Statements /\ "promote" \in Statements
        /\ "touch" \in Statements /\ "commit" \in Statements
    BY DEF Statements
  <1>2. << >> \in Seq(Statements)
    BY EmptySeq
  <1>3. <<"deprecate">> = Append(<< >>, "deprecate")
    OBVIOUS
  <1>4. <<"deprecate", "deprecating">> = Append(<<"deprecate">>, "deprecating")
    OBVIOUS
  <1>5. <<"deprecate", "deprecating", "promote">> = Append(<<"deprecate", "deprecating">>, "promote")
    OBVIOUS
  <1>6. <<"deprecate", "deprecating", "promote", "touch">>
          = Append(<<"deprecate", "deprecating", "promote">>, "touch")
    OBVIOUS
  <1>7. PublishTail = Append(<<"deprecate", "deprecating", "promote", "touch">>, "commit")
    BY DEF PublishTail
  <1> QED
    BY <1>1, <1>2, <1>3, <1>4, <1>5, <1>6, <1>7, Longer, Zenon

\* The statements that insert a version.
LEMMA InsertDraftList == InsertDraft \in Seq(Statements) /\ <<"next", "insert">> \in Seq(Statements)
  <1>1. "next" \in Statements /\ "carry" \in Statements /\ "insert" \in Statements
    BY DEF Statements
  <1>2. << >> \in Seq(Statements)
    BY EmptySeq
  <1>3. <<"next">> = Append(<< >>, "next")
    OBVIOUS
  <1>4. /\ <<"next", "carry">> = Append(<<"next">>, "carry")
        /\ <<"next", "insert">> = Append(<<"next">>, "insert")
    OBVIOUS
  <1>5. InsertDraft = Append(<<"next", "carry">>, "insert")
    BY DEF InsertDraft
  <1> QED
    BY <1>1, <1>2, <1>3, <1>4, <1>5, Longer, Zenon

\* The short lists.
LEMMA ShortLists ==
    /\ <<"find_draft">> \in Seq(Statements) /\ <<"lookup">> \in Seq(Statements)
    /\ <<"commit">> \in Seq(Statements) /\ <<"touch", "commit">> \in Seq(Statements)
  <1>1. /\ "find_draft" \in Statements /\ "lookup" \in Statements
        /\ "commit" \in Statements /\ "touch" \in Statements
    BY DEF Statements
  <1>2. << >> \in Seq(Statements)
    BY EmptySeq
  <1>3. /\ <<"find_draft">> = Append(<< >>, "find_draft") /\ <<"lookup">> = Append(<< >>, "lookup")
        /\ <<"commit">> = Append(<< >>, "commit") /\ <<"touch">> = Append(<< >>, "touch")
    OBVIOUS
  <1>4. <<"touch", "commit">> = Append(<<"touch">>, "commit")
    OBVIOUS
  <1> QED
    BY <1>1, <1>2, <1>3, <1>4, Longer, Zenon

\* What a concatenation is, place by place.
LEMMA Joined ==
    ASSUME NEW s \in Seq(Statements), NEW u \in Seq(Statements)
    PROVE  /\ s \o u = [i \in 1..(Len(s) + Len(u)) |-> (s \o u)[i]]
           /\ Len(s \o u) = Len(s) + Len(u)
           /\ \A i \in 1..Len(s) : (s \o u)[i] = s[i]
           /\ \A i \in 1..Len(u) : (s \o u)[Len(s) + i] = u[i]
  <1> DEFINE w == s \o u
  <1>0. Len(s) \in Nat /\ Len(u) \in Nat
    BY LenProperties
  <1>1. /\ w \in Seq(Statements) /\ Len(w) = Len(s) + Len(u)
        /\ \A i \in 1..(Len(s) + Len(u)) : w[i] = IF i <= Len(s) THEN s[i] ELSE u[i - Len(s)]
    BY ConcatProperties
  <1>2. w = [i \in 1..Len(w) |-> w[i]]
    BY <1>1, LenProperties, Zenon
  <1> HIDE DEF w
  <1>3. \A i \in 1..Len(s) : w[i] = s[i]
    BY <1>0, <1>1
  <1>4. ASSUME NEW i \in 1..Len(u) PROVE w[Len(s) + i] = u[i]
    <2>1. Len(s) + i \in 1..(Len(s) + Len(u)) /\ ~(Len(s) + i <= Len(s)) /\ (Len(s) + i) - Len(s) = i
      BY <1>0
    <2> QED
      BY <1>1, <2>1
  <1> QED
    BY <1>1, <1>2, <1>3, <1>4 DEF w

\* The handlers' lists, written out.
LEMMA ListsWritten ==
    /\ create_prompt_version = <<"next", "carry", "insert", "commit">>
    /\ publish_prompt = <<"find_draft", "deprecate", "deprecating", "promote", "touch", "commit">>
    /\ rollback_prompt = <<"lookup", "deprecate", "deprecating", "promote", "touch", "commit">>
    /\ InsertDraft \o PublishTail
         = <<"next", "carry", "insert", "deprecate", "deprecating", "promote", "touch", "commit">>
    /\ <<"next", "insert">> \o <<"touch", "commit">> = <<"next", "insert", "touch", "commit">>
  <1>1. Len(PublishTail) = 5 /\ Len(InsertDraft) = 3 /\ Len(<<"next", "insert">>) = 2
        /\ Len(<<"find_draft">>) = 1 /\ Len(<<"lookup">>) = 1 /\ Len(<<"commit">>) = 1
        /\ Len(<<"touch", "commit">>) = 2
    BY DEF PublishTail, InsertDraft
  <1>2. create_prompt_version = <<"next", "carry", "insert", "commit">>
    <2> DEFINE w == InsertDraft \o <<"commit">>
    <2>1. /\ w = [i \in 1..4 |-> w[i]] /\ Len(w) = 4
          /\ w[1] = InsertDraft[1] /\ w[2] = InsertDraft[2] /\ w[3] = InsertDraft[3]
          /\ w[4] = <<"commit">>[1]
      <3>1. /\ w = [i \in 1..(Len(InsertDraft) + Len(<<"commit">>)) |-> w[i]]
            /\ Len(w) = Len(InsertDraft) + Len(<<"commit">>)
            /\ \A i \in 1..Len(InsertDraft) : w[i] = InsertDraft[i]
            /\ \A i \in 1..Len(<<"commit">>) : w[Len(InsertDraft) + i] = <<"commit">>[i]
        BY Joined, InsertDraftList, ShortLists, Zenon
      <3> HIDE DEF w
      <3>2. /\ w = [i \in 1..(3 + 1) |-> w[i]] /\ Len(w) = 3 + 1
            /\ \A i \in 1..3 : w[i] = InsertDraft[i]
            /\ \A i \in 1..1 : w[3 + i] = <<"commit">>[i]
        BY <1>1, <3>1
      <3> QED
        BY <3>2
    <2> HIDE DEF w
    <2>2. w = <<"next", "carry", "insert", "commit">>
      BY <2>1 DEF InsertDraft
    <2> QED
      BY <2>2 DEF w, create_prompt_version
  <1>3. ASSUME NEW x \in {"find_draft", "lookup"}
        PROVE  <<x>> \o PublishTail = <<x, "deprecate", "deprecating", "promote", "touch", "commit">>
    <2> DEFINE w == <<x>> \o PublishTail
    <2>1. /\ w = [i \in 1..6 |-> w[i]] /\ Len(w) = 6
          /\ w[1] = x
          /\ w[2] = PublishTail[1] /\ w[3] = PublishTail[2] /\ w[4] = PublishTail[3]
          /\ w[5] = PublishTail[4] /\ w[6] = PublishTail[5]
      <3>0. <<x>> \in Seq(Statements) /\ Len(<<x>>) = 1 /\ <<x>>[1] = x
        BY ShortLists
      <3>1. /\ w = [i \in 1..(Len(<<x>>) + Len(PublishTail)) |-> w[i]]
            /\ Len(w) = Len(<<x>>) + Len(PublishTail)
            /\ \A i \in 1..Len(<<x>>) : w[i] = <<x>>[i]
            /\ \A i \in 1..Len(PublishTail) : w[Len(<<x>>) + i] = PublishTail[i]
        BY <3>0, Joined, PublishTailList, Zenon
      <3> HIDE DEF w
      <3>2. /\ w = [i \in 1..(1 + 5) |-> w[i]] /\ Len(w) = 1 + 5
            /\ \A i \in 1..1 : w[i] = <<x>>[i]
            /\ \A i \in 1..5 : w[1 + i] = PublishTail[i]
        BY <1>1, <3>1, <3>0
      <3> QED
        BY <3>0, <3>2
    <2> HIDE DEF w
    <2>2. w = <<x, "deprecate", "deprecating", "promote", "touch", "commit">>
      BY <2>1 DEF PublishTail
    <2> QED
      BY <2>2 DEF w
  <1>4. InsertDraft \o PublishTail
         = <<"next", "carry", "insert", "deprecate", "deprecating", "promote", "touch", "commit">>
    <2> DEFINE w == InsertDraft \o PublishTail
    <2>1. /\ w = [i \in 1..8 |-> w[i]] /\ Len(w) = 8
          /\ w[1] = InsertDraft[1] /\ w[2] = InsertDraft[2] /\ w[3] = InsertDraft[3]
          /\ w[4] = PublishTail[1] /\ w[5] = PublishTail[2] /\ w[6] = PublishTail[3]
          /\ w[7] = PublishTail[4] /\ w[8] = PublishTail[5]
      <3>1. /\ w = [i \in 1..(Len(InsertDraft) + Len(PublishTail)) |-> w[i]]
            /\ Len(w) = Len(InsertDraft) + Len(PublishTail)
            /\ \A i \in 1..Len(InsertDraft) : w[i] = InsertDraft[i]
            /\ \A i \in 1..Len(PublishTail) : w[Len(InsertDraft) + i] = PublishTail[i]
        BY Joined, PublishTailList, InsertDraftList, Zenon
      <3> HIDE DEF w
      <3>2. /\ w = [i \in 1..(3 + 5) |-> w[i]] /\ Len(w) = 3 + 5
            /\ \A i \in 1..3 : w[i] = InsertDraft[i]
            /\ \A i \in 1..5 : w[3 + i] = PublishTail[i]
        BY <1>1, <3>1
      <3> QED
        BY <3>2
    <2> HIDE DEF w
    <2>2. w = <<"next", "carry", "insert", "deprecate", "deprecating", "promote", "touch", "commit">>
      BY <2>1 DEF PublishTail, InsertDraft
    <2> QED
      BY <2>2 DEF w
  <1>5. <<"next", "insert">> \o <<"touch", "commit">> = <<"next", "insert", "touch", "commit">>
    <2> DEFINE w == <<"next", "insert">> \o <<"touch", "commit">>
    <2>1. /\ w = [i \in 1..4 |-> w[i]] /\ Len(w) = 4
          /\ w[1] = "next" /\ w[2] = "insert" /\ w[3] = "touch" /\ w[4] = "commit"
      <3>1. /\ w = [i \in 1..(Len(<<"next", "insert">>) + Len(<<"touch", "commit">>)) |-> w[i]]
            /\ Len(w) = Len(<<"next", "insert">>) + Len(<<"touch", "commit">>)
            /\ \A i \in 1..Len(<<"next", "insert">>) : w[i] = <<"next", "insert">>[i]
            /\ \A i \in 1..Len(<<"touch", "commit">>) : w[Len(<<"next", "insert">>) + i] = <<"touch", "commit">>[i]
        BY Joined, InsertDraftList, ShortLists, Zenon
      <3> HIDE DEF w
      <3>2. /\ w = [i \in 1..(2 + 2) |-> w[i]] /\ Len(w) = 2 + 2
            /\ \A i \in 1..2 : w[i] = <<"next", "insert">>[i]
            /\ \A i \in 1..2 : w[2 + i] = <<"touch", "commit">>[i]
        BY <1>1, <3>1
      <3> QED
        BY <3>2
    <2> HIDE DEF w
    <2>2. w = <<"next", "insert", "touch", "commit">>
      BY <2>1
    <2> QED
      BY <2>2 DEF w
  <1> QED
    BY <1>2, <1>3, <1>4, <1>5 DEF publish_prompt, rollback_prompt

\* What follows what: where a transaction stands after each of its statements.
Follows(o, s) ==
    LET next == Tail(s)
        goes == next \in ListsOf(o) /\ next # << >>
    IN  /\ Head(s) \in Statements
        /\ Head(s) = "lookup" => o \in NumberOps /\ goes /\ Head(next) = "deprecate"
        /\ Head(s) = "find_draft" => o \in {"publish", "schema"} /\ goes
        /\ Head(s) = "find_draft" /\ o = "publish" =>
             Head(next) = "deprecate" /\ next = PublishTail
        /\ Head(s) = "find_draft" /\ o = "schema" =>
             Head(next) = "write_schema" /\ Tail(next) = <<"touch", "commit">>
        /\ Head(s) = "next" => o \in InsertingOps /\ goes /\ Head(next) \in {"carry", "insert"}
        /\ Head(s) = "carry" => o \in InsertingOps /\ goes /\ Head(next) = "insert"
        /\ Head(s) = "insert" =>
             /\ o \in InsertingOps /\ goes
             /\ Head(next) \in (IF o \in Publishing THEN {"deprecate"} ELSE {"touch", "commit"})
        /\ Head(s) = "write_schema" => o = "schema" /\ goes /\ Head(next) = "touch"
        /\ Head(s) = "deprecate" => o \in Publishing /\ goes /\ Head(next) = "deprecating"
        /\ Head(s) = "deprecating" => o \in Publishing /\ goes /\ Head(next) = "promote"
        /\ Head(s) = "promote" => o \in Publishing /\ goes /\ Head(next) = "touch"
        /\ Head(s) = "touch" => goes /\ Head(next) = "commit"

\* The ends that lists share.
LEMMA TouchSteps ==
    ASSUME NEW o, TouchLists \subseteq ListsOf(o), NEW s \in TouchLists
    PROVE  Follows(o, s)
  <1>1. CASE s = <<"commit">>
    BY <1>1 DEF Follows, Statements
  <1>2. CASE s = <<"touch", "commit">>
    <2>1. /\ Head(s) = "touch" /\ Tail(s) = <<"commit">> /\ Head(Tail(s)) = "commit"
          /\ Tail(s) # << >>
      BY <1>2
    <2>2. Tail(s) \in ListsOf(o)
      BY <2>1 DEF TouchLists
    <2> QED
      BY <2>1, <2>2 DEF Follows, Statements
  <1> QED
    BY <1>1, <1>2 DEF TouchLists

\* The tail of a publication and what is left of it.
LEMMA TailSteps ==
    ASSUME NEW o \in Publishing, TailLists \subseteq ListsOf(o), NEW s \in TailLists
    PROVE  Follows(o, s)
  <1>1. CASE s = <<"deprecate", "deprecating", "promote", "touch", "commit">>
    <2>1. /\ Head(s) = "deprecate" /\ Tail(s) # << >>
          /\ Tail(s) = <<"deprecating", "promote", "touch", "commit">>
      BY <1>1
    <2>2. Head(Tail(s)) = "deprecating"
      <3>1. Head(<<"deprecating", "promote", "touch", "commit">>) = "deprecating"
        OBVIOUS
      <3> QED
        BY <2>1, <3>1, Zenon
    <2>4. Tail(s) \in ListsOf(o)
      BY <2>1, Zenon DEF TailLists, TouchLists
    <2> QED
      BY <2>1, <2>2, <2>4 DEF Follows, Statements
  <1>2. CASE s = <<"deprecating", "promote", "touch", "commit">>
    <2>1. /\ Head(s) = "deprecating" /\ Tail(s) # << >>
          /\ Tail(s) = <<"promote", "touch", "commit">>
      BY <1>2
    <2>2. Head(Tail(s)) = "promote"
      <3>1. Head(<<"promote", "touch", "commit">>) = "promote"
        OBVIOUS
      <3> QED
        BY <2>1, <3>1, Zenon
    <2>4. Tail(s) \in ListsOf(o)
      BY <2>1, Zenon DEF TailLists, TouchLists
    <2> QED
      BY <2>1, <2>2, <2>4 DEF Follows, Statements
  <1>3. CASE s = <<"promote", "touch", "commit">>
    <2>1. /\ Head(s) = "promote" /\ Tail(s) # << >>
          /\ Tail(s) = <<"touch", "commit">>
      BY <1>3
    <2>2. Head(Tail(s)) = "touch"
      <3>1. Head(<<"touch", "commit">>) = "touch"
        OBVIOUS
      <3> QED
        BY <2>1, <3>1, Zenon
    <2>4. Tail(s) \in ListsOf(o)
      BY <2>1, Zenon DEF TailLists, TouchLists
    <2> QED
      BY <2>1, <2>2, <2>4 DEF Follows, Statements
  <1>9. CASE s \in TouchLists
    BY <1>9, TouchSteps DEF TailLists
  <1> QED
    BY <1>1, <1>2, <1>3, <1>9 DEF TailLists

\* create_prompt_version.
LEMMA CreateSteps == ASSUME NEW s \in ListsOf("create") PROVE Follows("create", s)
  <1> DEFINE o == "create"
  <1>0. ListsOf(o) = CreateLists
    BY DEF ListsOf, NumberOps
  <1> USE <1>0
  <1>1. CASE s = <<"next", "carry", "insert", "commit">>
    <2>1. /\ Head(s) = "next" /\ Tail(s) # << >>
          /\ Tail(s) = <<"carry", "insert", "commit">>
      BY <1>1
    <2>2. Head(Tail(s)) = "carry"
      <3>1. Head(<<"carry", "insert", "commit">>) = "carry"
        OBVIOUS
      <3> QED
        BY <2>1, <3>1, Zenon
    <2>4. Tail(s) \in ListsOf(o)
      BY <2>1, Zenon DEF CreateLists
    <2> QED
      BY <2>1, <2>2, <2>4 DEF Follows, Statements, InsertingOps, NumberOps, Publishing
  <1>2. CASE s = <<"carry", "insert", "commit">>
    <2>1. /\ Head(s) = "carry" /\ Tail(s) # << >>
          /\ Tail(s) = <<"insert", "commit">>
      BY <1>2
    <2>2. Head(Tail(s)) = "insert"
      <3>1. Head(<<"insert", "commit">>) = "insert"
        OBVIOUS
      <3> QED
        BY <2>1, <3>1, Zenon
    <2>4. Tail(s) \in ListsOf(o)
      BY <2>1, Zenon DEF CreateLists
    <2> QED
      BY <2>1, <2>2, <2>4 DEF Follows, Statements, InsertingOps, NumberOps, Publishing
  <1>3. CASE s = <<"insert", "commit">>
    <2>1. /\ Head(s) = "insert" /\ Tail(s) # << >>
          /\ Tail(s) = <<"commit">>
      BY <1>3
    <2>2. Head(Tail(s)) = "commit"
      <3>1. Head(<<"commit">>) = "commit"
        OBVIOUS
      <3> QED
        BY <2>1, <3>1, Zenon
    <2>4. Tail(s) \in ListsOf(o)
      BY <2>1, Zenon DEF CreateLists
    <2> QED
      BY <2>1, <2>2, <2>4 DEF Follows, Statements, InsertingOps, NumberOps, Publishing
  <1>9. CASE s = <<"commit">>
    BY <1>9 DEF Follows, Statements
  <1> QED
    BY <1>1, <1>2, <1>3, <1>9 DEF CreateLists

\* update_prompt_schema.
LEMMA SchemaSteps == ASSUME NEW s \in ListsOf("schema") PROVE Follows("schema", s)
  <1> DEFINE o == "schema"
  <1>0. ListsOf(o) = SchemaLists
    BY DEF ListsOf, NumberOps
  <1> USE <1>0
  <1>1. CASE s = <<"find_draft", "write_schema", "touch", "commit">>
    <2>1. /\ Head(s) = "find_draft" /\ Tail(s) # << >>
          /\ Tail(s) = <<"write_schema", "touch", "commit">>
      BY <1>1
    <2>2. Head(Tail(s)) = "write_schema"
      <3>1. Head(<<"write_schema", "touch", "commit">>) = "write_schema"
        OBVIOUS
      <3> QED
        BY <2>1, <3>1, Zenon
    <2>4. Tail(s) \in ListsOf(o)
      BY <2>1, Zenon DEF SchemaLists, TouchLists
    <2>3. Tail(Tail(s)) = <<"touch", "commit">>
      <3>1. Tail(<<"write_schema", "touch", "commit">>) = <<"touch", "commit">>
        OBVIOUS
      <3> QED
        BY <2>1, <3>1, Zenon
    <2> QED
      BY <2>1, <2>2, <2>3, <2>4 DEF Follows, Statements, InsertingOps, NumberOps, Publishing
  <1>2. CASE s = <<"write_schema", "touch", "commit">>
    <2>1. /\ Head(s) = "write_schema" /\ Tail(s) # << >>
          /\ Tail(s) = <<"touch", "commit">>
      BY <1>2
    <2>2. Head(Tail(s)) = "touch"
      <3>1. Head(<<"touch", "commit">>) = "touch"
        OBVIOUS
      <3> QED
        BY <2>1, <3>1, Zenon
    <2>4. Tail(s) \in ListsOf(o)
      BY <2>1, Zenon DEF SchemaLists, TouchLists
    <2> QED
      BY <2>1, <2>2, <2>4 DEF Follows, Statements, InsertingOps, NumberOps, Publishing
  <1>3. CASE s = <<"next", "insert", "touch", "commit">>
    <2>1. /\ Head(s) = "next" /\ Tail(s) # << >>
          /\ Tail(s) = <<"insert", "touch", "commit">>
      BY <1>3
    <2>2. Head(Tail(s)) = "insert"
      <3>1. Head(<<"insert", "touch", "commit">>) = "insert"
        OBVIOUS
      <3> QED
        BY <2>1, <3>1, Zenon
    <2>4. Tail(s) \in ListsOf(o)
      BY <2>1, Zenon DEF SchemaLists, TouchLists
    <2> QED
      BY <2>1, <2>2, <2>4 DEF Follows, Statements, InsertingOps, NumberOps, Publishing
  <1>4. CASE s = <<"insert", "touch", "commit">>
    <2>1. /\ Head(s) = "insert" /\ Tail(s) # << >>
          /\ Tail(s) = <<"touch", "commit">>
      BY <1>4
    <2>2. Head(Tail(s)) = "touch"
      <3>1. Head(<<"touch", "commit">>) = "touch"
        OBVIOUS
      <3> QED
        BY <2>1, <3>1, Zenon
    <2>4. Tail(s) \in ListsOf(o)
      BY <2>1, Zenon DEF SchemaLists, TouchLists
    <2> QED
      BY <2>1, <2>2, <2>4 DEF Follows, Statements, InsertingOps, NumberOps, Publishing
  <1>9. CASE s \in TouchLists
    BY <1>9, TouchSteps DEF SchemaLists, Publishing, NumberOps
  <1> QED
    BY <1>1, <1>2, <1>3, <1>4, <1>9 DEF SchemaLists

\* publish_prompt of the latest draft.
LEMMA PublishSteps == ASSUME NEW s \in ListsOf("publish") PROVE Follows("publish", s)
  <1> DEFINE o == "publish"
  <1>0. ListsOf(o) = PublishLists
    BY DEF ListsOf, NumberOps
  <1> USE <1>0
  <1>1. CASE s = <<"find_draft", "deprecate", "deprecating", "promote", "touch", "commit">>
    <2>1. /\ Head(s) = "find_draft" /\ Tail(s) # << >>
          /\ Tail(s) = <<"deprecate", "deprecating", "promote", "touch", "commit">>
      BY <1>1
    <2>2. Head(Tail(s)) = "deprecate"
      <3>1. Head(<<"deprecate", "deprecating", "promote", "touch", "commit">>) = "deprecate"
        OBVIOUS
      <3> QED
        BY <2>1, <3>1, Zenon
    <2>4. Tail(s) \in ListsOf(o)
      BY <2>1, Zenon DEF PublishLists, TailLists, TouchLists
    <2>3. Tail(s) = PublishTail
      BY <2>1 DEF PublishTail
    <2> QED
      BY <2>1, <2>2, <2>3, <2>4 DEF Follows, Statements, InsertingOps, NumberOps, Publishing
  <1>2. CASE s = <<"next", "carry", "insert", "deprecate", "deprecating", "promote", "touch", "commit">>
    <2>1. /\ Head(s) = "next" /\ Tail(s) # << >>
          /\ Tail(s) = <<"carry", "insert", "deprecate", "deprecating", "promote", "touch", "commit">>
      BY <1>2
    <2>2. Head(Tail(s)) = "carry"
      <3>1. Head(<<"carry", "insert", "deprecate", "deprecating", "promote", "touch", "commit">>) = "carry"
        OBVIOUS
      <3> QED
        BY <2>1, <3>1, Zenon
    <2>4. Tail(s) \in ListsOf(o)
      BY <2>1, Zenon DEF PublishLists, TailLists, TouchLists
    <2> QED
      BY <2>1, <2>2, <2>4 DEF Follows, Statements, InsertingOps, NumberOps, Publishing
  <1>3. CASE s = <<"carry", "insert", "deprecate", "deprecating", "promote", "touch", "commit">>
    <2>1. /\ Head(s) = "carry" /\ Tail(s) # << >>
          /\ Tail(s) = <<"insert", "deprecate", "deprecating", "promote", "touch", "commit">>
      BY <1>3
    <2>2. Head(Tail(s)) = "insert"
      <3>1. Head(<<"insert", "deprecate", "deprecating", "promote", "touch", "commit">>) = "insert"
        OBVIOUS
      <3> QED
        BY <2>1, <3>1, Zenon
    <2>4. Tail(s) \in ListsOf(o)
      BY <2>1, Zenon DEF PublishLists, TailLists, TouchLists
    <2> QED
      BY <2>1, <2>2, <2>4 DEF Follows, Statements, InsertingOps, NumberOps, Publishing
  <1>4. CASE s = <<"insert", "deprecate", "deprecating", "promote", "touch", "commit">>
    <2>1. /\ Head(s) = "insert" /\ Tail(s) # << >>
          /\ Tail(s) = <<"deprecate", "deprecating", "promote", "touch", "commit">>
      BY <1>4
    <2>2. Head(Tail(s)) = "deprecate"
      <3>1. Head(<<"deprecate", "deprecating", "promote", "touch", "commit">>) = "deprecate"
        OBVIOUS
      <3> QED
        BY <2>1, <3>1, Zenon
    <2>4. Tail(s) \in ListsOf(o)
      BY <2>1, Zenon DEF PublishLists, TailLists, TouchLists
    <2> QED
      BY <2>1, <2>2, <2>4 DEF Follows, Statements, InsertingOps, NumberOps, Publishing
  <1>9. CASE s \in TailLists
    BY <1>9, TailSteps DEF PublishLists, Publishing, NumberOps
  <1> QED
    BY <1>1, <1>2, <1>3, <1>4, <1>9 DEF PublishLists

\* publish_prompt of a version number, and rollback_prompt.
LEMMA NumberSteps ==
    ASSUME NEW o \in NumberOps, NEW s \in ListsOf(o)
    PROVE  Follows(o, s)
  <1>0. ListsOf(o) = NumberLists
    BY DEF ListsOf, NumberOps
  <1> USE <1>0
  <1>1. CASE s = <<"lookup", "deprecate", "deprecating", "promote", "touch", "commit">>
    <2>1. /\ Head(s) = "lookup" /\ Tail(s) # << >>
          /\ Tail(s) = <<"deprecate", "deprecating", "promote", "touch", "commit">>
      BY <1>1
    <2>2. Head(Tail(s)) = "deprecate"
      <3>1. Head(<<"deprecate", "deprecating", "promote", "touch", "commit">>) = "deprecate"
        OBVIOUS
      <3> QED
        BY <2>1, <3>1, Zenon
    <2>4. Tail(s) \in ListsOf(o)
      BY <2>1, Zenon DEF NumberLists, TailLists, TouchLists
    <2> QED
      BY <2>1, <2>2, <2>4 DEF Follows, Statements, InsertingOps, NumberOps, Publishing
  <1>9. CASE s \in TailLists
    BY <1>9, TailSteps DEF NumberLists, Publishing, NumberOps
  <1> QED
    BY <1>1, <1>9 DEF NumberLists

\* Every list.
LEMMA ListSteps ==
    ASSUME NEW o \in AllOps \cup {"none"}, NEW s \in ListsOf(o), s # << >>
    PROVE  o # "none" /\ Follows(o, s)
  <1>1. CASE o = "create"
    BY <1>1, CreateSteps DEF ListsOf
  <1>2. CASE o = "schema"
    BY <1>2, SchemaSteps DEF ListsOf
  <1>3. CASE o = "publish"
    BY <1>3, PublishSteps DEF ListsOf
  <1>4. CASE o \in NumberOps
    BY <1>4, NumberSteps DEF NumberOps
  <1>5. CASE o \in {"archive", "blocks"}
    <2>1. ListsOf(o) = TouchLists
      BY <1>5 DEF ListsOf, NumberOps
    <2> QED
      BY <1>5, <2>1, TouchSteps
  <1>6. CASE o = "none"
    BY <1>6 DEF ListsOf, NumberOps
  <1> QED
    BY <1>1, <1>2, <1>3, <1>4, <1>5, <1>6 DEF AllOps, NumberOps

\* A request starts at the head of its handler's list.
LEMMA ProgramStarts ==
    ASSUME NEW o \in AllOps
    PROVE  /\ Program(o) \in ListsOf(o) /\ Program(o) # << >>
           /\ Head(Program(o)) \in Early \cup {"touch"}
           /\ Head(Program(o)) = "touch" => o \notin Publishing
           /\ Head(Program(o)) \notin {"carry", "insert", "write_schema"}
  <1>1. CASE o = "create"
    BY <1>1, ListsWritten DEF Program, ListsOf, CreateLists, NumberOps, Early
  <1>2. CASE o = "schema"
    BY <1>2 DEF Program, ListsOf, SchemaLists, TouchLists, NumberOps, update_prompt_schema, Early
  <1>3. CASE o = "publish"
    BY <1>3, ListsWritten DEF Program, ListsOf, PublishLists, TailLists, TouchLists, NumberOps, Early
  <1>4. CASE o \in NumberOps
    BY <1>4, ListsWritten DEF Program, ListsOf, NumberLists, TailLists, TouchLists, NumberOps, Early
  <1>5. CASE o \in {"archive", "blocks"}
    BY <1>5 DEF Program, ListsOf, TouchLists, NumberOps, Publishing, delete_prompt, replace_prompt_blocks
  <1> QED
    BY <1>1, <1>2, <1>3, <1>4, <1>5 DEF AllOps, NumberOps

\* A request that has come to its end has no statements left.
LEMMA NoStatements == << >> \in ListsOf("none") /\ \A s \in ListsOf("none") : s = << >>
  BY DEF ListsOf, NumberOps

\* Every operation has statements.
LEMMA SomeStatements == ASSUME NEW o \in AllOps PROVE << >> \notin ListsOf(o)
  BY DEF AllOps, ListsOf, CreateLists, SchemaLists, PublishLists, NumberLists, TailLists, TouchLists, NumberOps


-----------------------------------------------------------------------------
(* Lemmas about version numbers and rows. *)

\* LIMIT 1 of an ORDER BY finds the greatest number there is.
LEMMA LatestIsGreatest ==
    ASSUME NEW S \in SUBSET Numbers, S # {}
    PROVE  Latest(S) \in S /\ \A w \in S : w <= Latest(S)
  <1> DEFINE D == {MaxVersions - v : v \in S}
  <1> DEFINE Less == OpToRel(<, Nat)
  <1>1. D # {} /\ D \subseteq Nat
    BY VersionAssumption DEF Numbers
  <1>2. PICK d \in D : \A x \in D : ~(<<x, d>> \in Less)
    <2>1. IsWellFoundedOn(Less, Nat)
      BY NatLessThanWellFounded
    <2> HIDE DEF D, Less
    <2> QED
      BY <1>1, <2>1, WFMin
  <1>3. PICK v \in S : d = MaxVersions - v
    OBVIOUS
  <1>4. ASSUME NEW w \in S PROVE w <= v
    <2>1. MaxVersions - w \in D
      OBVIOUS
    <2>2. ~(MaxVersions - w < MaxVersions - v)
      BY <1>1, <1>2, <1>3, <2>1 DEF OpToRel
    <2> QED
      BY <2>2, VersionAssumption DEF Numbers
  <1> QED
    BY <1>4 DEF Latest

\* Without gaps the greatest number is the number of versions.
LEMMA LatestOfInterval == ASSUME NEW k \in 0..MaxVersions PROVE Latest(1..k) = k
  <1>1. CASE k = 0
    BY <1>1 DEF Latest
  <1>2. CASE k # 0
    <2>1. k \in Nat /\ 1..k # {} /\ 1..k \in SUBSET Numbers /\ k \in 1..k
      BY <1>2, VersionAssumption DEF Numbers
    <2>2. Latest(1..k) \in 1..k /\ \A w \in 1..k : w <= Latest(1..k)
      BY <2>1, LatestIsGreatest
    <2> QED
      BY <2>1, <2>2
  <1> QED
    BY <1>1, <1>2

\* The empty row is a row.
LEMMA NoRowIsRow == NoRow \in Rows /\ NoRow.status = "absent" /\ NoWrites \in [Numbers -> Rows]
  BY VersionAssumption DEF NoRow, Rows, Statuses, NoWrites

\* What a transaction sees is a row.
LEMMA SeesRows ==
    ASSUME TypeOK, NEW t \in Sessions, NEW v \in Numbers
    PROVE  Sees(t, v) \in Rows
  BY DEF TypeOK, Sees

\* The sets of versions of a transaction that has written nothing.
LEMMA SeesCommitted ==
    ASSUME TypeOK, RowsExist, NEW t \in Sessions, Written(t) = {}
    PROVE  /\ \A v \in Numbers : Sees(t, v) = versions[v]
           /\ Present(t) = Committed
  <1>1. \A v \in Numbers : Sees(t, v) = versions[v]
    BY DEF Sees
  <1> QED
    BY <1>1, NoRowIsRow DEF Present, Committed, RowsExist

-----------------------------------------------------------------------------
(* What a step of one transaction leaves of the others. *)

\* A step of one session keeps what holds of another that it does not touch.
LEMMA OtherSession ==
    ASSUME NEW u \in Sessions, Prepared(u), Careful(u),
           versions' = versions, writes'[u] = writes[u], op'[u] = op[u],
           stmts'[u] = stmts[u], target'[u] = target[u], u \in holds' => u \in holds
    PROVE  Prepared(u)' /\ Careful(u)'
  <1>1. Heading(u)' = Heading(u)
    BY DEF Heading
  <1>2. Written(u)' = Written(u)
    BY DEF Written
  <1>3. \A v : Sees(u, v)' = Sees(u, v)
    BY <1>2 DEF Sees
  <1>4. Prepared(u)'
    BY <1>1, <1>2, <1>3 DEF Prepared
  <1>5. Careful(u)'
    BY <1>2 DEF Careful
  <1> QED
    BY <1>4, <1>5

\* A statement taken off a list leaves the others' lists alone.
LEMMA AdvanceList ==
    ASSUME TypeOK, NEW t \in Sessions, Tail(stmts[t]) \in ListsOf(op[t]), op' = op, Advance(t)
    PROVE  /\ DOMAIN stmts' = Sessions
           /\ stmts' = [u \in Sessions |-> stmts'[u]]
           /\ \A u \in Sessions : stmts'[u] \in ListsOf(op'[u])
           /\ stmts'[t] = Tail(stmts[t])
           /\ \A u \in Sessions \ {t} : stmts'[u] = stmts[u]
  BY DEF TypeOK, Advance

\* The transaction whose turn it is has a statement, and its list says what follows.
LEMMA ListOf ==
    ASSUME TypeOK, NEW t \in Sessions, stmts[t] # << >>
    PROVE  Follows(op[t], stmts[t]) /\ op[t] \in AllOps
  BY ListSteps DEF TypeOK

\* A statement that writes no version.
LEMMA ReadStep ==
    ASSUME VersionsInvariant, NEW t \in Sessions,
           versions' = versions, writes' = writes, op' = op,
           DOMAIN stmts' = Sessions, stmts' = [u \in Sessions |-> stmts'[u]],
           \A u \in Sessions : stmts'[u] \in ListsOf(op'[u]),
           \A u \in Sessions \ {t} : stmts'[u] = stmts[u] /\ target'[u] = target[u],
           target' \in [Sessions -> Nat], payload' \in [Sessions -> Schemas],
           todo' \in [Sessions -> SUBSET Numbers], holds' \subseteq holds \cup {t},
           Prepared(t)', Careful(t)'
    PROVE  VersionsInvariant'
  <1>1. TypeOK'
    BY DEF VersionsInvariant, TypeOK
  <1>2. Filled' /\ RowsExist' /\ OneWriter'
    BY DEF VersionsInvariant, Filled, Committed, RowsExist, OneWriter, Written
  <1>3. Counted'
    <2>1. Committed' = Committed /\ Inserting' = Inserting
      BY DEF Committed, Inserting, Active
    <2> QED
      BY <2>1 DEF VersionsInvariant, Counted
  <1>4. ASSUME NEW u \in Sessions PROVE Prepared(u)' /\ Careful(u)'
    <2>1. CASE u = t
      BY <2>1
    <2>2. CASE u # t
      BY <2>2, OtherSession DEF VersionsInvariant
    <2> QED
      BY <2>1, <2>2
  <1> QED
    BY <1>1, <1>2, <1>3, <1>4 DEF VersionsInvariant

\* A statement that writes the row of a version nobody else has written.
LEMMA WriteStep ==
    ASSUME VersionsInvariant, NEW t \in Sessions, NEW v \in Numbers, NEW row \in Rows,
           ~Locked(t, v), row.status # "absent",
           writes' = [writes EXCEPT ![t][v] = row],
           versions' = versions, op' = op, target' = target, payload' = payload, holds' = holds,
           DOMAIN stmts' = Sessions, stmts' = [u \in Sessions |-> stmts'[u]],
           \A u \in Sessions : stmts'[u] \in ListsOf(op'[u]),
           \A u \in Sessions \ {t} : stmts'[u] = stmts[u],
           todo' \in [Sessions -> SUBSET Numbers],
           Prepared(t)', Careful(t)'
    PROVE  VersionsInvariant'
  <1>1. /\ writes' \in [Sessions -> [Numbers -> Rows]]
        /\ writes'[t][v] = row
        /\ \A w \in Numbers \ {v} : writes'[t][w] = writes[t][w]
        /\ \A u \in Sessions \ {t} : writes'[u] = writes[u]
    BY DEF VersionsInvariant, TypeOK
  <1>2. TypeOK'
    BY <1>1 DEF VersionsInvariant, TypeOK
  <1>3. Filled'
    BY DEF VersionsInvariant, Filled, Committed
  <1>4. RowsExist'
    <2>1. \A w \in Numbers : versions'[w].status = "absent" => versions'[w] = NoRow
      BY DEF VersionsInvariant, RowsExist
    <2>2. ASSUME NEW u \in Sessions, NEW w \in Numbers, writes'[u][w].status = "absent"
          PROVE  writes'[u][w] = NoRow
      BY <1>1, <2>2 DEF VersionsInvariant, RowsExist
    <2> QED
      BY <2>1, <2>2 DEF RowsExist
  <1>5. OneWriter'
    <2> SUFFICES ASSUME NEW a \in Sessions, NEW b \in Sessions, NEW w \in Numbers,
                        w \in Written(a)', w \in Written(b)', a # b
                 PROVE  FALSE
      BY DEF OneWriter
    <2>1. /\ \A u \in Sessions \ {t} : Written(u)' = Written(u)
          /\ Written(t)' \subseteq Written(t) \cup {v}
      BY <1>1 DEF Written
    <2>2. \A u \in Sessions \ {t} : v \notin Written(u)
      BY DEF Locked
    <2> QED
      BY <2>1, <2>2 DEF VersionsInvariant, OneWriter
  <1>6. Counted'
    <2>1. Committed' = Committed /\ Inserting' = Inserting
      BY DEF Committed, Inserting, Active
    <2> QED
      BY <2>1 DEF VersionsInvariant, Counted
  <1>7. ASSUME NEW u \in Sessions PROVE Prepared(u)' /\ Careful(u)'
    <2>1. CASE u = t
      BY <2>1
    <2>2. CASE u # t
      BY <1>1, <2>2, OtherSession DEF VersionsInvariant
    <2> QED
      BY <2>1, <2>2
  <1> QED
    BY <1>2, <1>3, <1>4, <1>5, <1>6, <1>7 DEF VersionsInvariant


-----------------------------------------------------------------------------
(* The statements, one by one. *)

\* SELECT of the version asked for.
LEMMA LookupKeeps ==
    ASSUME VersionsInvariant, NEW t \in Sessions, Now(t, "lookup"),
           target[t] \in Present(t), Advance(t),
           UNCHANGED <<versions, writes, op, target, payload, todo, holds>>
    PROVE  VersionsInvariant'
  <1>1. Follows(op[t], stmts[t]) /\ Heading(t) = "lookup" /\ stmts[t] # << >>
    BY ListOf DEF VersionsInvariant, Now, Heading
  <1>2. Tail(stmts[t]) \in ListsOf(op[t]) /\ Tail(stmts[t]) # << >> /\ Head(Tail(stmts[t])) = "deprecate"
    BY <1>1 DEF Follows, Heading
  <1>3. /\ DOMAIN stmts' = Sessions /\ stmts' = [u \in Sessions |-> stmts'[u]]
        /\ \A u \in Sessions : stmts'[u] \in ListsOf(op'[u])
        /\ stmts'[t] = Tail(stmts[t])
        /\ \A u \in Sessions \ {t} : stmts'[u] = stmts[u]
    BY <1>2, AdvanceList DEF VersionsInvariant
  <1>4. Written(t) = {} /\ Written(t)' = {} /\ Heading(t)' = "deprecate"
    <2>1. Written(t) = {}
      BY <1>1 DEF VersionsInvariant, Prepared, Early
    <2> QED
      BY <1>2, <1>3, <2>1 DEF Written, Heading
  <1>5. target[t] \in Numbers /\ Sees(t, target[t])' # NoRow
    BY NoRowIsRow, <1>4 DEF Present, Sees, Written
  <1>6. Prepared(t)' /\ Careful(t)'
    <2>1. Prepared(t)'
      <3>1. t \notin holds'
        BY <1>1 DEF VersionsInvariant, Prepared
      <3> QED
        BY <1>4, <1>5, <3>1 DEF Prepared, Early
    <2> QED
      BY <1>4, <2>1 DEF Careful
  <1> QED
    BY <1>3, <1>6, ReadStep DEF VersionsInvariant, TypeOK

\* SELECT of the latest draft.
LEMMA FindDraftKeeps ==
    ASSUME VersionsInvariant, NEW t \in Sessions, FindDraft(t)
    PROVE  VersionsInvariant'
  <1> DEFINE v == Latest(WithStatus(t, "draft"))
             rest == IF v # 0 THEN Tail(stmts[t])
                     ELSE IF op[t] = "publish" THEN InsertDraft \o Tail(stmts[t])
                     ELSE <<"next", "insert">> \o Tail(Tail(stmts[t]))
  <1>1. Follows(op[t], stmts[t]) /\ Heading(t) = "find_draft" /\ stmts[t] # << >>
    BY ListOf DEF VersionsInvariant, Now, Heading, FindDraft
  <1>2. /\ versions' = versions /\ writes' = writes /\ op' = op /\ payload' = payload
        /\ todo' = todo /\ holds' = holds
        /\ target' = [target EXCEPT ![t] = v] /\ stmts' = [stmts EXCEPT ![t] = rest]
    BY DEF FindDraft
  <1>3. op[t] \in {"publish", "schema"} /\ Head(stmts[t]) = "find_draft"
    BY <1>1 DEF Follows, Heading
  <1>4. Written(t) = {} /\ t \notin holds
    BY <1>1 DEF VersionsInvariant, Prepared, Early
  <1>5. v = 0 \/ v \in WithStatus(t, "draft")
    BY LatestIsGreatest DEF Latest, WithStatus
  <1>6. v \in Nat /\ (v # 0 => v \in Numbers /\ versions[v] # NoRow)
    <2>1. WithStatus(t, "draft") \subseteq Numbers
      BY DEF WithStatus
    <2>2. \A w \in WithStatus(t, "draft") : versions[w] # NoRow
      BY <1>4, NoRowIsRow DEF WithStatus, Sees, VersionsInvariant
    <2> QED
      BY <1>5, <2>1, <2>2, VersionAssumption DEF Numbers
  <1>7. /\ rest \in ListsOf(op[t]) /\ rest # << >>
        /\ Head(rest) \in {"next", "deprecate", "write_schema"}
        /\ Head(rest) \in {"deprecate", "write_schema"} => v # 0
        /\ Head(rest) = "deprecate" => op[t] = "publish"
    <2>1. CASE v # 0
      BY <1>1, <1>3, <2>1 DEF Follows
    <2>2. CASE v = 0 /\ op[t] = "publish"
      <3>1. rest = <<"next", "carry", "insert", "deprecate", "deprecating", "promote", "touch", "commit">>
        BY <1>1, <1>3, <2>2, ListsWritten DEF Follows
      <3>2. rest \in PublishLists
        BY <3>1, Zenon DEF PublishLists
      <3>3. ListsOf(op[t]) = PublishLists
        BY <2>2 DEF ListsOf, NumberOps
      <3>4. /\ Head(<<"next", "carry", "insert", "deprecate", "deprecating", "promote", "touch", "commit">>) = "next"
            /\ <<"next", "carry", "insert", "deprecate", "deprecating", "promote", "touch", "commit">> # << >>
        OBVIOUS
      <3> HIDE DEF rest, v
      <3> QED
        BY <3>1, <3>2, <3>3, <3>4
    <2>3. CASE v = 0 /\ op[t] = "schema"
      <3>1. rest = <<"next", "insert", "touch", "commit">>
        BY <1>1, <1>3, <2>3, ListsWritten DEF Follows
      <3>2. rest \in SchemaLists
        BY <3>1, Zenon DEF SchemaLists
      <3>3. ListsOf(op[t]) = SchemaLists
        BY <2>3 DEF ListsOf, NumberOps
      <3>4. Head(<<"next", "insert", "touch", "commit">>) = "next" /\ <<"next", "insert", "touch", "commit">> # << >>
        OBVIOUS
      <3> HIDE DEF rest, v
      <3> QED
        BY <3>1, <3>2, <3>3, <3>4
    <2> QED
      BY <1>3, <2>1, <2>2, <2>3
  <1> HIDE DEF v, rest
  <1>8. /\ DOMAIN stmts' = Sessions /\ stmts' = [u \in Sessions |-> stmts'[u]]
        /\ stmts'[t] = rest
        /\ \A u \in Sessions \ {t} : stmts'[u] = stmts[u] /\ target'[u] = target[u]
        /\ target'[t] = v /\ target' \in [Sessions -> Nat]
    BY <1>2, <1>6 DEF VersionsInvariant, TypeOK
  <1>9. \A u \in Sessions : stmts'[u] \in ListsOf(op'[u])
    BY <1>2, <1>7, <1>8 DEF VersionsInvariant, TypeOK
  <1>10. Prepared(t)' /\ Careful(t)'
    <2>1. Written(t)' = {} /\ Heading(t)' = Head(rest)
      BY <1>2, <1>4, <1>7, <1>8 DEF Written, Heading
    <2>2. \A w : Sees(t, w)' = versions[w]
      BY <1>2, <2>1 DEF Sees
    <2>3. Prepared(t)'
      BY <1>2, <1>4, <1>6, <1>7, <1>8, <2>1, <2>2 DEF Prepared, Early
    <2> QED
      BY <2>1, <2>3 DEF Careful
  <1> QED
    BY <1>2, <1>8, <1>9, <1>10, ReadStep DEF VersionsInvariant, TypeOK

\* COALESCE(MAX(version_number), 0) + 1: there is room for it.
LEMMA ReadNextKeeps ==
    ASSUME VersionsInvariant, NEW t \in Sessions, ReadNext(t)
    PROVE  VersionsInvariant'
  <1>1. Follows(op[t], stmts[t]) /\ Heading(t) = "next" /\ stmts[t] # << >>
    BY ListOf DEF VersionsInvariant, Now, Heading, ReadNext
  <1>2. /\ op[t] \in InsertingOps /\ Tail(stmts[t]) \in ListsOf(op[t]) /\ Tail(stmts[t]) # << >>
        /\ Head(Tail(stmts[t])) \in {"carry", "insert"}
    BY <1>1 DEF Follows, Heading
  <1>3. /\ DOMAIN stmts' = Sessions /\ stmts' = [u \in Sessions |-> stmts'[u]]
        /\ \A u \in Sessions : stmts'[u] \in ListsOf(op'[u])
        /\ stmts'[t] = Tail(stmts[t])
        /\ \A u \in Sessions \ {t} : stmts'[u] = stmts[u]
    BY <1>2, AdvanceList DEF VersionsInvariant, ReadNext
  <1>4. Written(t) = {} /\ Written(t)' = {} /\ t \notin holds' /\ Heading(t)' \in {"carry", "insert"}
    <2>1. Written(t) = {} /\ t \notin holds
      BY <1>1 DEF VersionsInvariant, Prepared, Early
    <2> QED
      BY <1>2, <1>3, <2>1 DEF Written, Heading, ReadNext
  <1>5. PICK k \in 0..MaxVersions : Committed = 1..k
    BY DEF VersionsInvariant, Filled
  <1>6. k < MaxVersions
    <2>1. Cardinality(Committed) = k
      BY <1>5, FS_Interval, VersionAssumption
    <2>2. IsFiniteSet(Inserting) /\ Cardinality(Inserting) \in Nat
      BY FS_Subset, FS_CardinalityType, VersionAssumption DEF Inserting, Active
    <2>3. t \in Inserting
      BY <1>2 DEF Inserting, Active, InsertingOps
    <2>4. Cardinality(Inserting) # 0
      BY <2>2, <2>3, FS_EmptySet
    <2> QED
      BY <2>1, <2>2, <2>4, VersionAssumption DEF VersionsInvariant, Counted
  <1>7. target' = [target EXCEPT ![t] = k + 1]
    <2>1. Present(t) = 1..k
      BY <1>4, <1>5, SeesCommitted DEF VersionsInvariant
    <2> QED
      BY <2>1, LatestOfInterval DEF ReadNext, NextNumber
  <1>8. /\ target' \in [Sessions -> Nat] /\ target'[t] = k + 1
        /\ \A u \in Sessions \ {t} : target'[u] = target[u]
    BY <1>7, VersionAssumption DEF VersionsInvariant, TypeOK
  <1>9. k + 1 \in Numbers /\ \A w \in Numbers : w < k + 1 => versions[w] # NoRow
    <2>1. k + 1 \in Numbers
      BY <1>6, VersionAssumption DEF Numbers
    <2>2. \A w \in Numbers : w < k + 1 => w \in 1..k
      BY VersionAssumption DEF Numbers
    <2> QED
      BY <1>5, <2>1, <2>2 DEF Committed
  <1>10. Prepared(t)' /\ Careful(t)'
    <2>1. Prepared(t)'
      BY <1>4, <1>8, <1>9 DEF Prepared, Early, ReadNext
    <2> QED
      BY <1>4, <2>1 DEF Careful
  <1> QED
    BY <1>3, <1>8, <1>10, ReadStep DEF VersionsInvariant, TypeOK, ReadNext

\* SELECT of the latest version's schema columns.
LEMMA CarryForwardKeeps ==
    ASSUME VersionsInvariant, NEW t \in Sessions, CarryForward(t)
    PROVE  VersionsInvariant'
  <1>1. Follows(op[t], stmts[t]) /\ Heading(t) = "carry" /\ stmts[t] # << >>
    BY ListOf DEF VersionsInvariant, Now, Heading, CarryForward
  <1>2. /\ op[t] \in InsertingOps /\ Tail(stmts[t]) \in ListsOf(op[t]) /\ Tail(stmts[t]) # << >>
        /\ Head(Tail(stmts[t])) = "insert"
    BY <1>1 DEF Follows, Heading
  <1>3. /\ DOMAIN stmts' = Sessions /\ stmts' = [u \in Sessions |-> stmts'[u]]
        /\ \A u \in Sessions : stmts'[u] \in ListsOf(op'[u])
        /\ stmts'[t] = Tail(stmts[t])
        /\ \A u \in Sessions \ {t} : stmts'[u] = stmts[u]
    BY <1>2, AdvanceList DEF VersionsInvariant, CarryForward
  <1>4. Written(t) = {} /\ Written(t)' = {} /\ t \notin holds' /\ Heading(t)' = "insert"
    <2>1. Written(t) = {} /\ t \notin holds
      BY <1>1 DEF VersionsInvariant, Prepared, Early
    <2> QED
      BY <1>2, <1>3, <2>1 DEF Written, Heading, CarryForward
  <1>5. payload' \in [Sessions -> Schemas]
    <2> DEFINE v == Latest(Present(t))
    <2>1. Present(t) # {} => v \in Numbers
      BY LatestIsGreatest DEF Present
    <2>2. Present(t) = {} => v = 0
      BY DEF Latest
    <2>3. v = 0 \/ Sees(t, v).schema \in Schemas
      BY <2>1, <2>2, SeesRows DEF VersionsInvariant, Rows
    <2>4. payload' = [payload EXCEPT ![t] = IF v = 0 THEN EmptySchema ELSE Sees(t, v).schema]
      BY DEF CarryForward
    <2> HIDE DEF v
    <2> QED
      BY <2>3, <2>4, VersionAssumption DEF VersionsInvariant, TypeOK
  <1>6. Prepared(t)' /\ Careful(t)'
    <2>1. Prepared(t)'
      BY <1>1, <1>4 DEF Prepared, Early, CarryForward, VersionsInvariant
    <2> QED
      BY <1>4, <2>1 DEF Careful
  <1> QED
    BY <1>3, <1>5, <1>6, ReadStep DEF VersionsInvariant, TypeOK, CarryForward

\* The scan for the rows to deprecate, and what follows it.
LEMMA DeprecateScanKeeps ==
    ASSUME VersionsInvariant, NEW t \in Sessions, DeprecateScan(t) \/ Deprecated(t)
    PROVE  VersionsInvariant'
  <1>1. Follows(op[t], stmts[t]) /\ Heading(t) \in {"deprecate", "deprecating"} /\ stmts[t] # << >>
    BY ListOf DEF VersionsInvariant, Now, Heading, DeprecateScan, Deprecated
  <1>2. /\ Tail(stmts[t]) \in ListsOf(op[t]) /\ Tail(stmts[t]) # << >>
        /\ Head(Tail(stmts[t])) \in {"deprecating", "promote"}
    BY <1>1 DEF Follows, Heading
  <1>3. /\ versions' = versions /\ writes' = writes /\ op' = op /\ target' = target
        /\ payload' = payload /\ holds' = holds /\ Advance(t)
    BY DEF DeprecateScan, Deprecated
  <1>4. /\ DOMAIN stmts' = Sessions /\ stmts' = [u \in Sessions |-> stmts'[u]]
        /\ \A u \in Sessions : stmts'[u] \in ListsOf(op'[u])
        /\ stmts'[t] = Tail(stmts[t])
        /\ \A u \in Sessions \ {t} : stmts'[u] = stmts[u]
    BY <1>2, <1>3, AdvanceList DEF VersionsInvariant
  <1>5. todo' \in [Sessions -> SUBSET Numbers]
    <2>1. PublishedRows(t) \subseteq Numbers
      BY DEF PublishedRows, WithStatus
    <2> QED
      BY <2>1 DEF VersionsInvariant, TypeOK, DeprecateScan, Deprecated
  <1>6. Heading(t)' \in {"deprecating", "promote"}
    BY <1>2, <1>4 DEF Heading
  <1>7. /\ Written(t)' = Written(t) /\ \A w : Sees(t, w)' = Sees(t, w)
    BY <1>3 DEF Written, Sees
  <1>8. Prepared(t)'
    BY <1>1, <1>3, <1>6, <1>7 DEF VersionsInvariant, Prepared, Early
  <1>9. Careful(t)'
    BY <1>3, <1>7 DEF VersionsInvariant, Careful
  <1> QED
    BY <1>3, <1>4, <1>5, <1>8, <1>9, ReadStep DEF VersionsInvariant, TypeOK

\* UPDATE of the prompt's own row.
LEMMA TouchKeeps ==
    ASSUME VersionsInvariant, NEW t \in Sessions, Touch(t)
    PROVE  VersionsInvariant'
  <1>1. Follows(op[t], stmts[t]) /\ Heading(t) = "touch" /\ stmts[t] # << >>
    BY ListOf DEF VersionsInvariant, Now, Heading, Touch
  <1>2. Tail(stmts[t]) \in ListsOf(op[t]) /\ Tail(stmts[t]) # << >> /\ Head(Tail(stmts[t])) = "commit"
    BY <1>1 DEF Follows, Heading
  <1>3. /\ versions' = versions /\ writes' = writes /\ op' = op /\ target' = target
        /\ payload' = payload /\ todo' = todo /\ holds' = {t} /\ Advance(t)
    BY DEF Touch
  <1>4. /\ DOMAIN stmts' = Sessions /\ stmts' = [u \in Sessions |-> stmts'[u]]
        /\ \A u \in Sessions : stmts'[u] \in ListsOf(op'[u])
        /\ stmts'[t] = Tail(stmts[t])
        /\ \A u \in Sessions \ {t} : stmts'[u] = stmts[u]
    BY <1>2, <1>3, AdvanceList DEF VersionsInvariant
  <1>5. Heading(t)' = "commit"
    BY <1>2, <1>4 DEF Heading
  <1>6. Written(t)' = Written(t)
    BY <1>3 DEF Written
  <1>7. Prepared(t)'
    BY <1>1, <1>3, <1>5, <1>6 DEF VersionsInvariant, Prepared, Early
  <1>8. Careful(t)'
    BY <1>3, <1>6 DEF VersionsInvariant, Careful
  <1> QED
    BY <1>3, <1>4, <1>7, <1>8, ReadStep DEF VersionsInvariant, TypeOK

\* INSERT of a draft under a number that is not taken.
LEMMA InsertKeeps ==
    ASSUME VersionsInvariant, NEW t \in Sessions, Now(t, "insert"), ~Locked(t, target[t]),
           versions[target[t]] = NoRow,
           writes' = [writes EXCEPT ![t][target[t]] = NewDraft(t)],
           Advance(t), UNCHANGED <<versions, op, target, payload, todo, holds>>
    PROVE  VersionsInvariant'
  <1>1. Follows(op[t], stmts[t]) /\ Heading(t) = "insert" /\ stmts[t] # << >>
    BY ListOf DEF VersionsInvariant, Now, Heading
  <1>2. /\ op[t] \in InsertingOps /\ Tail(stmts[t]) \in ListsOf(op[t]) /\ Tail(stmts[t]) # << >>
        /\ Head(Tail(stmts[t])) \in (IF op[t] \in Publishing THEN {"deprecate"} ELSE {"touch", "commit"})
    BY <1>1 DEF Follows, Heading
  <1>3. /\ DOMAIN stmts' = Sessions /\ stmts' = [u \in Sessions |-> stmts'[u]]
        /\ \A u \in Sessions : stmts'[u] \in ListsOf(op'[u])
        /\ stmts'[t] = Tail(stmts[t])
        /\ \A u \in Sessions \ {t} : stmts'[u] = stmts[u]
    BY <1>2, AdvanceList DEF VersionsInvariant
  <1>4. PICK v \in Numbers : v = target[t] /\ \A w \in Numbers : w < v => versions[w] # NoRow
    BY <1>1 DEF VersionsInvariant, Prepared
  <1>5. Written(t) = {} /\ t \notin holds
    BY <1>1 DEF VersionsInvariant, Prepared, Early
  <1>6. PICK row \in Rows : row = NewDraft(t)
    BY DEF VersionsInvariant, TypeOK, NewDraft, Rows, Statuses
  <1>7. row.status = "draft"
    BY <1>6 DEF NewDraft
  <1>8. row # NoRow
    BY <1>7, NoRowIsRow
  <1>9. writes' = [writes EXCEPT ![t][v] = row]
    BY <1>4, <1>6
  <1>10. Written(t)' = {v} /\ writes'[t][v] = row
    BY <1>5, <1>8, <1>9 DEF VersionsInvariant, TypeOK, Written
  <1>11. Heading(t)' \in (IF op[t] \in Publishing THEN {"deprecate"} ELSE {"touch", "commit"})
    BY <1>2, <1>3 DEF Heading
  <1>12. Prepared(t)'
    <2>1. Sees(t, v)' = row
      BY <1>10 DEF Sees
    <2> QED
      BY <1>4, <1>5, <1>8, <1>10, <1>11, <2>1 DEF Prepared, Early
  <1>13. Careful(t)'
    BY <1>2, <1>4, <1>7, <1>10 DEF Careful
  <1> QED
    BY <1>3, <1>4, <1>7, <1>9, <1>12, <1>13, WriteStep DEF VersionsInvariant, TypeOK

\* UPDATE of a version's schema columns.
LEMMA WriteSchemaKeeps ==
    ASSUME VersionsInvariant, NEW t \in Sessions, WriteSchema(t)
    PROVE  VersionsInvariant'
  <1>1. Follows(op[t], stmts[t]) /\ Heading(t) = "write_schema" /\ stmts[t] # << >>
    BY ListOf DEF VersionsInvariant, Now, Heading, WriteSchema
  <1>2. /\ op[t] = "schema" /\ Tail(stmts[t]) \in ListsOf(op[t]) /\ Tail(stmts[t]) # << >>
        /\ Head(Tail(stmts[t])) = "touch"
    BY <1>1 DEF Follows, Heading
  <1>3. /\ DOMAIN stmts' = Sessions /\ stmts' = [u \in Sessions |-> stmts'[u]]
        /\ \A u \in Sessions : stmts'[u] \in ListsOf(op'[u])
        /\ stmts'[t] = Tail(stmts[t])
        /\ \A u \in Sessions \ {t} : stmts'[u] = stmts[u]
    BY <1>2, AdvanceList DEF VersionsInvariant, WriteSchema
  <1>4. PICK v \in Numbers : v = target[t] /\ versions[v] # NoRow
    BY <1>1 DEF VersionsInvariant, Prepared
  <1>5. Written(t) = {} /\ t \notin holds
    BY <1>1 DEF VersionsInvariant, Prepared, Early
  <1>6. Sees(t, v) = versions[v]
    BY <1>5, SeesCommitted DEF VersionsInvariant
  <1>7. PICK row \in Rows : row = [versions[v] EXCEPT !.schema = payload[t]]
    <2>1. versions[v] \in Rows /\ payload[t] \in Schemas
      BY DEF VersionsInvariant, TypeOK
    <2> QED
      BY <2>1 DEF Rows
  <1>8. row.status = versions[v].status
    BY <1>7 DEF VersionsInvariant, TypeOK, Rows
  <1>9. row.status # "absent"
    BY <1>4, <1>8 DEF VersionsInvariant, RowsExist
  <1>10. row # NoRow
    BY <1>9, NoRowIsRow
  <1>11. writes' = [writes EXCEPT ![t][v] = row]
    BY <1>4, <1>6, <1>7 DEF WriteSchema
  <1>12. Written(t)' = {v} /\ writes'[t][v] = row
    BY <1>5, <1>10, <1>11 DEF VersionsInvariant, TypeOK, Written
  <1>13. Heading(t)' = "touch"
    BY <1>2, <1>3 DEF Heading
  <1>14. Prepared(t)'
    BY <1>2, <1>5, <1>13 DEF Prepared, Early, Publishing, NumberOps, WriteSchema
  <1>15. Careful(t)'
    BY <1>4, <1>8, <1>12 DEF Careful, WriteSchema
  <1> QED
    BY <1>3, <1>4, <1>9, <1>11, <1>14, <1>15, WriteStep DEF VersionsInvariant, TypeOK, WriteSchema


\* UPDATE of one of the rows found to be published.
LEMMA DeprecateRowKeeps ==
    ASSUME VersionsInvariant, NEW t \in Sessions, NEW v \in Numbers, DeprecateRow(t, v)
    PROVE  VersionsInvariant'
  <1>1. Follows(op[t], stmts[t]) /\ Heading(t) = "deprecating" /\ stmts[t] # << >>
    BY ListOf DEF VersionsInvariant, Now, Heading, DeprecateRow
  <1>2. op[t] \in Publishing
    BY <1>1 DEF Follows, Heading
  <1>3. /\ versions' = versions /\ op' = op /\ stmts' = stmts /\ target' = target
        /\ payload' = payload /\ holds' = holds /\ ~Locked(t, v)
    BY DEF DeprecateRow
  <1>4. todo' \in [Sessions -> SUBSET Numbers]
    BY DEF VersionsInvariant, TypeOK, DeprecateRow
  <1>5. /\ DOMAIN stmts' = Sessions /\ stmts' = [u \in Sessions |-> stmts'[u]]
        /\ \A u \in Sessions : stmts'[u] \in ListsOf(op'[u])
    BY <1>3 DEF VersionsInvariant, TypeOK
  <1>6. Heading(t)' = "deprecating"
    BY <1>1, <1>3 DEF Heading
  <1>7. CASE Sees(t, v).status # "published"
    <2>1. writes' = writes
      BY <1>7 DEF DeprecateRow
    <2>2. Written(t)' = Written(t) /\ \A w : Sees(t, w)' = Sees(t, w)
      BY <1>3, <2>1 DEF Written, Sees
    <2>3. Prepared(t)'
      BY <1>1, <1>3, <1>6, <2>2 DEF VersionsInvariant, Prepared, Early
    <2>4. Careful(t)'
      BY <1>3, <2>1, <2>2 DEF VersionsInvariant, Careful
    <2> QED
      BY <1>3, <1>4, <1>5, <2>1, <2>3, <2>4, ReadStep DEF VersionsInvariant, TypeOK
  <1>8. CASE Sees(t, v).status = "published"
    <2>1. PICK row \in Rows : row = [Sees(t, v) EXCEPT !.status = "deprecated"]
      <3>1. Sees(t, v) \in Rows
        BY SeesRows DEF VersionsInvariant
      <3> QED
        BY <3>1 DEF Rows, Statuses
    <2>2. row.status = "deprecated" /\ row # NoRow
      <3>1. row.status = "deprecated"
        BY <2>1, SeesRows DEF VersionsInvariant, Rows
      <3> QED
        BY <3>1, NoRowIsRow
    <2>3. writes' = [writes EXCEPT ![t][v] = row]
      BY <1>8, <2>1 DEF DeprecateRow
    <2>4. /\ writes'[t][v] = row /\ Written(t)' = Written(t) \cup {v}
          /\ \A w \in Numbers \ {v} : writes'[t][w] = writes[t][w]
      BY <2>2, <2>3 DEF VersionsInvariant, TypeOK, Written
    <2>5. versions[v] = NoRow => v \in Written(t)
      BY <1>8, NoRowIsRow DEF Sees
    <2>6. Prepared(t)'
      <3>1. target[t] \in Numbers /\ Sees(t, target[t]) # NoRow /\ t \notin holds
        BY <1>1 DEF VersionsInvariant, Prepared
      <3>2. Sees(t, target[t])' # NoRow
        BY <1>3, <2>2, <2>4, <3>1 DEF Sees
      <3> QED
        BY <1>3, <1>6, <3>1, <3>2 DEF Prepared, Early
    <2>7. Careful(t)'
      BY <1>2, <1>3, <2>4, <2>5 DEF VersionsInvariant, Careful
    <2> QED
      BY <1>3, <1>4, <1>5, <2>2, <2>3, <2>6, <2>7, WriteStep
  <1> QED
    BY <1>7, <1>8

\* UPDATE of the target to published.
LEMMA PromoteKeeps ==
    ASSUME VersionsInvariant, NEW t \in Sessions, Promote(t)
    PROVE  VersionsInvariant'
  <1>1. Follows(op[t], stmts[t]) /\ Heading(t) = "promote" /\ stmts[t] # << >>
    BY ListOf DEF VersionsInvariant, Now, Heading, Promote
  <1>2. /\ op[t] \in Publishing /\ Tail(stmts[t]) \in ListsOf(op[t]) /\ Tail(stmts[t]) # << >>
        /\ Head(Tail(stmts[t])) = "touch"
    BY <1>1 DEF Follows, Heading
  <1>3. /\ DOMAIN stmts' = Sessions /\ stmts' = [u \in Sessions |-> stmts'[u]]
        /\ \A u \in Sessions : stmts'[u] \in ListsOf(op'[u])
        /\ stmts'[t] = Tail(stmts[t])
        /\ \A u \in Sessions \ {t} : stmts'[u] = stmts[u]
    BY <1>2, AdvanceList DEF VersionsInvariant, Promote
  <1>4. PICK v \in Numbers : v = target[t] /\ Sees(t, v) # NoRow
    BY <1>1 DEF VersionsInvariant, Prepared
  <1>5. PICK row \in Rows : row = PromotedRow(Sees(t, v)) /\ row.status = "published"
    <2>1. Sees(t, v) \in Rows
      BY SeesRows DEF VersionsInvariant
    <2>2. PromotedRow(Sees(t, v)) \in Rows
      BY <2>1 DEF Rows, Statuses, PromotedRow
    <2>3. PromotedRow(Sees(t, v)).status = "published"
      BY <2>1 DEF Rows, PromotedRow
    <2> QED
      BY <2>2, <2>3
  <1>6. row # NoRow
    BY <1>5, NoRowIsRow
  <1>7. writes' = [writes EXCEPT ![t][v] = row]
    BY <1>4, <1>5 DEF Promote
  <1>8. /\ writes'[t][v] = row /\ Written(t)' = Written(t) \cup {v}
        /\ \A w \in Numbers \ {v} : writes'[t][w] = writes[t][w]
    BY <1>6, <1>7 DEF VersionsInvariant, TypeOK, Written
  <1>9. versions[v] = NoRow => v \in Written(t)
    BY <1>4 DEF Sees
  <1>10. Heading(t)' = "touch"
    BY <1>2, <1>3 DEF Heading
  <1>11. Prepared(t)'
    <2>1. t \notin holds
      BY <1>1 DEF VersionsInvariant, Prepared
    <2> QED
      BY <1>4, <1>5, <1>8, <1>10, <2>1 DEF Prepared, Early, Promote
  <1>12. Careful(t)'
    BY <1>2, <1>8, <1>9 DEF VersionsInvariant, Careful, Promote
  <1> QED
    BY <1>3, <1>4, <1>5, <1>7, <1>11, <1>12, WriteStep DEF VersionsInvariant, TypeOK, Promote

\* A request arrives; there is room for the version it may insert.
LEMMA BeginKeeps ==
    ASSUME VersionsInvariant, NEW t \in Sessions, NEW o \in AllOps, NEW n \in Numbers,
           NEW x \in Schemas, Begin(t, o, n, x)
    PROVE  VersionsInvariant'
  <1>1. /\ versions' = versions /\ writes' = writes /\ todo' = todo /\ holds' = holds
        /\ op[t] = "none" /\ op' = [op EXCEPT ![t] = o] /\ stmts' = [stmts EXCEPT ![t] = Program(o)]
    BY DEF Begin
  <1>2. /\ op' \in [Sessions -> AllOps \cup {"none"}] /\ op'[t] = o
        /\ DOMAIN stmts' = Sessions /\ stmts' = [u \in Sessions |-> stmts'[u]]
        /\ stmts'[t] = Program(o)
        /\ \A u \in Sessions \ {t} : stmts'[u] = stmts[u] /\ op'[u] = op[u]
    BY <1>1 DEF VersionsInvariant, TypeOK
  <1>3. /\ target' \in [Sessions -> Nat] /\ payload' \in [Sessions -> Schemas]
        /\ \A u \in Sessions \ {t} : target'[u] = target[u]
    <2>1. n \in Nat /\ EmptySchema \in Schemas
      BY VersionAssumption DEF Numbers
    <2> QED
      BY <2>1 DEF VersionsInvariant, TypeOK, Begin
  <1>4. \A u \in Sessions : stmts'[u] \in ListsOf(op'[u])
    BY <1>2, ProgramStarts DEF VersionsInvariant, TypeOK
  <1>5. TypeOK'
    BY <1>1, <1>2, <1>3, <1>4 DEF VersionsInvariant, TypeOK
  <1>6. Filled' /\ RowsExist' /\ OneWriter'
    BY <1>1 DEF VersionsInvariant, Filled, Committed, RowsExist, OneWriter, Written
  <1>7. Counted'
    <2>1. Committed' = Committed
      BY <1>1 DEF Committed
    <2>2. Committed = {v \in Numbers : versions[v] # NoRow}
          /\ Inserting = {u \in Active : op[u] \in InsertingOps}
      BY DEF Committed, Inserting
    <2>3. IsFiniteSet(Inserting) /\ Cardinality(Inserting) \in Nat
      BY FS_Subset, FS_CardinalityType, VersionAssumption DEF Inserting, Active
    <2>4. IsFiniteSet(Committed) /\ Cardinality(Committed) \in Nat
      <3>1. IsFiniteSet(Numbers)
        BY FS_Interval, VersionAssumption DEF Numbers
      <3> QED
        BY <3>1, FS_Subset, FS_CardinalityType DEF Committed
    <2>5. t \notin Inserting
      BY <1>1 DEF Inserting, Active
    <2>6. CASE o \in InsertingOps
      <3>1. Inserting' = Inserting \cup {t}
        BY <1>1, <1>2, <2>6 DEF Inserting, Active, InsertingOps
      <3>2. Cardinality(Inserting') = Cardinality(Inserting) + 1
        BY <2>3, <2>5, <3>1, FS_AddElement
      <3>3. Cardinality(Committed) + Cardinality(Inserting) < MaxVersions
        BY <2>2, <2>6 DEF Begin, Room
      <3> QED
        BY <2>1, <2>3, <2>4, <3>2, <3>3, VersionAssumption DEF Counted
    <2>7. CASE o \notin InsertingOps
      <3>1. Inserting' = Inserting
        BY <1>1, <1>2, <2>7 DEF Inserting, Active, InsertingOps
      <3> QED
        BY <2>1, <3>1 DEF VersionsInvariant, Counted
    <2> QED
      BY <2>6, <2>7
  <1>8. ASSUME NEW u \in Sessions PROVE Prepared(u)' /\ Careful(u)'
    <2>1. CASE u # t
      BY <1>1, <1>2, <1>3, <2>1, OtherSession DEF VersionsInvariant
    <2>2. CASE u = t
      <3>1. stmts[t] = << >>
        BY <1>1, NoStatements DEF VersionsInvariant, TypeOK
      <3>2. Heading(t) = "none"
        BY <3>1 DEF Heading
      <3>3. Written(t) = {} /\ t \notin holds
        BY <3>2 DEF VersionsInvariant, Prepared, Early
      <3>4. Written(t)' = {}
        BY <1>1, <3>3 DEF Written
      <3>5. /\ Heading(t)' \in Early \cup {"touch"} /\ Heading(t)' \notin {"carry", "insert", "write_schema"}
            /\ Heading(t)' = "touch" => o \notin Publishing
        <4>1. Heading(t)' = Head(Program(o))
          BY <1>2, ProgramStarts DEF Heading
        <4> QED
          BY <4>1, ProgramStarts
      <3>6. Prepared(t)'
        BY <1>1, <1>2, <3>3, <3>4, <3>5 DEF Prepared, Early
      <3> QED
        BY <2>2, <3>4, <3>6 DEF Careful
    <2> QED
      BY <2>1, <2>2
  <1> QED
    BY <1>5, <1>6, <1>7, <1>8 DEF VersionsInvariant

\* What the end of a transaction leaves.
LEMMA EndEffect ==
    ASSUME TypeOK, NEW t \in Sessions, End(t)
    PROVE  /\ writes' \in [Sessions -> [Numbers -> Rows]] /\ op' \in [Sessions -> AllOps \cup {"none"}]
           /\ DOMAIN stmts' = Sessions /\ stmts' = [u \in Sessions |-> stmts'[u]]
           /\ \A u \in Sessions : stmts'[u] \in ListsOf(op'[u])
           /\ target' \in [Sessions -> Nat] /\ payload' \in [Sessions -> Schemas]
           /\ todo' \in [Sessions -> SUBSET Numbers] /\ holds' = holds \ {t}
           /\ writes'[t] = NoWrites /\ op'[t] = "none" /\ stmts'[t] = << >>
           /\ \A u \in Sessions \ {t} :
                /\ writes'[u] = writes[u] /\ op'[u] = op[u] /\ stmts'[u] = stmts[u]
                /\ target'[u] = target[u] /\ todo'[u] = todo[u]
           /\ Written(t)' = {} /\ Heading(t)' = "none"
           /\ \A u \in Sessions \ {t} : Written(u)' = Written(u) /\ Heading(u)' = Heading(u)
           /\ Inserting' = Inserting \ {t}
  <1>1. /\ writes' = [writes EXCEPT ![t] = NoWrites] /\ op' = [op EXCEPT ![t] = "none"]
        /\ stmts' = [stmts EXCEPT ![t] = << >>] /\ target' = [target EXCEPT ![t] = 0]
        /\ payload' = [payload EXCEPT ![t] = EmptySchema] /\ todo' = [todo EXCEPT ![t] = {}]
        /\ holds' = holds \ {t}
    BY DEF End
  <1>2. /\ writes' \in [Sessions -> [Numbers -> Rows]] /\ writes'[t] = NoWrites
        /\ \A u \in Sessions \ {t} : writes'[u] = writes[u]
    BY <1>1, NoRowIsRow DEF TypeOK
  <1>3. /\ op' \in [Sessions -> AllOps \cup {"none"}] /\ op'[t] = "none"
        /\ \A u \in Sessions \ {t} : op'[u] = op[u]
    BY <1>1 DEF TypeOK
  <1>4. /\ DOMAIN stmts' = Sessions /\ stmts' = [u \in Sessions |-> stmts'[u]]
        /\ stmts'[t] = << >> /\ \A u \in Sessions \ {t} : stmts'[u] = stmts[u]
    BY <1>1 DEF TypeOK
  <1>5. \A u \in Sessions : stmts'[u] \in ListsOf(op'[u])
    BY <1>3, <1>4, NoStatements DEF TypeOK
  <1>6. /\ target' \in [Sessions -> Nat] /\ payload' \in [Sessions -> Schemas]
        /\ todo' \in [Sessions -> SUBSET Numbers]
        /\ \A u \in Sessions \ {t} : target'[u] = target[u] /\ todo'[u] = todo[u]
    BY <1>1, VersionAssumption DEF TypeOK
  <1>7. /\ Written(t)' = {} /\ Heading(t)' = "none"
        /\ \A u \in Sessions \ {t} : Written(u)' = Written(u) /\ Heading(u)' = Heading(u)
    BY <1>2, <1>4 DEF Written, Heading, NoWrites
  <1>8. Inserting' = Inserting \ {t}
    BY <1>3 DEF Inserting, Active, InsertingOps
  <1> QED
    BY <1>1, <1>2, <1>3, <1>4, <1>5, <1>6, <1>7, <1>8

\* A rollback, whoever asks for it.
LEMMA RollbackKeeps ==
    ASSUME VersionsInvariant, NEW t \in Sessions, Rollback(t)
    PROVE  VersionsInvariant'
  <1>1. versions' = versions /\ End(t) /\ TypeOK
    BY DEF Rollback, VersionsInvariant
  <1>2. TypeOK'
    BY <1>1, EndEffect DEF TypeOK
  <1>3. Filled'
    BY <1>1 DEF VersionsInvariant, Filled, Committed
  <1>4. RowsExist'
    <2>1. \A v \in Numbers : writes'[t][v] = NoRow
      BY <1>1, EndEffect DEF NoWrites
    <2> QED
      BY <1>1, <2>1, EndEffect DEF VersionsInvariant, RowsExist
  <1>5. OneWriter'
    BY <1>1, EndEffect DEF VersionsInvariant, OneWriter
  <1>6. Counted'
    <2>1. IsFiniteSet(Inserting) /\ Cardinality(Inserting) \in Nat
      BY FS_Subset, FS_CardinalityType, VersionAssumption DEF Inserting, Active
    <2>2. Cardinality(Inserting') <= Cardinality(Inserting) /\ Cardinality(Inserting') \in Nat
      BY <1>1, <2>1, EndEffect, FS_Subset, FS_CardinalityType
    <2>3. Committed' = Committed
      BY <1>1 DEF Committed
    <2>4. Cardinality(Committed) \in Nat
      <3>1. IsFiniteSet(Numbers)
        BY FS_Interval, VersionAssumption DEF Numbers
      <3> QED
        BY <3>1, FS_Subset, FS_CardinalityType DEF Committed
    <2> QED
      BY <2>1, <2>2, <2>3, <2>4, VersionAssumption DEF VersionsInvariant, Counted
  <1>7. ASSUME NEW u \in Sessions PROVE Prepared(u)' /\ Careful(u)'
    <2>1. CASE u # t
      BY <1>1, <2>1, EndEffect, OtherSession DEF VersionsInvariant
    <2>2. CASE u = t
      <3>1. Written(t)' = {} /\ Heading(t)' = "none" /\ t \notin holds'
        BY <1>1, EndEffect
      <3> QED
        BY <2>2, <3>1 DEF Prepared, Careful
    <2> QED
      BY <2>1, <2>2
  <1> QED
    BY <1>2, <1>3, <1>4, <1>5, <1>6, <1>7 DEF VersionsInvariant

\* A commit.
LEMMA CommitKeeps ==
    ASSUME VersionsInvariant, NEW t \in Sessions, Commit(t)
    PROVE  VersionsInvariant'
  <1>1. TypeOK /\ End(t) /\ versions' = [v \in Numbers |-> Sees(t, v)]
    BY DEF Commit, VersionsInvariant
  <1>2. versions' \in [Numbers -> Rows] /\ \A v \in Numbers : versions'[v] = Sees(t, v)
    BY <1>1, SeesRows
  <1>3. TypeOK'
    BY <1>1, <1>2, EndEffect DEF TypeOK
  <1>4. \A v \in Numbers : versions[v] # NoRow => versions'[v] # NoRow
    BY <1>2 DEF Sees, Written
  <1>5. \A v \in Numbers : v \notin Written(t) => versions'[v] = versions[v]
    BY <1>2 DEF Sees
  <1>6. RowsExist'
    <2>1. \A v \in Numbers : writes'[t][v] = NoRow
      BY <1>1, EndEffect DEF NoWrites
    <2>2. \A v \in Numbers : versions'[v].status = "absent" => versions'[v] = NoRow
      BY <1>2 DEF Sees, VersionsInvariant, RowsExist
    <2>3. ASSUME NEW u \in Sessions, NEW v \in Numbers, writes'[u][v].status = "absent"
          PROVE  writes'[u][v] = NoRow
      <3>1. u = t \/ writes'[u] = writes[u]
        BY <1>1, EndEffect
      <3> QED
        BY <2>1, <2>3, <3>1 DEF VersionsInvariant, RowsExist
    <2> QED
      BY <2>2, <2>3 DEF RowsExist
  <1>7. OneWriter'
    BY <1>1, EndEffect DEF VersionsInvariant, OneWriter
  <1>8. PICK k \in 0..MaxVersions : Committed = 1..k
    BY DEF VersionsInvariant, Filled
  <1>9. Cardinality(Committed) = k
    BY <1>8, FS_Interval, VersionAssumption
  <1>10. IsFiniteSet(Inserting) /\ Cardinality(Inserting) \in Nat
    BY FS_Subset, FS_CardinalityType, VersionAssumption DEF Inserting, Active
  <1>11. Inserting' = Inserting \ {t}
    BY <1>1, EndEffect
  <1>12. ASSUME \A v \in Written(t) : versions[v] # NoRow
         PROVE  Filled' /\ Counted'
    <2>1. Committed' = Committed
      <3>1. \A v \in Numbers : versions'[v] = NoRow <=> versions[v] = NoRow
        BY <1>4, <1>5, <1>12
      <3> QED
        BY <3>1 DEF Committed
    <2>2. Cardinality(Inserting') <= Cardinality(Inserting) /\ Cardinality(Inserting') \in Nat
      BY <1>10, <1>11, FS_Subset, FS_CardinalityType
    <2> QED
      <3>1. Filled'
        BY <1>8, <2>1 DEF Filled
      <3>2. Counted'
        BY <1>9, <1>10, <2>1, <2>2, VersionAssumption DEF VersionsInvariant, Counted
      <3> QED
        BY <3>1, <3>2
  <1>13. ASSUME \E v \in Written(t) : versions[v] = NoRow
         PROVE  Filled' /\ Counted'
    <2>1. PICK v \in Written(t) : versions[v] = NoRow
      BY <1>13
    <2>2. /\ v \in Numbers /\ v = target[t] /\ op[t] \in InsertingOps
          /\ \A w \in Numbers : w < v => w \in Committed
          /\ v \notin Committed
          /\ \A w \in Written(t) : versions[w] = NoRow => w = v
      BY <2>1 DEF VersionsInvariant, Careful, Committed, Written
    <2>3. v = k + 1
      BY <1>8, <2>2, VersionAssumption DEF Numbers
    <2>4. k + 1 \in 0..MaxVersions
      BY <2>2, <2>3, VersionAssumption DEF Numbers
    <2>5. Committed' = 1..(k + 1)
      <3>1. versions'[v] # NoRow
        BY <1>2, <2>1, <2>2 DEF Sees, Written
      <3>2. \A w \in Numbers : versions'[w] # NoRow <=> w \in Committed \/ w = v
        BY <1>4, <1>5, <2>2, <3>1 DEF Committed
      <3>3. Committed' = Committed \cup {v}
        BY <2>2, <3>2 DEF Committed
      <3> QED
        BY <1>8, <2>3, <3>3, VersionAssumption
    <2>6. Cardinality(Committed') = k + 1
      BY <2>4, <2>5, FS_Interval, VersionAssumption
    <2>7. t \in Inserting
      BY <2>2 DEF Inserting, Active, InsertingOps
    <2>8. Cardinality(Inserting') = Cardinality(Inserting) - 1
      BY <1>10, <1>11, <2>7, FS_RemoveElement
    <2> QED
      <3>1. Filled'
        BY <2>4, <2>5 DEF Filled
      <3>2. Counted'
        BY <1>9, <1>10, <2>6, <2>8, VersionAssumption DEF VersionsInvariant, Counted
      <3> QED
        BY <3>1, <3>2
  <1>14. ASSUME NEW u \in Sessions PROVE Prepared(u)' /\ Careful(u)'
    <2>1. CASE u = t
      <3>1. Written(t)' = {} /\ Heading(t)' = "none" /\ t \notin holds'
        BY <1>1, EndEffect
      <3> QED
        BY <2>1, <3>1 DEF Prepared, Careful
    <2>2. CASE u # t
      <3>1. /\ writes'[u] = writes[u] /\ op'[u] = op[u] /\ target'[u] = target[u]
            /\ Written(u)' = Written(u) /\ Heading(u)' = Heading(u)
            /\ u \in holds' => u \in holds
        BY <1>1, <2>2, EndEffect
      <3>2. \A v \in Written(u) : v \in Numbers /\ v \notin Written(t)
        BY <2>2 DEF VersionsInvariant, OneWriter, Written
      <3>3. \A v \in Written(u) : versions'[v] = versions[v]
        BY <1>5, <3>2
      <3>4. Careful(u)'
        BY <1>4, <3>1, <3>3 DEF VersionsInvariant, Careful
      <3>5. \A v \in Numbers : Sees(u, v) # NoRow => Sees(u, v)' # NoRow
        BY <1>4, <3>1 DEF Sees
      <3>6. Prepared(u)'
        BY <1>4, <3>1, <3>5 DEF VersionsInvariant, Prepared
      <3> QED
        BY <3>4, <3>6
    <2> QED
      BY <2>1, <2>2
  <1> QED
    BY <1>3, <1>6, <1>7, <1>12, <1>13, <1>14 DEF VersionsInvariant


\* Every action.
LEMMA NextKeeps ==
    ASSUME VersionsInvariant, [Next]_vars
    PROVE  VersionsInvariant'
  <1>1. CASE UNCHANGED vars
    <2>1. /\ versions' = versions /\ writes' = writes /\ op' = op /\ stmts' = stmts
          /\ target' = target /\ payload' = payload /\ todo' = todo /\ holds' = holds
      BY <1>1 DEF vars, txVars
    <2>2. TypeOK'
      BY <2>1 DEF VersionsInvariant, TypeOK
    <2>5. Filled' /\ RowsExist' /\ OneWriter'
      BY <2>1 DEF VersionsInvariant, Filled, Committed, RowsExist, OneWriter, Written
    <2>3. Counted'
      <3>1. Committed' = Committed /\ Inserting' = Inserting
        BY <2>1 DEF Committed, Inserting, Active
      <3> QED
        BY <3>1 DEF VersionsInvariant, Counted
    <2>4. \A t \in Sessions : Prepared(t)' /\ Careful(t)'
      BY <2>1, OtherSession DEF VersionsInvariant
    <2> QED
      BY <2>2, <2>3, <2>4, <2>5 DEF VersionsInvariant
  <1>2. ASSUME NEW t \in Sessions, NEW o \in Ops[t], NEW v \in Numbers, NEW x \in Schemas,
               Begin(t, o, v, x)
        PROVE  VersionsInvariant'
    BY <1>2, BeginKeeps, VersionAssumption
  <1>3. ASSUME NEW t \in Sessions, Step(t)
        PROVE  VersionsInvariant'
    <2>1. CASE Lookup(t)
      BY <2>1, LookupKeeps, RollbackKeeps DEF Lookup
    <2>2. CASE FindDraft(t)
      BY <2>2, FindDraftKeeps
    <2>3. CASE ReadNext(t)
      BY <2>3, ReadNextKeeps
    <2>4. CASE CarryForward(t)
      BY <2>4, CarryForwardKeeps
    <2>5. CASE Insert(t)
      <3>1. CASE versions[target[t]] = NoRow
        BY <2>5, <3>1, InsertKeeps DEF Insert
      <3>2. CASE versions[target[t]] # NoRow
        BY <2>5, <3>2, RollbackKeeps DEF Insert
      <3> QED
        BY <3>1, <3>2
    <2>6. CASE WriteSchema(t)
      BY <2>6, WriteSchemaKeeps
    <2>7. CASE DeprecateScan(t) \/ Deprecated(t)
      BY <2>7, DeprecateScanKeeps
    <2>8. CASE \E v \in Numbers : DeprecateRow(t, v)
      BY <2>8, DeprecateRowKeeps
    <2>9. CASE Promote(t)
      BY <2>9, PromoteKeeps
    <2>10. CASE Touch(t)
      BY <2>10, TouchKeeps
    <2>11. CASE Commit(t)
      BY <2>11, CommitKeeps
    <2> QED
      BY <1>3, <2>1, <2>2, <2>3, <2>4, <2>5, <2>6, <2>7, <2>8, <2>9, <2>10, <2>11 DEF Step
  <1>4. ASSUME NEW t \in Sessions, Break(t)
        PROVE  VersionsInvariant'
    BY <1>4, RollbackKeeps DEF Break
  <1> QED
    BY <1>1, <1>2, <1>3, <1>4 DEF Next

\* Initially there are no versions and no requests.
LEMMA InitHolds == Init => VersionsInvariant
  <1> SUFFICES ASSUME Init PROVE VersionsInvariant
    OBVIOUS
  <1>1. /\ versions = NoWrites /\ writes = [t \in Sessions |-> NoWrites]
        /\ op = [t \in Sessions |-> "none"] /\ stmts = [t \in Sessions |-> << >>]
        /\ target = [t \in Sessions |-> 0] /\ payload = [t \in Sessions |-> EmptySchema]
        /\ todo = [t \in Sessions |-> {}] /\ holds = {}
    BY DEF Init
  <1>2. \A v \in Numbers : versions[v] = NoRow /\ \A t \in Sessions : writes[t][v] = NoRow
    BY <1>1 DEF NoWrites
  <1>3. TypeOK
    BY <1>1, NoRowIsRow, NoStatements, VersionAssumption DEF TypeOK
  <1>4. Committed = {} /\ Inserting = {}
    BY <1>1, <1>2 DEF Committed, Inserting, Active
  <1>5. Filled
    <2>1. 0 \in 0..MaxVersions /\ 1..0 = {}
      BY VersionAssumption
    <2> QED
      BY <1>4, <2>1 DEF Filled
  <1>6. Counted
    BY <1>4, FS_EmptySet, VersionAssumption DEF Counted
  <1>7. RowsExist
    BY <1>2 DEF RowsExist
  <1>8. \A t \in Sessions : Written(t) = {} /\ Heading(t) = "none"
    BY <1>1, <1>2 DEF Written, Heading
  <1>9. OneWriter /\ \A t \in Sessions : Prepared(t) /\ Careful(t)
    BY <1>1, <1>8 DEF OneWriter, Prepared, Careful
  <1> QED
    BY <1>3, <1>5, <1>6, <1>7, <1>9 DEF VersionsInvariant

\* The inductive invariant holds, whatever the sessions ask for.
THEOREM VersionsInvariantHolds == Spec => []VersionsInvariant
  <1>1. Init => VersionsInvariant
    BY InitHolds
  <1>2. VersionsInvariant /\ [Next]_vars => VersionsInvariant'
    BY NextKeeps
  <1> QED
    BY <1>1, <1>2, PTL DEF Spec

-----------------------------------------------------------------------------
(* A published version never goes without another. *)

\* Only a commit changes what is published, and a commit publishes its target or
\* leaves every status.
LEMMA PublishedStep ==
    ASSUME VersionsInvariant, [Next]_vars, PublishedVersions # {}
    PROVE  PublishedVersions' # {}
  <1>1. CASE versions' = versions
    BY <1>1 DEF PublishedVersions
  <1>2. ASSUME NEW t \in Sessions, Commit(t)
        PROVE  PublishedVersions' # {}
    <2>1. /\ \A v \in Numbers : versions'[v] = Sees(t, v)
          /\ Now(t, "commit")
      BY <1>2 DEF Commit
    <2>2. Heading(t) = "commit"
      BY <2>1 DEF Now, Heading
    <2>3. CASE op[t] \in Publishing
      <3>1. target[t] \in Numbers /\ writes[t][target[t]].status = "published"
        BY <2>2, <2>3 DEF VersionsInvariant, Prepared
      <3>2. versions'[target[t]].status = "published"
        BY <2>1, <3>1, NoRowIsRow DEF Sees, Written
      <3> QED
        BY <3>1, <3>2 DEF PublishedVersions
    <2>4. CASE op[t] \notin Publishing
      <3>1. PICK v \in Numbers : versions[v].status = "published"
        BY DEF PublishedVersions
      <3>2. Sees(t, v).status = "published"
        BY <2>4, <3>1, NoRowIsRow DEF VersionsInvariant, Careful, Sees
      <3> QED
        BY <2>1, <3>1, <3>2 DEF PublishedVersions
    <2> QED
      BY <2>3, <2>4
  <1>3. versions' = versions \/ \E t \in Sessions : Commit(t)
    BY DEF Next, vars, Begin, Step, Break, Rollback, Lookup, FindDraft, ReadNext, CarryForward,
           Insert, WriteSchema, DeprecateScan, Deprecated, DeprecateRow, Promote, Touch
  <1> QED
    BY <1>1, <1>2, <1>3

\* A prompt never loses its published version: runs that ask for the published
\* version find one, whatever publications, rollbacks and failures overlap.
THEOREM StaysPublishedHolds == Spec => StaysPublished
  <1>1. VersionsInvariant /\ [Next]_vars => [PublishedVersions # {} => PublishedVersions' # {}]_vars
    BY PublishedStep
  <1> QED
    BY <1>1, VersionsInvariantHolds, PTL DEF Spec, StaysPublished


-----------------------------------------------------------------------------
(* With one publisher there is one published version at most. *)

\* Who deprecates and promotes is a publisher.
LEMMA PublishersOnly ==
    ASSUME TypeOK, NEW t \in Sessions, Heading(t) \in {"deprecate", "deprecating", "promote"}
    PROVE  op[t] \in Publishing /\ stmts[t] # << >>
  <1>1. stmts[t] # << >> /\ Head(stmts[t]) \in {"deprecate", "deprecating", "promote"}
    BY DEF Heading
  <1> QED
    BY <1>1, ListOf DEF Follows

\* A step of one transaction that commits nothing is none of another's business.
LEMMA OtherDeprecates ==
    ASSUME NEW u \in Sessions, Deprecates(u), versions' = versions, writes'[u] = writes[u],
           op'[u] = op[u], stmts'[u] = stmts[u], target'[u] = target[u], todo'[u] = todo[u]
    PROVE  Deprecates(u)'
  <1>1. Heading(u)' = Heading(u)
    BY DEF Heading
  <1>2. WithStatus(u, "published")' = WithStatus(u, "published")
    BY DEF WithStatus, Sees, Written
  <1> QED
    BY <1>1, <1>2 DEF Deprecates

\* A statement of t that commits nothing and leaves t in order.
LEMMA LoneStep ==
    ASSUME LoneInvariant, NEW t \in Sessions, versions' = versions, op' = op,
           \A u \in Sessions \ {t} :
             /\ writes'[u] = writes[u] /\ stmts'[u] = stmts[u]
             /\ target'[u] = target[u] /\ todo'[u] = todo[u],
           Deprecates(t)'
    PROVE  LoneInvariant'
  <1>1. ASSUME NEW u \in Sessions PROVE Deprecates(u)'
    <2>1. CASE u = t
      BY <2>1
    <2>2. CASE u # t
      BY <2>2, OtherDeprecates DEF LoneInvariant
    <2> QED
      BY <2>1, <2>2
  <1>2. PublishedVersions' = PublishedVersions
    BY DEF PublishedVersions
  <1> QED
    BY <1>1, <1>2 DEF LoneInvariant

\* The statements before the first row is deprecated, and those of a request that
\* publishes nothing, leave nothing to be deprecated.
LEMMA NothingToDeprecate ==
    ASSUME NEW t \in Sessions,
           \/ Heading(t) \in Early \cup {"deprecate"}
           \/ Heading(t) \in {"touch", "commit"} /\ op[t] \notin Publishing
    PROVE  Deprecates(t)
  BY DEF Deprecates, Early

\* The statement before: where t stands, and where it will.
LEMMA Moves ==
    ASSUME TypeOK, NEW t \in Sessions, NEW s \in Statements, Now(t, s), Advance(t)
    PROVE  /\ Heading(t) = s /\ stmts[t] # << >> /\ Follows(op[t], stmts[t]) /\ Head(stmts[t]) = s
           /\ Tail(stmts[t]) # << >> => Heading(t)' = Head(Tail(stmts[t]))
           /\ \A u \in Sessions \ {t} : stmts'[u] = stmts[u]
  <1>1. Heading(t) = s /\ stmts[t] # << >> /\ Head(stmts[t]) = s
    BY DEF Now, Heading
  <1>2. Follows(op[t], stmts[t])
    BY <1>1, ListOf
  <1>3. stmts'[t] = Tail(stmts[t]) /\ \A u \in Sessions \ {t} : stmts'[u] = stmts[u]
    BY DEF TypeOK, Advance
  <1> QED
    BY <1>1, <1>2, <1>3 DEF Heading

\* SELECT of the version asked for.
LEMMA LookupLone ==
    ASSUME VersionsInvariant, LoneInvariant, NEW t \in Sessions, Now(t, "lookup"), Advance(t),
           UNCHANGED <<versions, writes, op, target, payload, todo, holds>>
    PROVE  LoneInvariant'
  <1>1. "lookup" \in Statements
    BY DEF Statements
  <1>2. Heading(t)' = "deprecate" /\ \A u \in Sessions \ {t} : stmts'[u] = stmts[u]
    BY <1>1, Moves DEF VersionsInvariant, Follows
  <1>3. Deprecates(t)'
    BY <1>2 DEF Deprecates
  <1> QED
    BY <1>2, <1>3, LoneStep

\* SELECT of the latest draft: where the handler goes on.
LEMMA FindDraftGoesOn ==
    ASSUME TypeOK, NEW t \in Sessions, FindDraft(t)
    PROVE  /\ Heading(t) = "find_draft"
           /\ Heading(t)' \in {"next", "deprecate", "write_schema"}
  <1>1. TypeOK
    OBVIOUS
  <1>3. Heading(t) = "find_draft" /\ Head(stmts[t]) = "find_draft" /\ Follows(op[t], stmts[t])
    BY <1>1, ListOf DEF FindDraft, Now, Heading
  <1>4. Heading(t)' \in {"next", "deprecate", "write_schema"}
    <2> DEFINE rest == stmts'[t]
    <2>1. CASE Latest(WithStatus(t, "draft")) # 0
      <3>1. rest = Tail(stmts[t])
        BY <1>1, <2>1 DEF FindDraft, TypeOK
      <3> QED
        BY <1>3, <3>1 DEF Follows, Heading
    <2>2. CASE Latest(WithStatus(t, "draft")) = 0 /\ op[t] = "publish"
      <3>1. rest = InsertDraft \o Tail(stmts[t])
        BY <1>1, <2>2 DEF FindDraft, TypeOK
      <3>2. rest = <<"next", "carry", "insert", "deprecate", "deprecating", "promote", "touch", "commit">>
        BY <1>3, <2>2, <3>1, ListsWritten DEF Follows
      <3>3. /\ Head(<<"next", "carry", "insert", "deprecate", "deprecating", "promote", "touch", "commit">>) = "next"
            /\ <<"next", "carry", "insert", "deprecate", "deprecating", "promote", "touch", "commit">> # << >>
        OBVIOUS
      <3> QED
        BY <3>2, <3>3 DEF Heading
    <2>3. CASE Latest(WithStatus(t, "draft")) = 0 /\ op[t] = "schema"
      <3>1. rest = <<"next", "insert">> \o Tail(Tail(stmts[t]))
        BY <1>1, <2>3 DEF FindDraft, TypeOK
      <3>2. rest = <<"next", "insert", "touch", "commit">>
        BY <1>3, <2>3, <3>1, ListsWritten DEF Follows
      <3>3. Head(<<"next", "insert", "touch", "commit">>) = "next" /\ <<"next", "insert", "touch", "commit">> # << >>
        OBVIOUS
      <3> QED
        BY <3>2, <3>3 DEF Heading
    <2> QED
      BY <1>3, <2>1, <2>2, <2>3 DEF Follows
  <1> QED
    BY <1>3, <1>4

\* SELECT of the latest draft: another SELECT follows, or the scan.
LEMMA FindDraftLone ==
    ASSUME VersionsInvariant, LoneInvariant, NEW t \in Sessions, FindDraft(t)
    PROVE  LoneInvariant'
  <1>1. VersionsInvariant' /\ TypeOK
    BY FindDraftKeeps DEF VersionsInvariant
  <1>2. /\ versions' = versions /\ writes' = writes /\ op' = op /\ todo' = todo
        /\ \A u \in Sessions \ {t} : stmts'[u] = stmts[u] /\ target'[u] = target[u]
    BY <1>1 DEF FindDraft, TypeOK
  <1>4. Heading(t)' \in {"next", "deprecate", "write_schema"}
    BY <1>1, FindDraftGoesOn
  <1>5. Deprecates(t)'
    BY <1>4 DEF Deprecates
  <1> QED
    BY <1>2, <1>5, LoneStep

\* The number, the columns and the row of a new version, and new schema columns.
LEMMA EditingLone ==
    ASSUME VersionsInvariant, LoneInvariant, NEW t \in Sessions,
           NEW s \in {"next", "carry", "insert", "write_schema"}, Now(t, s), Advance(t),
           versions' = versions, op' = op, todo' = todo,
           \A u \in Sessions \ {t} : writes'[u] = writes[u] /\ target'[u] = target[u]
    PROVE  LoneInvariant'
  <1>1. s \in Statements /\ TypeOK
    BY DEF Statements, VersionsInvariant
  <1>2. /\ Heading(t)' \in Early \cup (IF op[t] \in Publishing THEN {"deprecate"} ELSE {"touch", "commit"})
        /\ \A u \in Sessions \ {t} : stmts'[u] = stmts[u]
    BY <1>1, Moves DEF Follows, Early, Publishing, NumberOps
  <1>3. Deprecates(t)'
    BY <1>2 DEF Deprecates, Early
  <1> QED
    BY <1>2, <1>3, LoneStep

\* The scan finds every published row.
LEMMA DeprecateScanLone ==
    ASSUME VersionsInvariant, LoneInvariant, NEW t \in Sessions, DeprecateScan(t)
    PROVE  LoneInvariant'
  <1>1. "deprecate" \in Statements /\ TypeOK
    BY DEF Statements, VersionsInvariant
  <1>2. Heading(t)' = "deprecating" /\ \A u \in Sessions \ {t} : stmts'[u] = stmts[u]
    BY <1>1, Moves DEF Follows, DeprecateScan
  <1>3. /\ todo'[t] = WithStatus(t, "published")
        /\ \A u \in Sessions \ {t} : todo'[u] = todo[u]
    BY <1>1 DEF DeprecateScan, PublishedRows, TypeOK
  <1>4. WithStatus(t, "published")' = WithStatus(t, "published")
    BY DEF DeprecateScan, WithStatus, Sees, Written
  <1>5. Deprecates(t)'
    BY <1>2, <1>3, <1>4 DEF Deprecates
  <1> QED
    BY <1>2, <1>3, <1>5, LoneStep DEF DeprecateScan

\* When no row is left, none is published any more.
LEMMA DeprecatedLone ==
    ASSUME VersionsInvariant, LoneInvariant, NEW t \in Sessions, Deprecated(t)
    PROVE  LoneInvariant'
  <1>1. "deprecating" \in Statements /\ TypeOK
    BY DEF Statements, VersionsInvariant
  <1>2. /\ Heading(t) = "deprecating" /\ Heading(t)' = "promote"
        /\ \A u \in Sessions \ {t} : stmts'[u] = stmts[u]
    BY <1>1, Moves DEF Follows, Deprecated
  <1>3. WithStatus(t, "published") = {}
    BY <1>2 DEF LoneInvariant, Deprecates, Deprecated
  <1>4. WithStatus(t, "published")' = WithStatus(t, "published")
    BY DEF Deprecated, WithStatus, Sees, Written
  <1>5. Deprecates(t)'
    BY <1>2, <1>3, <1>4 DEF Deprecates
  <1> QED
    BY <1>2, <1>5, LoneStep DEF Deprecated

\* One row is deprecated, or was not published any more.
LEMMA DeprecateRowLone ==
    ASSUME VersionsInvariant, LoneInvariant, NEW t \in Sessions, NEW v \in Numbers, DeprecateRow(t, v)
    PROVE  LoneInvariant'
  <1>1. Heading(t) = "deprecating" /\ Heading(t)' = "deprecating"
    BY DEF DeprecateRow, Now, Heading
  <1>2. /\ versions' = versions /\ op' = op /\ stmts' = stmts /\ target' = target
        /\ todo'[t] = todo[t] \ {v} /\ \A u \in Sessions \ {t} : todo'[u] = todo[u]
    BY DEF DeprecateRow, VersionsInvariant, TypeOK
  <1>3. /\ \A u \in Sessions \ {t} : writes'[u] = writes[u]
        /\ WithStatus(t, "published")' \subseteq WithStatus(t, "published") \ {v}
    <2>1. CASE Sees(t, v).status # "published"
      <3>1. writes' = writes
        BY <2>1 DEF DeprecateRow
      <3>2. \A w : Sees(t, w)' = Sees(t, w)
        BY <1>2, <3>1 DEF Sees, Written
      <3> QED
        BY <2>1, <3>1, <3>2 DEF WithStatus
    <2>2. CASE Sees(t, v).status = "published"
      <3>1. PICK row \in Rows : row = [Sees(t, v) EXCEPT !.status = "deprecated"]
        <4>1. Sees(t, v) \in Rows
          BY SeesRows DEF VersionsInvariant
        <4> QED
          BY <4>1 DEF Rows, Statuses
      <3>2. row.status = "deprecated" /\ row # NoRow
        <4>1. row.status = "deprecated"
          BY <3>1, SeesRows DEF VersionsInvariant, Rows
        <4> QED
          BY <4>1, NoRowIsRow
      <3>3. writes' = [writes EXCEPT ![t][v] = row]
        BY <2>2, <3>1 DEF DeprecateRow
      <3>4. /\ \A u \in Sessions \ {t} : writes'[u] = writes[u]
            /\ writes'[t][v] = row /\ \A w \in Numbers \ {v} : writes'[t][w] = writes[t][w]
        BY <3>3 DEF VersionsInvariant, TypeOK
      <3>5. Sees(t, v)' = row /\ \A w \in Numbers \ {v} : Sees(t, w)' = Sees(t, w)
        BY <1>2, <3>2, <3>4 DEF Sees, Written
      <3> QED
        BY <3>2, <3>4, <3>5 DEF WithStatus
    <2> QED
      BY <2>1, <2>2
  <1>4. Deprecates(t)'
    BY <1>1, <1>2, <1>3 DEF LoneInvariant, Deprecates
  <1> QED
    BY <1>2, <1>3, <1>4, LoneStep

\* The target becomes the one published row the transaction sees.
LEMMA PromoteLone ==
    ASSUME VersionsInvariant, LoneInvariant, NEW t \in Sessions, Promote(t)
    PROVE  LoneInvariant'
  <1>1. "promote" \in Statements /\ TypeOK
    BY DEF Statements, VersionsInvariant
  <1>2. /\ Heading(t) = "promote" /\ Heading(t)' = "touch"
        /\ \A u \in Sessions \ {t} : stmts'[u] = stmts[u]
    BY <1>1, Moves DEF Follows, Promote
  <1>3. /\ versions' = versions /\ op' = op /\ target' = target /\ todo' = todo
        /\ \A u \in Sessions \ {t} : writes'[u] = writes[u]
        /\ \A w \in Numbers \ {target[t]} : writes'[t][w] = writes[t][w]
    BY <1>1 DEF Promote, TypeOK
  <1>4. \A w \in Numbers \ {target[t]} : Sees(t, w)' = Sees(t, w)
    BY <1>3 DEF Sees, Written
  <1>5. WithStatus(t, "published") = {}
    BY <1>2 DEF LoneInvariant, Deprecates
  <1>6. WithStatus(t, "published")' \subseteq {target[t]}
    BY <1>4, <1>5 DEF WithStatus
  <1>7. Deprecates(t)'
    BY <1>2, <1>3, <1>6 DEF Deprecates
  <1> QED
    BY <1>2, <1>3, <1>7, LoneStep

\* The prompt's own row.
LEMMA TouchLone ==
    ASSUME VersionsInvariant, LoneInvariant, NEW t \in Sessions, Touch(t)
    PROVE  LoneInvariant'
  <1>1. "touch" \in Statements /\ TypeOK
    BY DEF Statements, VersionsInvariant
  <1>2. /\ Heading(t) = "touch" /\ Heading(t)' = "commit"
        /\ \A u \in Sessions \ {t} : stmts'[u] = stmts[u]
    BY <1>1, Moves DEF Follows, Touch
  <1>3. WithStatus(t, "published")' = WithStatus(t, "published")
    BY DEF Touch, WithStatus, Sees, Written
  <1>4. Deprecates(t)'
    BY <1>2, <1>3 DEF LoneInvariant, Deprecates, Touch
  <1> QED
    BY <1>2, <1>4, LoneStep DEF Touch

\* A request arrives.
LEMMA BeginLone ==
    ASSUME VersionsInvariant, LoneInvariant, NEW t \in Sessions, NEW o \in Ops[t],
           NEW n \in Numbers, NEW x \in Schemas, Begin(t, o, n, x)
    PROVE  LoneInvariant'
  <1>1. o \in AllOps
    BY VersionAssumption
  <1>2. /\ versions' = versions /\ writes' = writes /\ todo' = todo
        /\ op'[t] = o /\ stmts'[t] = Program(o)
        /\ \A u \in Sessions \ {t} : op'[u] = op[u] /\ stmts'[u] = stmts[u] /\ target'[u] = target[u]
    BY DEF Begin, VersionsInvariant, TypeOK
  <1>3. Deprecates(t)'
    <2>1. Heading(t)' = Head(Program(o))
      BY <1>1, <1>2, ProgramStarts DEF Heading
    <2> QED
      BY <1>1, <1>2, <2>1, ProgramStarts DEF Deprecates, Early
  <1>4. ASSUME NEW u \in Sessions PROVE Deprecates(u)' /\ op'[u] \in Ops[u] \cup {"none"}
    <2>1. CASE u = t
      BY <1>2, <1>3, <2>1
    <2>2. CASE u # t
      BY <1>2, <2>2, OtherDeprecates DEF LoneInvariant
    <2> QED
      BY <2>1, <2>2
  <1>5. PublishedVersions' = PublishedVersions
    BY <1>2 DEF PublishedVersions
  <1> QED
    BY <1>4, <1>5 DEF LoneInvariant

\* A rollback.
LEMMA RollbackLone ==
    ASSUME VersionsInvariant, LoneInvariant, NEW t \in Sessions, Rollback(t)
    PROVE  LoneInvariant'
  <1>1. TypeOK /\ End(t) /\ versions' = versions
    BY DEF Rollback, VersionsInvariant
  <1>2. ASSUME NEW u \in Sessions PROVE Deprecates(u)' /\ op'[u] \in Ops[u] \cup {"none"}
    <2>1. CASE u = t
      BY <1>1, <2>1, EndEffect DEF Deprecates
    <2>2. CASE u # t
      BY <1>1, <2>2, EndEffect, OtherDeprecates DEF LoneInvariant
    <2> QED
      BY <2>1, <2>2
  <1>3. PublishedVersions' = PublishedVersions
    BY <1>1 DEF PublishedVersions
  <1> QED
    BY <1>2, <1>3 DEF LoneInvariant

\* A commit: the publisher's leaves its target published and nothing else, any
\* other publishes nothing.
LEMMA CommitLone ==
    ASSUME LonePublisher, VersionsInvariant, LoneInvariant, NEW t \in Sessions, Commit(t)
    PROVE  LoneInvariant'
  <1>1. /\ TypeOK /\ End(t) /\ Heading(t) = "commit"
        /\ \A v \in Numbers : versions'[v] = Sees(t, v)
    BY DEF Commit, VersionsInvariant, Now, Heading
  <1>2. op[t] \in Publishing => PublishedVersions' \subseteq {target[t]}
    BY <1>1 DEF LoneInvariant, Deprecates, PublishedVersions, WithStatus
  <1>3. ASSUME op[t] \notin Publishing, NEW v \in Numbers, versions'[v].status = "published"
        PROVE  versions[v].status = "published"
    BY <1>1, <1>3, NoRowIsRow DEF VersionsInvariant, Careful, Sees
  <1>4. \A v, w \in PublishedVersions' : v = w
    <2>1. CASE op[t] \in Publishing
      BY <1>2, <2>1
    <2>2. CASE op[t] \notin Publishing
      <3>1. PublishedVersions' \subseteq PublishedVersions
        BY <1>3, <2>2 DEF PublishedVersions
      <3> QED
        BY <3>1 DEF LoneInvariant
    <2> QED
      BY <2>1, <2>2
  <1>5. ASSUME NEW u \in Sessions PROVE Deprecates(u)' /\ op'[u] \in Ops[u] \cup {"none"}
    <2>1. CASE u = t
      BY <1>1, <2>1, EndEffect DEF Deprecates
    <2>2. CASE u # t
      <3>1. /\ writes'[u] = writes[u] /\ op'[u] = op[u] /\ target'[u] = target[u] /\ todo'[u] = todo[u]
            /\ Heading(u)' = Heading(u) /\ Written(u)' = Written(u)
        BY <1>1, <2>2, EndEffect
      <3>2. CASE op[u] \in Publishing
        <4>1. op[t] \notin Publishing
          BY <2>2, <3>2 DEF LonePublisher, LoneInvariant, Publishing, NumberOps
        <4>2. WithStatus(u, "published")' \subseteq WithStatus(u, "published")
          BY <1>3, <3>1, <4>1 DEF WithStatus, Sees
        <4> QED
          BY <3>1, <4>2 DEF LoneInvariant, Deprecates
      <3>3. CASE op[u] \notin Publishing
        <4>1. Heading(u) \notin {"deprecating", "promote"}
          BY <1>1, <3>3, PublishersOnly
        <4> QED
          BY <3>1, <3>3, <4>1 DEF LoneInvariant, Deprecates
      <3> QED
        BY <3>2, <3>3
    <2> QED
      BY <2>1, <2>2
  <1> QED
    BY <1>4, <1>5 DEF LoneInvariant

\* Every action.
LEMMA NextLone ==
    ASSUME LonePublisher, VersionsInvariant, LoneInvariant, [Next]_vars
    PROVE  LoneInvariant'
  <1>1. CASE UNCHANGED vars
    <2>1. /\ versions' = versions /\ writes' = writes /\ op' = op /\ stmts' = stmts
          /\ target' = target /\ todo' = todo
      BY <1>1 DEF vars, txVars
    <2>2. \A t \in Sessions : Deprecates(t)'
      BY <2>1, OtherDeprecates DEF LoneInvariant
    <2> QED
      BY <2>1, <2>2 DEF LoneInvariant, PublishedVersions
  <1>2. ASSUME NEW t \in Sessions, NEW o \in Ops[t], NEW v \in Numbers, NEW x \in Schemas,
               Begin(t, o, v, x)
        PROVE  LoneInvariant'
    BY <1>2, BeginLone
  <1>3. ASSUME NEW t \in Sessions, Step(t)
        PROVE  LoneInvariant'
    <2>1. CASE Lookup(t)
      BY <2>1, LookupLone, RollbackLone DEF Lookup
    <2>2. CASE FindDraft(t)
      BY <2>2, FindDraftLone
    <2>3. CASE ReadNext(t)
      <3>1. \A u \in Sessions \ {t} : target'[u] = target[u]
        BY <2>3 DEF ReadNext, VersionsInvariant, TypeOK
      <3> QED
        BY <2>3, <3>1, EditingLone DEF ReadNext
    <2>4. CASE CarryForward(t)
      BY <2>4, EditingLone DEF CarryForward
    <2>5. CASE Insert(t)
      <3>1. CASE versions[target[t]] = NoRow
        <4>1. \A u \in Sessions \ {t} : writes'[u] = writes[u]
          BY <2>5, <3>1 DEF Insert, VersionsInvariant, TypeOK
        <4> QED
          BY <2>5, <3>1, <4>1, EditingLone DEF Insert
      <3>2. CASE versions[target[t]] # NoRow
        BY <2>5, <3>2, RollbackLone DEF Insert
      <3> QED
        BY <3>1, <3>2
    <2>6. CASE WriteSchema(t)
      <3>1. \A u \in Sessions \ {t} : writes'[u] = writes[u]
        BY <2>6 DEF WriteSchema, VersionsInvariant, TypeOK
      <3> QED
        BY <2>6, <3>1, EditingLone DEF WriteSchema
    <2>7. CASE DeprecateScan(t)
      BY <2>7, DeprecateScanLone
    <2>8. CASE Deprecated(t)
      BY <2>8, DeprecatedLone
    <2>9. CASE \E v \in Numbers : DeprecateRow(t, v)
      BY <2>9, DeprecateRowLone
    <2>10. CASE Promote(t)
      BY <2>10, PromoteLone
    <2>11. CASE Touch(t)
      BY <2>11, TouchLone
    <2>12. CASE Commit(t)
      BY <2>12, CommitLone
    <2> QED
      BY <1>3, <2>1, <2>2, <2>3, <2>4, <2>5, <2>6, <2>7, <2>8, <2>9, <2>10, <2>11, <2>12 DEF Step
  <1>4. ASSUME NEW t \in Sessions, Break(t)
        PROVE  LoneInvariant'
    BY <1>4, RollbackLone DEF Break
  <1> QED
    BY <1>1, <1>2, <1>3, <1>4 DEF Next

\* Initially nothing is published.
LEMMA InitLone == Init => LoneInvariant
  <1> SUFFICES ASSUME Init PROVE LoneInvariant
    OBVIOUS
  <1>1. /\ \A t \in Sessions : op[t] = "none" /\ stmts[t] = << >>
        /\ \A v \in Numbers : versions[v] = NoRow
    BY DEF Init, NoWrites
  <1>2. \A t \in Sessions : Heading(t) = "none"
    BY <1>1 DEF Heading
  <1>3. PublishedVersions = {}
    BY <1>1, NoRowIsRow DEF PublishedVersions
  <1> QED
    BY <1>1, <1>2, <1>3 DEF LoneInvariant, Deprecates

\* The invariant of a prompt with one publisher.
THEOREM LoneInvariantHolds == ASSUME LonePublisher PROVE Spec => []LoneInvariant
  <1>1. Init => LoneInvariant
    BY InitLone
  <1>2. VersionsInvariant /\ LoneInvariant /\ [Next]_vars => LoneInvariant'
    BY NextLone
  <1> QED
    BY <1>1, <1>2, VersionsInvariantHolds, PTL DEF Spec

\* One version per prompt is published at most, with any number of sessions that
\* create, edit and archive, if one session publishes and rolls back.
THEOREM AtMostOnePublishedHolds == ASSUME LonePublisher PROVE Spec => []AtMostOnePublished
  <1>1. LoneInvariant => AtMostOnePublished
    <2> SUFFICES ASSUME LoneInvariant PROVE AtMostOnePublished
      OBVIOUS
    <2>1. CASE PublishedVersions = {}
      BY <2>1, FS_EmptySet DEF AtMostOnePublished
    <2>2. CASE PublishedVersions # {}
      <3>1. PICK v \in PublishedVersions : TRUE
        BY <2>2
      <3>2. PublishedVersions = {v}
        BY <3>1 DEF LoneInvariant
      <3> QED
        BY <3>2, FS_Singleton DEF AtMostOnePublished
    <2> QED
      BY <2>1, <2>2
  <1> QED
    BY <1>1, LoneInvariantHolds, PTL

-----------------------------------------------------------------------------
(* With one publisher requests do not wait for each other in a circle. *)

\* Whoever is waited for and waits itself is the publisher among its rows.
LEMMA WaitingHolder ==
    ASSUME VersionsInvariant, NEW w \in Sessions, Written(w) # {}, Wanted(w) # {}
    PROVE  op[w] \in Publishing
  <1>1. Heading(w) \notin Early
    BY DEF VersionsInvariant, Prepared
  <1>2. Heading(w) \in {"insert", "write_schema", "promote", "deprecating"}
    BY DEF Wanted, Now, Heading
  <1> QED
    BY <1>1, <1>2, PublishersOnly DEF VersionsInvariant, Early

\* The prompt's row is written last: who holds it waits for nothing.
LEMMA HolderWaitsForNone ==
    ASSUME VersionsInvariant, NEW w \in Sessions, NEW u \in Sessions, w \in holds
    PROVE  ~WaitsFor(w, u)
  <1>1. stmts[w] # << >> /\ Head(stmts[w]) = "commit"
    BY DEF VersionsInvariant, Prepared, Heading
  <1>2. Wanted(w) = {} /\ ~Now(w, "touch")
    BY <1>1 DEF Wanted, Now
  <1> QED
    BY <1>2 DEF WaitsFor

\* No request is part of a deadlock.
LEMMA NoCircle ==
    ASSUME LonePublisher, VersionsInvariant, LoneInvariant, NEW t \in Sessions, Deadlocked(t)
    PROVE  FALSE
  <1>1. PICK S \in SUBSET Sessions : t \in S /\ \A u \in S : \E w \in S : WaitsFor(u, w)
    BY DEF Deadlocked
  <1>2. ASSUME NEW u \in S, NEW w \in S, WaitsFor(u, w)
        PROVE  Wanted(u) # {} /\ Written(w) # {}
    <2>1. \E x \in S : WaitsFor(w, x)
      BY <1>1
    <2>2. w \notin holds
      BY <2>1, HolderWaitsForNone
    <2> QED
      BY <1>2, <2>2 DEF WaitsFor
  <1>3. PICK a \in S : WaitsFor(t, a)
    BY <1>1
  <1>4. PICK b \in S : WaitsFor(a, b)
    BY <1>1
  <1>5. PICK c \in S : WaitsFor(b, c)
    BY <1>1
  <1>6. op[a] \in Publishing /\ op[b] \in Publishing
    <2>1. Written(a) # {} /\ Wanted(a) # {} /\ Written(b) # {} /\ Wanted(b) # {}
      BY <1>1, <1>2, <1>3, <1>4, <1>5
    <2> QED
      BY <2>1, WaitingHolder
  <1>7. a = b
    BY <1>6 DEF LonePublisher, LoneInvariant, Publishing, NumberOps
  <1> QED
    BY <1>4, <1>7 DEF WaitsFor

\* Requests take their locks so that none ends as the victim of a deadlock, with
\* any number of editors beside the publisher.
THEOREM NoDeadlockHolds == ASSUME LonePublisher PROVE Spec => []NoDeadlock
  <1>1. VersionsInvariant /\ LoneInvariant => NoDeadlock
    BY NoCircle DEF NoDeadlock
  <1> QED
    BY <1>1, VersionsInvariantHolds, LoneInvariantHolds, PTL

-----------------------------------------------------------------------------
(* Requests end. *)

\* Who holds a row has a request under way.
LEMMA HoldersAreActive ==
    ASSUME VersionsInvariant, NEW w \in Sessions, Written(w) # {} \/ w \in holds
    PROVE  w \in Active
  <1>1. Heading(w) # "none"
    BY DEF VersionsInvariant, Prepared, Early
  <1>2. stmts[w] # << >>
    BY <1>1 DEF Heading
  <1> QED
    BY <1>2, NoStatements DEF VersionsInvariant, TypeOK, Active

\* A request is at one of its statements.
LEMMA ActiveIsAtStatement ==
    ASSUME TypeOK, NEW t \in Active
    PROVE  stmts[t] # << >> /\ Heading(t) = Head(stmts[t]) /\ Heading(t) \in Statements
  <1>1. t \in Sessions /\ op[t] \in AllOps
    BY DEF Active, TypeOK
  <1>2. stmts[t] # << >>
    BY <1>1, SomeStatements DEF TypeOK
  <1> QED
    BY <1>1, <1>2, ListOf DEF Heading, Follows

\* A request that cannot send its next statement waits for another's.
LEMMA ReadyOrWaiting ==
    ASSUME VersionsInvariant, NEW t \in Active, ~Ready(t)
    PROVE  \E w \in Active : WaitsFor(t, w)
  <1>1. /\ t \in Sessions /\ stmts[t] # << >> /\ Heading(t) = Head(stmts[t])
        /\ Heading(t) \in Statements
    BY ActiveIsAtStatement DEF VersionsInvariant, Active
  <1>2. Heading(t) \in {"insert", "write_schema", "promote", "deprecating", "touch"}
    BY <1>1 DEF Ready, Statements
  <1>3. CASE Heading(t) \in {"insert", "write_schema", "promote"}
    <2>1. Locked(t, target[t])
      BY <1>3 DEF Ready
    <2>2. PICK w \in Sessions \ {t} : target[t] \in Written(w)
      BY <2>1 DEF Locked
    <2>3. Wanted(t) = {target[t]}
      BY <1>1, <1>3 DEF Wanted, Now
    <2>4. WaitsFor(t, w)
      BY <2>2, <2>3 DEF WaitsFor
    <2> QED
      BY <2>2, <2>4, HoldersAreActive
  <1>4. CASE Heading(t) = "deprecating"
    <2>1. todo[t] # {} /\ \A v \in todo[t] : Locked(t, v)
      BY <1>4 DEF Ready
    <2>2. Wanted(t) = todo[t]
      BY <1>1, <1>4 DEF Wanted, Now
    <2>3. todo[t] \subseteq UNION {Written(w) : w \in Sessions \ {t}}
      BY <2>1 DEF Locked
    <2>4. PICK v \in todo[t] : Locked(t, v)
      BY <2>1
    <2>5. PICK w \in Sessions \ {t} : v \in Written(w)
      BY <2>4 DEF Locked
    <2>6. WaitsFor(t, w)
      BY <2>1, <2>2, <2>3, <2>5 DEF WaitsFor
    <2> QED
      BY <2>5, <2>6, HoldersAreActive
  <1>5. CASE Heading(t) = "touch"
    <2>1. PICK w \in holds : w # t
      BY <1>5 DEF Ready
    <2>2. w \in Sessions
      BY DEF VersionsInvariant, TypeOK
    <2>3. WaitsFor(t, w)
      BY <1>1, <1>5, <2>1 DEF WaitsFor, Now
    <2> QED
      BY <2>2, <2>3, HoldersAreActive
  <1> QED
    BY <1>2, <1>3, <1>4, <1>5

\* With any number of editors beside the publisher, one of the requests that are
\* under way can always send its next statement: the transactions that hold rows
\* are under way, too, and do not wait for each other in a circle.
THEOREM SomebodyGoesHolds == ASSUME LonePublisher PROVE Spec => []SomebodyGoes
  <1>1. ASSUME VersionsInvariant, NoDeadlock PROVE SomebodyGoes
    <2>1. ASSUME NEW t \in Active, \A u \in Active : ~Ready(u) PROVE FALSE
      <3>1. \A u \in Active : \E w \in Active : WaitsFor(u, w)
        BY <1>1, <2>1, ReadyOrWaiting
      <3>2. Active \in SUBSET Sessions /\ t \in Sessions
        BY DEF Active
      <3>3. Deadlocked(t)
        BY <3>1, <3>2 DEF Deadlocked
      <3> QED
        BY <1>1, <3>2, <3>3 DEF NoDeadlock
    <2> QED
      BY <2>1 DEF SomebodyGoes
  <1>2. VersionsInvariant /\ NoDeadlock => SomebodyGoes
    BY <1>1
  <1> QED
    BY <1>2, VersionsInvariantHolds, NoDeadlockHolds, PTL

\* The transaction t comes closer to its end, and no other moves.
Closer(t) ==
    /\ ToSend(t)' < ToSend(t)
    /\ \A u \in Sessions \ {t} : ToSend(u)' = ToSend(u)

\* Places are numbers.
LEMMA PlaceIsNumber == ASSUME NEW s PROVE s \in Statements \cup {"none"} => Place(s) \in Nat
  BY VersionAssumption DEF Place, Statements

\* What is left to deprecate can be counted.
LEMMA TodoCounted ==
    ASSUME NEW S \in SUBSET Numbers
    PROVE  IsFiniteSet(S) /\ Cardinality(S) \in Nat /\ Cardinality(S) <= MaxVersions
  <1>1. IsFiniteSet(Numbers) /\ Cardinality(Numbers) = MaxVersions
    BY FS_Interval, VersionAssumption DEF Numbers
  <1> QED
    BY <1>1, FS_Subset, FS_CardinalityType

\* The statement that t is at, before and after a step.
LEMMA AtPlaces ==
    ASSUME TypeOK, NEW t \in Sessions
    PROVE  Place(Heading(t)) \in Nat /\ Heading(t) \in Statements \cup {"none"}
  <1>1. CASE stmts[t] = << >>
    BY <1>1, PlaceIsNumber DEF Heading
  <1>2. CASE stmts[t] # << >>
    BY <1>2, ListOf, PlaceIsNumber DEF Heading, Follows
  <1> QED
    BY <1>1, <1>2

\* A step to a statement closer to the end, with nothing more to deprecate.
LEMMA MovesOn ==
    ASSUME VersionsInvariant, NEW t \in Sessions, NEW s \in Statements \cup {"none"},
           Heading(t)' = s, Place(s) < Place(Heading(t)), todo'[t] \subseteq todo[t],
           \A u \in Sessions \ {t} : stmts'[u] = stmts[u] /\ todo'[u] = todo[u]
    PROVE  Closer(t)
  <1>1. todo[t] \in SUBSET Numbers /\ Place(Heading(t)) \in Nat /\ Place(s) \in Nat
    BY AtPlaces, PlaceIsNumber DEF VersionsInvariant, TypeOK
  <1>2. /\ Cardinality(todo[t]) \in Nat /\ Cardinality(todo'[t]) \in Nat
        /\ Cardinality(todo'[t]) <= Cardinality(todo[t])
    BY <1>1, TodoCounted, FS_Subset
  <1>3. ToSend(t)' = Place(s) + Cardinality(todo'[t])
    BY DEF ToSend
  <1>4. \A u \in Sessions \ {t} : ToSend(u)' = ToSend(u)
    BY DEF ToSend, Heading
  <1> QED
    BY <1>1, <1>2, <1>3, <1>4 DEF Closer, ToSend

\* The end of a transaction.
LEMMA EndCloser ==
    ASSUME VersionsInvariant, NEW t \in Sessions, op[t] # "none", End(t)
    PROVE  Closer(t)
  <1>1. /\ Heading(t)' = "none" /\ todo'[t] = {}
        /\ \A u \in Sessions \ {t} : stmts'[u] = stmts[u] /\ todo'[u] = todo[u]
    BY EndEffect DEF VersionsInvariant, TypeOK, End
  <1>2. Heading(t) \in Statements
    BY ActiveIsAtStatement DEF VersionsInvariant, Active
  <1>3. Place("none") < Place(Heading(t))
    BY <1>2, VersionAssumption DEF Place, Statements
  <1> QED
    BY <1>1, <1>3, MovesOn

\* The statements that go on to the next one.
LEMMA AdvanceCloser ==
    ASSUME VersionsInvariant, NEW t \in Sessions,
           NEW s \in {"lookup", "next", "carry", "insert", "write_schema", "deprecating",
                      "promote", "touch"},
           Now(t, s), Advance(t), todo' = todo
    PROVE  Closer(t)
  <1>1. s \in Statements /\ TypeOK
    BY DEF Statements, VersionsInvariant
  <1>2. /\ Heading(t) = s /\ \A u \in Sessions \ {t} : stmts'[u] = stmts[u]
        /\ Follows(op[t], stmts[t]) /\ Head(stmts[t]) = s
        /\ Tail(stmts[t]) # << >> => Heading(t)' = Head(Tail(stmts[t]))
    BY <1>1, Moves
  <1>3. CASE s \in {"lookup", "next", "carry"}
    <2>1. /\ s = "lookup" => Heading(t)' = "deprecate"
          /\ s = "next" => Heading(t)' \in {"carry", "insert"}
          /\ s = "carry" => Heading(t)' = "insert"
      BY <1>2, <1>3 DEF Follows
    <2>2. Heading(t)' \in Statements /\ Place(Heading(t)') < Place(s)
      BY <1>3, <2>1, VersionAssumption DEF Place, Statements
    <2> QED
      BY <1>2, <2>2, MovesOn
  <1>4. CASE s \in {"insert", "write_schema"}
    <2>1. Heading(t)' \in {"deprecate", "touch", "commit"}
      BY <1>2, <1>4 DEF Follows
    <2>2. Heading(t)' \in Statements /\ Place(Heading(t)') < Place(s)
      BY <1>4, <2>1, VersionAssumption DEF Place, Statements
    <2> QED
      BY <1>2, <2>2, MovesOn
  <1>5. CASE s \in {"deprecating", "promote", "touch"}
    <2>1. /\ s = "deprecating" => Heading(t)' = "promote"
          /\ s = "promote" => Heading(t)' = "touch"
          /\ s = "touch" => Heading(t)' = "commit"
      BY <1>2, <1>5 DEF Follows
    <2>2. Heading(t)' \in Statements /\ Place(Heading(t)') < Place(s)
      BY <1>5, <2>1, VersionAssumption DEF Place, Statements
    <2> QED
      BY <1>2, <2>2, MovesOn
  <1> QED
    BY <1>3, <1>4, <1>5

\* The scan finds no more rows than there are versions.
LEMMA ScanCloser ==
    ASSUME VersionsInvariant, NEW t \in Sessions, DeprecateScan(t)
    PROVE  Closer(t)
  <1>1. "deprecate" \in Statements /\ TypeOK
    BY DEF Statements, VersionsInvariant
  <1>2. /\ Heading(t) = "deprecate" /\ Heading(t)' = "deprecating"
        /\ \A u \in Sessions \ {t} : stmts'[u] = stmts[u]
    BY <1>1, Moves DEF Follows, DeprecateScan
  <1>3. /\ todo'[t] = WithStatus(t, "published")
        /\ \A u \in Sessions \ {t} : todo'[u] = todo[u]
    BY <1>1 DEF DeprecateScan, PublishedRows, TypeOK
  <1>4. todo'[t] \in SUBSET Numbers /\ todo[t] \in SUBSET Numbers
    BY <1>1, <1>3 DEF WithStatus, TypeOK
  <1>5. /\ Cardinality(todo'[t]) \in Nat /\ Cardinality(todo'[t]) <= MaxVersions
        /\ Cardinality(todo[t]) \in Nat
    BY <1>4, TodoCounted
  <1>6. ToSend(t)' = 4 + Cardinality(todo'[t]) /\ ToSend(t) = MaxVersions + 5 + Cardinality(todo[t])
    BY <1>2 DEF ToSend, Place
  <1>7. \A u \in Sessions \ {t} : ToSend(u)' = ToSend(u)
    BY <1>2, <1>3 DEF ToSend, Heading
  <1> QED
    BY <1>5, <1>6, <1>7, VersionAssumption DEF Closer

\* One row less to deprecate.
LEMMA RowCloser ==
    ASSUME VersionsInvariant, NEW t \in Sessions, NEW v \in Numbers, DeprecateRow(t, v)
    PROVE  Closer(t)
  <1>1. /\ Heading(t) = "deprecating" /\ stmts' = stmts /\ v \in todo[t]
        /\ todo'[t] = todo[t] \ {v} /\ \A u \in Sessions \ {t} : todo'[u] = todo[u]
        /\ todo[t] \in SUBSET Numbers
    BY DEF DeprecateRow, VersionsInvariant, TypeOK, Now, Heading
  <1>2. /\ Cardinality(todo'[t]) = Cardinality(todo[t]) - 1
        /\ Cardinality(todo[t]) \in Nat
    BY <1>1, TodoCounted, FS_RemoveElement
  <1>3. ToSend(t) = 4 + Cardinality(todo[t]) /\ ToSend(t)' = 4 + Cardinality(todo'[t])
    BY <1>1 DEF ToSend, Place, Heading
  <1>4. \A u \in Sessions \ {t} : ToSend(u)' = ToSend(u)
    BY <1>1 DEF ToSend, Heading
  <1> QED
    BY <1>2, <1>3, <1>4 DEF Closer

\* A request that has a statement is under way.
LEMMA NowIsActive ==
    ASSUME TypeOK, NEW t \in Sessions, NEW s, Now(t, s)
    PROVE  op[t] # "none"
  BY NoStatements DEF TypeOK, Now

\* Every statement of a transaction.
LEMMA StepCloser ==
    ASSUME VersionsInvariant, NEW t \in Sessions, Step(t)
    PROVE  Closer(t)
  <1>0. TypeOK
    BY DEF VersionsInvariant
  <1>1. CASE Lookup(t)
    BY <1>0, <1>1, AdvanceCloser, EndCloser, NowIsActive DEF Lookup, Rollback
  <1>2. CASE FindDraft(t)
    <2>1. Heading(t) = "find_draft" /\ Heading(t)' \in {"next", "deprecate", "write_schema"}
      BY <1>0, <1>2, FindDraftGoesOn
    <2>2. todo' = todo /\ \A u \in Sessions \ {t} : stmts'[u] = stmts[u]
      BY <1>0, <1>2 DEF FindDraft, TypeOK
    <2>3. Heading(t)' \in Statements /\ Place(Heading(t)') < Place("find_draft")
      BY <2>1, VersionAssumption DEF Place, Statements
    <2> QED
      BY <2>1, <2>2, <2>3, MovesOn
  <1>3. CASE ReadNext(t)
    BY <1>3, AdvanceCloser DEF ReadNext
  <1>4. CASE CarryForward(t)
    BY <1>4, AdvanceCloser DEF CarryForward
  <1>5. CASE Insert(t)
    BY <1>0, <1>5, AdvanceCloser, EndCloser, NowIsActive DEF Insert, Rollback
  <1>6. CASE WriteSchema(t)
    BY <1>6, AdvanceCloser DEF WriteSchema
  <1>7. CASE DeprecateScan(t)
    BY <1>7, ScanCloser
  <1>8. CASE Deprecated(t)
    BY <1>8, AdvanceCloser DEF Deprecated
  <1>9. CASE \E v \in Numbers : DeprecateRow(t, v)
    BY <1>9, RowCloser
  <1>10. CASE Promote(t)
    BY <1>10, AdvanceCloser DEF Promote
  <1>11. CASE Touch(t)
    BY <1>11, AdvanceCloser DEF Touch
  <1>12. CASE Commit(t)
    BY <1>0, <1>12, EndCloser, NowIsActive DEF Commit
  <1> QED
    BY <1>1, <1>2, <1>3, <1>4, <1>5, <1>6, <1>7, <1>8, <1>9, <1>10, <1>11, <1>12 DEF Step

\* Whatever the sessions ask for, a request comes closer to its end with every
\* statement, and nothing that others do takes it back.
THEOREM RequestsRunDownHolds == Spec => RequestsRunDown
  <1> DEFINE Down == \E t \in Sessions :
                        /\ op[t] # "none" => ToSend(t)' < ToSend(t)
                        /\ \A u \in Sessions \ {t} : ToSend(u)' = ToSend(u)
  <1>1. ASSUME VersionsInvariant, Next PROVE Down
    <2>1. ASSUME NEW t \in Sessions, NEW o \in Ops[t], NEW v \in Numbers, NEW x \in Schemas,
                 Begin(t, o, v, x)
          PROVE  Down
      <3>1. /\ op[t] = "none" /\ todo' = todo
            /\ \A u \in Sessions \ {t} : stmts'[u] = stmts[u]
        BY <1>1, <2>1 DEF Begin, VersionsInvariant, TypeOK
      <3>2. \A u \in Sessions \ {t} : ToSend(u)' = ToSend(u)
        BY <3>1 DEF ToSend, Heading
      <3> QED
        BY <3>1, <3>2
    <2>2. ASSUME NEW t \in Sessions, Step(t) PROVE Down
      BY <1>1, <2>2, StepCloser DEF Closer
    <2>3. ASSUME NEW t \in Sessions, Break(t) PROVE Down
      BY <1>1, <2>3, EndCloser DEF Break, Rollback, Active, Closer
    <2> QED
      BY <1>1, <2>1, <2>2, <2>3 DEF Next
  <1>2. VersionsInvariant /\ [Next]_vars => [Down]_vars
    BY <1>1
  <1> QED
    BY <1>2, VersionsInvariantHolds, PTL DEF Spec, RequestsRunDown

\* What is left of a request is a number, at most 2 * MaxVersions + 9.
THEOREM ToSendIsBounded ==
    Spec => [](\A t \in Sessions : ToSend(t) \in Nat /\ ToSend(t) <= 2 * MaxVersions + 9)
  <1>1. ASSUME VersionsInvariant
        PROVE  \A t \in Sessions : ToSend(t) \in Nat /\ ToSend(t) <= 2 * MaxVersions + 9
    <2> TAKE t \in Sessions
    <2>1. /\ Place(Heading(t)) \in Nat /\ Heading(t) \in Statements \cup {"none"}
          /\ todo[t] \in SUBSET Numbers
      BY <1>1, AtPlaces DEF VersionsInvariant, TypeOK
    <2>2. Place(Heading(t)) <= MaxVersions + 9
      BY <2>1, VersionAssumption DEF Place, Statements
    <2>3. Cardinality(todo[t]) \in Nat /\ Cardinality(todo[t]) <= MaxVersions
      BY <2>1, TodoCounted
    <2> QED
      BY <2>1, <2>2, <2>3, VersionAssumption DEF ToSend
  <1>2. VersionsInvariant =>
          \A t \in Sessions : ToSend(t) \in Nat /\ ToSend(t) <= 2 * MaxVersions + 9
    BY <1>1
  <1> QED
    BY <1>2, VersionsInvariantHolds, PTL

=============================================================================
