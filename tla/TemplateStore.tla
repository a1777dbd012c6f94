---------------------------- MODULE TemplateStore -----------------------------
(***************************************************************************)
(* What Template Builder stores: templates and their published versions,   *)
(* the placeholder registry and its bindings, the block library, template  *)
(* tests and the marketplace.  A layout is the sets of tokens {{name}} in  *)
(* its text and in its image addresses.  Handlers whose statements other   *)
(* requests can come between (an update and a publication read the status  *)
(* first, the marketplace checks its source and reads it later) are taken  *)
(* in two steps; `tjob' holds the request between them.                    *)
(***************************************************************************)
EXTENDS Integers, Sequences, FiniteSets

CONSTANTS
    TplIds, RegIds, BlockIds, TestIds, ItemIds,     \* ids are given out in order
    Names,          \* names of placeholders, of tokens and of runtime parameters
    Layouts,        \* [text, images]: the tokens of a layout
    Forms,          \* [mode, saved, sql, params, active]: what a placeholder can be
    BlockBodies, Ratings, MaxTplVersions, MaxDownloads,
    TplJobs, NoTplRow, GoneTplRow

\* The rows of the tables.  What an item of the marketplace copies depends on its
\* kind; a source that went away meanwhile leaves it with nothing.
TplRows == [status : {"draft", "published", "archived"}, layout : Layouts]
RegRows == [name : Names, form : Forms]

CopiesOf(kind, ids, payloads) ==
    [kind : {kind}, source : ids, payload : payloads \cup {NoTplRow}, rating : Int, downloads : Nat]

ItemRows ==
    CopiesOf("template", TplIds, Layouts) \cup CopiesOf("block", BlockIds, BlockBodies)
        \cup CopiesOf("placeholder", RegIds, RegRows)

\* generation_mode is one of two (a CHECK of the table); no row and a deleted row
\* are no rows.
ASSUME StoreAssumption ==
    /\ Layouts \subseteq [text : SUBSET Names, images : SUBSET Names]
    /\ Forms \subseteq [mode : {"llm_prompt", "manual_sql"}, saved : BOOLEAN, sql : BOOLEAN,
                        params : SUBSET Names, active : BOOLEAN]
    /\ Ratings \subseteq Int
    /\ {NoTplRow, GoneTplRow} \cap (TplRows \cup RegRows \cup ItemRows \cup Layouts \cup BlockBodies) = {}

VARIABLES
    tpl,        \* templates by id: status and layout_json
    tplVersion, \* template_versions: the layouts by number
    reg,        \* placeholders_registry by id
    bound,      \* template_placeholders: pairs of template and placeholder
    block,      \* blocks_library by id
    tests,      \* template_tests by id
    item,       \* marketplace_items by id
    tjob,       \* requests between their two steps
    raced       \* ghost: rows written by requests that overlapped on them

templateVars == <<tpl, tplVersion, reg, bound, block, tests, item, tjob, raced>>

NoTplJob == [op |-> "none"]

TemplateInit ==
    /\ tpl = [t \in TplIds |-> NoTplRow] /\ tplVersion = [t \in TplIds |-> <<>>]
    /\ reg = [r \in RegIds |-> NoTplRow] /\ bound = {}
    /\ block = [b \in BlockIds |-> NoTplRow]
    /\ tests = [s \in TestIds |-> NoTplRow] /\ item = [i \in ItemIds |-> NoTplRow]
    /\ tjob = [j \in TplJobs |-> NoTplJob] /\ raced = {}

\* A deleted row's id is never given out again.
Stored(f)    == {k \in DOMAIN f : f[k] \notin {NoTplRow, GoneTplRow}}
NextId(f, k) == f[k] = NoTplRow /\ \A o \in DOMAIN f : o < k => f[o] # NoTplRow

-----------------------------------------------------------------------------
(* api/templates.py.  Names are not unique in the migrations, so creating    *)
(* always adds a row.  Deleting a template only archives it.                 *)

AddTemplate(t, l) == NextId(tpl, t) /\ tpl' = [tpl EXCEPT ![t] = [status |-> "draft", layout |-> l]]

create_template(t, l) ==
    /\ AddTemplate(t, l)
    /\ UNCHANGED <<tplVersion, reg, bound, block, tests, item, tjob, raced>>

\* Mutant: a published template can be edited like any other.
BeginUpdateAny(j, t, l) ==
    /\ tjob[j] = NoTplJob /\ t \in Stored(tpl)
    /\ tjob' = [tjob EXCEPT ![j] = [op |-> "update", on |-> t, read |-> tpl[t].status, layout |-> l]]
    /\ UNCHANGED <<tpl, tplVersion, reg, bound, block, tests, item, raced>>

\* The status is read first ...
BeginUpdate(j, t, l) ==
    /\ tjob[j] = NoTplJob /\ t \in Stored(tpl) /\ tpl[t].status # "published"
    /\ tjob' = [tjob EXCEPT ![j] = [op |-> "update", on |-> t, read |-> tpl[t].status, layout |-> l]]
    /\ UNCHANGED <<tpl, tplVersion, reg, bound, block, tests, item, raced>>

\* ... and the row is written by its id alone, whatever its status is by now.
update_template(j) ==
    /\ tjob[j].op = "update"
    /\ LET t == tjob[j].on
       IN  /\ tpl' = [tpl EXCEPT ![t].layout = tjob[j].layout]
           /\ raced' = IF tpl[t].status = "published" /\ tjob[j].read # "published"
                       THEN raced \cup {<<"template", t>>} ELSE raced
           /\ tjob' = [o \in TplJobs |->
                         CASE o = j -> NoTplJob
                           [] tjob[o].op = "publish" /\ tjob[o].on = t -> [tjob[o] EXCEPT !.stale = TRUE]
                           [] OTHER -> tjob[o]]
    /\ UNCHANGED <<tplVersion, reg, bound, block, tests, item>>

delete_template(t) ==
    /\ t \in Stored(tpl)
    /\ tpl' = [tpl EXCEPT ![t].status = "archived"]
    /\ UNCHANGED <<tplVersion, reg, bound, block, tests, item, tjob, raced>>

BeginPublish(j, t) ==
    /\ tjob[j] = NoTplJob /\ t \in Stored(tpl)
    /\ tpl[t].status = "draft" /\ Len(tplVersion[t]) < MaxTplVersions
    /\ tjob' = [tjob EXCEPT ![j] = [op |-> "publish", on |-> t, layout |-> tpl[t].layout, stale |-> FALSE]]
    /\ UNCHANGED <<tpl, tplVersion, reg, bound, block, tests, item, raced>>

\* The version gets the layout read before, the number after the highest there
\* is; the status is set whatever it is by now.
publish_template(j) ==
    /\ tjob[j].op = "publish"
    /\ LET t == tjob[j].on
       IN  /\ tplVersion' = [tplVersion EXCEPT ![t] = Append(@, tjob[j].layout)]
           /\ tpl' = [tpl EXCEPT ![t].status = "published"]
           /\ raced' = IF tjob[j].stale THEN raced \cup {<<"template", t>>} ELSE raced \ {<<"template", t>>}
    /\ tjob' = [tjob EXCEPT ![j] = NoTplJob]
    /\ UNCHANGED <<reg, bound, block, tests, item>>

\* UNIQUE (template_id, version_number): the second of two INSERTs that saw the
\* same highest number fails, and with it the request.
PublishRefused(j) ==
    /\ tjob[j].op = "publish"
    /\ tjob' = [tjob EXCEPT ![j] = NoTplJob]
    /\ UNCHANGED <<tpl, tplVersion, reg, bound, block, tests, item, raced>>

\* From any status, archived too.
revert_to_draft(t) ==
    /\ t \in Stored(tpl)
    /\ tpl' = [tpl EXCEPT ![t].status = "draft"]
    /\ UNCHANGED <<tplVersion, reg, bound, block, tests, item, tjob, raced>>

bind_placeholder(t, r) ==
    /\ t \in Stored(tpl) /\ r \in Stored(reg) /\ <<t, r>> \notin bound
    /\ bound' = bound \cup {<<t, r>>}
    /\ UNCHANGED <<tpl, tplVersion, reg, block, tests, item, tjob, raced>>

-----------------------------------------------------------------------------
(* api/placeholders.py *)

NamesTaken == {reg[r].name : r \in Stored(reg)}

AddPlaceholder(r, n, form) ==
    NextId(reg, r) /\ reg' = [reg EXCEPT ![r] = [name |-> n, form |-> form]]

\* A name that exists is answered with the row there is.
create_placeholder(r, n, form) ==
    /\ n \notin NamesTaken /\ AddPlaceholder(r, n, form)
    /\ UNCHANGED <<tpl, tplVersion, bound, block, tests, item, tjob, raced>>

\* The handler reads the first row of its result twice; the first time closes
\* the result, the second fails, and that rolls the UPDATE back.
update_placeholder(r) == r \in Stored(reg) /\ UNCHANGED templateVars

\* A bound placeholder is held by the foreign key of its bindings.
delete_placeholder(r) ==
    /\ r \in Stored(reg) /\ \A t \in TplIds : <<t, r>> \notin bound
    /\ reg' = [reg EXCEPT ![r] = GoneTplRow]
    /\ UNCHANGED <<tpl, tplVersion, bound, block, tests, item, tjob, raced>>

ActiveNamed(n) == {r \in Stored(reg) : reg[r].name = n /\ reg[r].form.active}

-----------------------------------------------------------------------------
(* api/blocks.py *)

AddBlock(b, body) == NextId(block, b) /\ block' = [block EXCEPT ![b] = body]

create_block(b, body) ==
    /\ AddBlock(b, body)
    /\ UNCHANGED <<tpl, tplVersion, reg, bound, tests, item, tjob, raced>>

delete_block(b) ==
    /\ b \in Stored(block)
    /\ block' = [block EXCEPT ![b] = GoneTplRow]
    /\ UNCHANGED <<tpl, tplVersion, reg, bound, tests, item, tjob, raced>>

-----------------------------------------------------------------------------
(* api/tests.py.  A test renders the template with the placeholders BOUND to *)
(* it and its parameters, and looks for the values of `strings'.             *)

create_test(s, t, params, strings) ==
    /\ s \notin Stored(tests) /\ t \in Stored(tpl)
    /\ tests' = [tests EXCEPT ![s] = [on |-> t, params |-> params, strings |-> strings, verdict |-> "none"]]
    /\ UNCHANGED <<tpl, tplVersion, reg, bound, block, item, tjob, raced>>

update_test(s, params, strings) ==
    /\ s \in Stored(tests)
    /\ tests' = [tests EXCEPT ![s].params = params, ![s].strings = strings]
    /\ UNCHANGED <<tpl, tplVersion, reg, bound, block, item, tjob, raced>>

delete_test(s) ==
    /\ s \in Stored(tests)
    /\ tests' = [tests EXCEPT ![s] = NoTplRow]
    /\ UNCHANGED <<tpl, tplVersion, reg, bound, block, item, tjob, raced>>

\* The names render_template_for_test has values for; other tokens stay as
\* they are in the text.
TestContext(t, params) == params \cup {reg[r].name : r \in {q \in Stored(reg) : <<t, q>> \in bound}}

\* The values that appear in the rendered HTML: image addresses are not
\* searched for tokens.
render_template_for_test(t, params) == tpl[t].layout.text \cap TestContext(t, params)

\* The verdict is only answered, never stored; it is kept here to be looked at.
run_test(s) ==
    /\ s \in Stored(tests)
    /\ LET x == tests[s]
       IN  tests' = [tests EXCEPT ![s].verdict =
                        IF x.strings \subseteq render_template_for_test(x.on, x.params)
                        THEN "pass" ELSE "fail"]
    /\ UNCHANGED <<tpl, tplVersion, reg, bound, block, item, tjob, raced>>

-----------------------------------------------------------------------------
(* api/marketplace.py.  An item names its source and keeps a copy of it.     *)

SourceRows(kind) == CASE kind = "template" -> tpl [] kind = "block" -> block [] OTHER -> reg

fetch_source_payload(kind, s) ==
    IF s \notin Stored(SourceRows(kind)) THEN NoTplRow
    ELSE IF kind = "template" THEN tpl[s].layout ELSE SourceRows(kind)[s]

\* The source is there and is not listed ...
BeginPublishItem(j, kind, s) ==
    /\ tjob[j] = NoTplJob /\ s \in Stored(SourceRows(kind))
    /\ \A i \in Stored(item) : <<item[i].kind, item[i].source>> # <<kind, s>>
    /\ tjob' = [tjob EXCEPT ![j] = [op |-> "list", kind |-> kind, on |-> s]]
    /\ UNCHANGED <<tpl, tplVersion, reg, bound, block, tests, item, raced>>

ListedItem(kind, s) ==
    [kind |-> kind, source |-> s, payload |-> fetch_source_payload(kind, s), rating |-> 0, downloads |-> 0]

\* ... and is read once more for the copy, when it may have been deleted.
publish_item(j, i) ==
    /\ tjob[j].op = "list" /\ NextId(item, i)
    /\ LET kind == tjob[j].kind
           s    == tjob[j].on
       IN  /\ item' = [item EXCEPT ![i] = ListedItem(kind, s)]
           /\ raced' = IF s \in Stored(SourceRows(kind)) THEN raced ELSE raced \cup {<<"item", i>>}
    /\ tjob' = [tjob EXCEPT ![j] = NoTplJob]
    /\ UNCHANGED <<tpl, tplVersion, reg, bound, block, tests>>

\* The new rating is computed from what is read, in tenths; the downloads count
\* as the votes given so far, and a tie may be rounded either way.
NewRating(old, downloads, given, up) ==
    IF old = 0 THEN given
    ELSE LET votes == IF downloads = 0 THEN 1 ELSE downloads
             total == 2 * (old * votes + given) + (votes + 1)
         IN  IF total % (2 * (votes + 1)) = 0 /\ ~up
             THEN total \div (2 * (votes + 1)) - 1 ELSE total \div (2 * (votes + 1))

BeginRate(j, i, given, up) ==
    /\ tjob[j] = NoTplJob /\ i \in Stored(item)
    /\ tjob' = [tjob EXCEPT ![j] = [op |-> "rate", on |-> i,
                                    rating |-> NewRating(item[i].rating, item[i].downloads, given, up)]]
    /\ UNCHANGED <<tpl, tplVersion, reg, bound, block, tests, item, raced>>

rate_marketplace_item(j) ==
    /\ tjob[j].op = "rate"
    /\ item' = IF tjob[j].on \in Stored(item)
               THEN [item EXCEPT ![tjob[j].on].rating = tjob[j].rating] ELSE item
    /\ tjob' = [tjob EXCEPT ![j] = NoTplJob]
    /\ UNCHANGED <<tpl, tplVersion, reg, bound, block, tests, raced>>

\* The source as it is now, not as it was listed; the copy only when it is gone.
ImportContent(i) ==
    LET live == fetch_source_payload(item[i].kind, item[i].source)
    IN  IF live = NoTplRow THEN item[i].payload ELSE live

\* Into a new draft, a new block, or a placeholder unless one has its name.
import_marketplace_item(i, k) ==
    /\ i \in Stored(item) /\ ImportContent(i) # NoTplRow /\ item[i].downloads < MaxDownloads
    /\ LET c == ImportContent(i)
       IN  \/ /\ item[i].kind = "template" /\ k \in TplIds
              /\ AddTemplate(k, c) /\ UNCHANGED <<block, reg>>
           \/ /\ item[i].kind = "block" /\ k \in BlockIds
              /\ AddBlock(k, c) /\ UNCHANGED <<tpl, reg>>
           \/ /\ item[i].kind = "placeholder" /\ k \in RegIds
              /\ IF c.name \in NamesTaken
                 THEN UNCHANGED reg
                 ELSE AddPlaceholder(k, c.name, c.form)
              /\ UNCHANGED <<tpl, block>>
    /\ item' = [item EXCEPT ![i].downloads = @ + 1]
    /\ UNCHANGED <<tplVersion, bound, tests, tjob, raced>>

delete_marketplace_item(i) ==
    /\ i \in Stored(item)
    /\ item' = [item EXCEPT ![i] = GoneTplRow]
    /\ UNCHANGED <<tpl, tplVersion, reg, bound, block, tests, tjob, raced>>

-----------------------------------------------------------------------------

TemplateRoutes(t) ==
    \/ \E l \in Layouts : create_template(t, l)
    \/ delete_template(t) \/ revert_to_draft(t)
    \/ \E j \in TplJobs :
          \/ BeginPublish(j, t) \/ \E l \in Layouts : BeginUpdate(j, t, l)
          \/ update_template(j) \/ publish_template(j) \/ PublishRefused(j)

PlaceholderRoutes ==
    \E r \in RegIds :
        \/ \E n \in Names, f \in Forms : create_placeholder(r, n, f)
        \/ update_placeholder(r) \/ delete_placeholder(r)

BindingRoutes == \E t \in TplIds, r \in RegIds : bind_placeholder(t, r)

TestRoutes ==
    \E s \in TestIds :
        \/ \E params \in SUBSET Names, strings \in SUBSET Names :
              \/ \E t \in TplIds : create_test(s, t, params, strings)
              \/ update_test(s, params, strings)
        \/ delete_test(s) \/ run_test(s)

BlockRoutes == \E b \in BlockIds : delete_block(b) \/ \E body \in BlockBodies : create_block(b, body)

MarketRoutes(kind) ==
    \/ \E i \in ItemIds :
          \/ delete_marketplace_item(i)
          \/ \E k \in TplIds \cup BlockIds \cup RegIds : import_marketplace_item(i, k)
    \/ \E j \in TplJobs :
          \/ \E s \in DOMAIN SourceRows(kind) : BeginPublishItem(j, kind, s)
          \/ rate_marketplace_item(j)
          \/ \E i \in ItemIds :
                publish_item(j, i) \/ \E g \in Ratings, up \in BOOLEAN : BeginRate(j, i, g, up)

-----------------------------------------------------------------------------
(* What the store promises. *)

\* A published template is what its latest version says: the editor refuses to
\* change it ("create a new version instead") and publication snapshots what it
\* publishes.  Only an update that was under way at the same time can make them
\* differ, because the status is read before the row is written.
PublishedIsVersioned ==
    \A t \in Stored(tpl) :
        tpl[t].status = "published" /\ <<"template", t>> \notin raced =>
            tplVersion[t] # <<>> /\ tplVersion[t][Len(tplVersion[t])] = tpl[t].layout

\* Whatever the marketplace lists can be imported: the source may be deleted
\* since, but the item has its own copy, unless the source went away in the
\* middle of the listing.
ListedCanBeImported ==
    \A i \in Stored(item) : <<"item", i>> \notin raced => ImportContent(i) # NoTplRow

\* What was given out as a copy, a version of a template or an item of the
\* marketplace, is still there as it was given out.
CopiesAreKept == PublishedIsVersioned /\ ListedCanBeImported

=============================================================================
