------------------------ MODULE DocumentServicesProofs ------------------------
(***************************************************************************)
(* Theorems about the services around documents, for any number of rows,   *)
(* requests, workers and processes:                                        *)
(*                                                                         *)
(*   CopiesAreKeptHolds      a marketplace item has the copy it was listed *)
(*                           with, but for a listing that raced            *)
(*   InputsSufficientHolds   the inputs a template asks for are enough     *)
(*   SuccessHasDocumentHolds a job that succeeded has a document of its    *)
(*                           template                                      *)
(*   ImportKeepsTextHolds    an import keeps the text of a document        *)
(*   RunAsAskedHolds         success keeps the guardrails and the inputs   *)
(*   EvaluationTraceableHolds  an evaluation is of the run it names        *)
(*   PushedIsVettedHolds     what is given out was verified and redacted   *)
(*   RuleServesActiveVersionHolds  a rule serves its one active version    *)
(*   RegistrationClosesHolds registration closes                           *)
(*                                                                         *)
(* A step is about one service, so each has an inductive invariant of its  *)
(* own, kept by its steps and untouched by the others': StoreInvariant,    *)
(* RenderInvariant (over the templates of the first), ImportInvariant,     *)
(* PromptInvariant, VettingInvariant, and over the shape of the requests   *)
(* that this one gives, RuleInvariant and RegistrationInvariant.           *)
(***************************************************************************)
EXTENDS DocumentServices, FiniteSetTheorems, SequenceTheorems, WellFoundedInduction, TLAPS

\* What is listed on the marketplace.
Kinds == {"template", "block", "placeholder"}

-----------------------------------------------------------------------------
(* Template Builder: templates, placeholders, blocks and the marketplace.    *)

\* The requests that are in progress in Template Builder.
StoreJobs ==
    {NoTplJob} \cup [op : {"update"}, on : TplIds, read : {"draft", "archived"}, layout : Layouts]
        \cup [op : {"publish"}, on : TplIds, layout : Layouts, stale : BOOLEAN]
        \cup [op : {"list"}, kind : {"template"}, on : TplIds] \cup [op : {"list"}, kind : {"block"}, on : BlockIds]
        \cup [op : {"list"}, kind : {"placeholder"}, on : RegIds] \cup [op : {"rate"}, on : ItemIds, rating : Int]

\* The tables of the store and what is in them.
StoreTyped ==
    /\ tpl \in [TplIds -> TplRows \cup {NoTplRow, GoneTplRow}]
    /\ tplVersion \in [TplIds -> Seq(Layouts)]
    /\ reg \in [RegIds -> RegRows \cup {NoTplRow, GoneTplRow}]
    /\ block \in [BlockIds -> BlockBodies \cup {NoTplRow, GoneTplRow}]
    /\ item \in [ItemIds -> ItemRows \cup {NoTplRow, GoneTplRow}]
    /\ tjob \in [TplJobs -> StoreJobs]

\* A request is about a template there is, an update began when it was not
\* published, and a publication that nothing overtook has the layout it read.
EditsKnown ==
    \A j \in TplJobs :
        /\ tjob[j].op \in {"update", "publish"} => tpl[tjob[j].on] \in TplRows
        /\ tjob[j].op = "publish" /\ ~tjob[j].stale => tpl[tjob[j].on].layout = tjob[j].layout

\* An item is listed with its copy, unless its listing raced.
ItemsCopied ==
    \A i \in ItemIds : item[i] \in ItemRows /\ <<"item", i>> \notin raced => item[i].payload # NoTplRow

\* Publication is what every version was kept for, and a copy what an item is.
StoreInvariant == StoreTyped /\ EditsKnown /\ PublishedIsVersioned /\ ItemsCopied

\* The steps of the store.
StoreStep ==
    \/ \E t \in TplIds : TemplateRoutes(t)
    \/ \E t \in TplIds, l \in Layouts : create_template(t, l)
    \/ PlaceholderRoutes \/ BindingRoutes \/ TestRoutes \/ BlockRoutes
    \/ \E kind \in Kinds : MarketRoutes(kind)

\* Every step is one of the store, or leaves its tables as they are.
LEMMA StoreSteps ==
    ASSUME Next
    PROVE  \/ StoreStep /\ UNCHANGED <<renderVars, importVars, promptVars, parsingVars>>
           \/ UNCHANGED templateVars
  <1>1. CASE TemplateBuilder
    <2>1. CASE StoreRoutes /\ UNCHANGED <<renderVars, importVars>>
      <3>1. ASSUME ListedPlaceholders PROVE PlaceholderRoutes
        <4>1. (CHOOSE f \in Forms : TRUE) \in Forms
          BY ServicesAssumption
        <4> QED
          BY <3>1, <4>1 DEF ListedPlaceholders, PlaceholderRoutes
      <3>2. ASSUME Market PROVE StoreStep
        BY <3>1, <3>2 DEF Market, StoreStep, NewTemplates, Kinds
      <3>3. ASSUME NEW f \in Forms, create_placeholder(1, CHOOSE n \in Names : TRUE, f) PROVE PlaceholderRoutes
        <4>1. (CHOOSE n \in Names : TRUE) \in Names
          BY ServicesAssumption
        <4> QED
          BY <3>3, <4>1, ServicesAssumption DEF PlaceholderRoutes
      <3>4. bind_placeholder(1, 1) => BindingRoutes
        BY ServicesAssumption DEF BindingRoutes
      <3>5. TemplateRoutes(1) => StoreStep
        BY ServicesAssumption DEF StoreStep
      <3>6. NewTemplates => StoreStep
        BY DEF NewTemplates, StoreStep
      <3>7. StoreStep
        BY <2>1, <3>2, <3>3, <3>4, <3>5, <3>6 DEF StoreRoutes, StoreStep
      <3> QED
        BY <1>1, <2>1, <3>7 DEF TemplateBuilder
    <2>2. CASE RenderNext
      BY <2>2 DEF RenderNext, QueueJob, BeginGenerate, RenderGenerated, generate_document, GenerateFails,
                  GenerateCrashes, delete_job, DeleteJobFails, UnlinkFile, process_one, RenderClaimed,
                  _render_job, RenderFails, WorkerStops
    <2>3. CASE UNCHANGED <<templateVars, renderVars>>
      BY <2>3
    <2> QED
      BY <1>1, <2>1, <2>2, <2>3 DEF TemplateBuilder
  <1>2. CASE PromptBuilder
    BY <1>2 DEF PromptBuilder
  <1>3. CASE DocAI
    BY <1>3 DEF DocAI
  <1> QED
    BY <1>1, <1>2, <1>3 DEF Next

-----------------------------------------------------------------------------

\* What the operation of a request says about its other fields.
LEMMA StoreJobKinds ==
    ASSUME StoreTyped, NEW j \in TplJobs
    PROVE  /\ tjob[j].op = "update" =>
                 tjob[j] \in [op : {"update"}, on : TplIds, read : {"draft", "archived"}, layout : Layouts]
           /\ tjob[j].op = "publish" => tjob[j] \in [op : {"publish"}, on : TplIds, layout : Layouts, stale : BOOLEAN]
           /\ tjob[j].op = "list" => \/ tjob[j] \in [op : {"list"}, kind : {"template"}, on : TplIds]
                                     \/ tjob[j] \in [op : {"list"}, kind : {"block"}, on : BlockIds]
                                     \/ tjob[j] \in [op : {"list"}, kind : {"placeholder"}, on : RegIds]
           /\ tjob[j].op = "rate" => tjob[j] \in [op : {"rate"}, on : ItemIds, rating : Int]
  BY DEF StoreTyped, StoreJobs, NoTplJob

\* The rows of a table are what is stored there.
LEMMA StoredRows ==
    ASSUME StoreTyped
    PROVE  /\ Stored(tpl) = {t \in TplIds : tpl[t] \in TplRows}
           /\ Stored(reg) = {r \in RegIds : reg[r] \in RegRows}
           /\ Stored(block) = {b \in BlockIds : block[b] \in BlockBodies}
           /\ Stored(item) = {i \in ItemIds : item[i] \in ItemRows}
  BY StoreAssumption DEF StoreTyped, Stored

\* What is said of templates alone.
TemplatesInvariant ==
    /\ tpl \in [TplIds -> TplRows \cup {NoTplRow, GoneTplRow}]
    /\ tplVersion \in [TplIds -> Seq(Layouts)]
    /\ EditsKnown /\ PublishedIsVersioned

\* A step that leaves templates and their versions alone, and of the requests only
\* those that are not about them, leaves this true.
LEMMA TemplatesUntouched ==
    ASSUME StoreInvariant, UNCHANGED <<tpl, tplVersion>>,
           \A t \in TplIds : <<"template", t>> \in raced' <=> <<"template", t>> \in raced,
           \A j \in TplJobs : tjob'[j] = tjob[j] \/ tjob'[j].op \notin {"update", "publish"}
    PROVE  TemplatesInvariant'
  <1>1. EditsKnown'
    BY DEF StoreInvariant, EditsKnown
  <1>2. PublishedIsVersioned'
    BY StoredRows DEF StoreInvariant, StoreTyped, PublishedIsVersioned, Stored
  <1> QED
    BY <1>1, <1>2 DEF TemplatesInvariant, StoreInvariant, StoreTyped

\* A new template is a draft.
LEMMA TemplateAdded ==
    ASSUME StoreInvariant, NEW t \in TplIds, NEW l \in Layouts, AddTemplate(t, l), UNCHANGED <<tplVersion, tjob, raced>>
    PROVE  TemplatesInvariant'
  <1>1. /\ tpl' = [tpl EXCEPT ![t] = [status |-> "draft", layout |-> l]] /\ tpl[t] = NoTplRow
        /\ [status |-> "draft", layout |-> l] \in TplRows
    BY DEF AddTemplate, NextId, TplRows
  <1>2. tpl' \in [TplIds -> TplRows \cup {NoTplRow, GoneTplRow}]
    BY <1>1 DEF StoreInvariant, StoreTyped
  <1>3. tpl[t] \notin TplRows
    BY <1>1, StoreAssumption
  <1>4. EditsKnown'
    <2>1. ASSUME NEW j \in TplJobs, tjob[j].op \in {"update", "publish"}
          PROVE  tjob[j].on \in TplIds /\ tpl[tjob[j].on] \in TplRows
      BY <2>1, StoreJobKinds DEF StoreInvariant, EditsKnown
    <2> QED
      BY <1>1, <1>3, <2>1 DEF StoreInvariant, EditsKnown, StoreTyped
  <1>5. PublishedIsVersioned'
    <2>1. ASSUME NEW u \in TplIds, tpl'[u] \notin {NoTplRow, GoneTplRow}, tpl'[u].status = "published"
          PROVE  u # t /\ tpl'[u] = tpl[u]
      BY <1>1, <2>1 DEF StoreInvariant, StoreTyped
    <2> QED
      BY <1>2, <2>1 DEF StoreInvariant, StoreTyped, PublishedIsVersioned, Stored
  <1> QED
    BY <1>2, <1>4, <1>5 DEF TemplatesInvariant, StoreInvariant, StoreTyped

\* A template that is archived, or a draft again, is not published.
LEMMA TemplateRetired ==
    ASSUME StoreInvariant, NEW t \in Stored(tpl), NEW st \in {"draft", "archived"},
           tpl' = [tpl EXCEPT ![t].status = st], UNCHANGED <<tplVersion, tjob, raced>>
    PROVE  TemplatesInvariant'
  <1>1. t \in TplIds /\ tpl[t] \in TplRows
    BY StoredRows DEF StoreInvariant
  <1>2. /\ tpl' \in [TplIds -> TplRows \cup {NoTplRow, GoneTplRow}]
        /\ tpl'[t] \in TplRows /\ tpl'[t].status = st /\ tpl'[t].layout = tpl[t].layout
        /\ \A u \in TplIds \ {t} : tpl'[u] = tpl[u]
    BY <1>1 DEF StoreInvariant, StoreTyped, TplRows
  <1>3. EditsKnown'
    BY <1>2 DEF StoreInvariant, EditsKnown
  <1>4. PublishedIsVersioned'
    BY <1>2 DEF StoreInvariant, StoreTyped, PublishedIsVersioned, Stored
  <1> QED
    BY <1>2, <1>3, <1>4 DEF TemplatesInvariant, StoreInvariant, StoreTyped

\* Requests that begin have read the template as it is.
LEMMA EditBegun ==
    ASSUME StoreInvariant, NEW j \in TplJobs, NEW t \in Stored(tpl), NEW x \in StoreJobs,
           tjob' = [tjob EXCEPT ![j] = x], x.on = t, x.op = "publish" => x.layout = tpl[t].layout,
           UNCHANGED <<tpl, tplVersion, reg, block, item, raced>>
    PROVE  StoreTyped' /\ TemplatesInvariant'
  <1>1. t \in TplIds /\ tpl[t] \in TplRows
    BY StoredRows DEF StoreInvariant
  <1>2. StoreTyped'
    BY DEF StoreInvariant, StoreTyped
  <1>3. EditsKnown'
    BY <1>1 DEF StoreInvariant, StoreTyped, EditsKnown
  <1>4. PublishedIsVersioned'
    BY DEF StoreInvariant, PublishedIsVersioned, Stored
  <1> QED
    BY <1>2, <1>3, <1>4 DEF TemplatesInvariant, StoreTyped

\* An update reads a template that is not published.
LEMMA UpdateBegins ==
    ASSUME StoreInvariant, NEW j \in TplJobs, NEW t \in TplIds, NEW l \in Layouts, BeginUpdate(j, t, l)
    PROVE  StoreTyped' /\ TemplatesInvariant'
  <1> DEFINE x == [op |-> "update", on |-> t, read |-> tpl[t].status, layout |-> l]
  <1>1. t \in Stored(tpl) /\ tpl[t] \in TplRows /\ tpl[t].status # "published"
    BY StoredRows DEF StoreInvariant, BeginUpdate
  <1>2. x \in StoreJobs /\ x.on = t /\ x.op = "update"
    BY <1>1 DEF StoreJobs, TplRows
  <1>3. tjob' = [tjob EXCEPT ![j] = x] /\ UNCHANGED <<tpl, tplVersion, reg, block, item, raced>>
    BY DEF BeginUpdate
  <1> HIDE DEF x
  <1> QED
    BY <1>1, <1>2, <1>3, EditBegun

\* A publication reads the layout it is to number.
LEMMA PublicationBegins ==
    ASSUME StoreInvariant, NEW j \in TplJobs, NEW t \in TplIds, BeginPublish(j, t)
    PROVE  StoreTyped' /\ TemplatesInvariant'
  <1> DEFINE x == [op |-> "publish", on |-> t, layout |-> tpl[t].layout, stale |-> FALSE]
  <1>1. t \in Stored(tpl) /\ tpl[t] \in TplRows
    BY StoredRows DEF StoreInvariant, BeginPublish
  <1>2. x \in StoreJobs /\ x.on = t /\ x.op = "publish" /\ x.layout = tpl[t].layout
    BY <1>1 DEF StoreJobs, TplRows
  <1>3. tjob' = [tjob EXCEPT ![j] = x] /\ UNCHANGED <<tpl, tplVersion, reg, block, item, raced>>
    BY DEF BeginPublish
  <1> HIDE DEF x
  <1> QED
    BY <1>1, <1>2, <1>3, EditBegun

\* An update was begun when the template was not published: when it is by now,
\* the two overlapped.
LEMMA TemplateUpdated ==
    ASSUME StoreInvariant, NEW j \in TplJobs, update_template(j)
    PROVE  StoreTyped' /\ TemplatesInvariant'
  <1> DEFINE t == tjob[j].on
  <1>1. /\ tjob[j] \in [op : {"update"}, on : TplIds, read : {"draft", "archived"}, layout : Layouts]
        /\ t \in TplIds /\ tpl[t] \in TplRows
    BY StoreJobKinds DEF StoreInvariant, EditsKnown, update_template
  <1>2. /\ tpl' \in [TplIds -> TplRows \cup {NoTplRow, GoneTplRow}]
        /\ tpl'[t] \in TplRows /\ tpl'[t].status = tpl[t].status
        /\ \A u \in TplIds \ {t} : tpl'[u] = tpl[u]
    BY <1>1 DEF StoreInvariant, StoreTyped, TplRows, update_template
  <1>3. /\ raced \subseteq raced' /\ (tpl[t].status = "published" => <<"template", t>> \in raced')
        /\ UNCHANGED <<tplVersion, reg, block, item>>
    BY <1>1 DEF update_template
  <1>4. /\ DOMAIN tjob' = TplJobs
        /\ \A o \in TplJobs :
              \/ tjob'[o] = NoTplJob
              \/ tjob'[o] = tjob[o] /\ ~(tjob[o].op = "publish" /\ tjob[o].on = t)
              \/ tjob[o].op = "publish" /\ tjob[o].on = t /\ tjob'[o] = [tjob[o] EXCEPT !.stale = TRUE]
    BY DEF update_template
  <1>5. ASSUME NEW o \in TplJobs
        PROVE  /\ tjob'[o] \in StoreJobs
               /\ tjob'[o].op \in {"update", "publish"} => tpl'[tjob'[o].on] \in TplRows
               /\ tjob'[o].op = "publish" /\ ~tjob'[o].stale => tpl'[tjob'[o].on].layout = tjob'[o].layout
    <2>1. CASE tjob'[o] = NoTplJob
      BY <2>1 DEF StoreJobs, NoTplJob
    <2>2. CASE tjob'[o] = tjob[o] /\ ~(tjob[o].op = "publish" /\ tjob[o].on = t)
      <3>1. tjob[o].op \in {"update", "publish"} => tjob[o].on \in TplIds /\ tpl[tjob[o].on] \in TplRows
        BY StoreJobKinds DEF StoreInvariant, EditsKnown
      <3>2. tjob'[o].op \in {"update", "publish"} => tpl'[tjob'[o].on] \in TplRows
        BY <1>2, <2>2, <3>1
      <3>3. tjob'[o].op = "publish" /\ ~tjob'[o].stale => tpl'[tjob'[o].on].layout = tjob'[o].layout
        BY <1>2, <2>2, <3>1 DEF StoreInvariant, EditsKnown
      <3> QED
        BY <2>2, <3>2, <3>3 DEF StoreInvariant, StoreTyped
    <2>3. CASE tjob[o].op = "publish" /\ tjob[o].on = t /\ tjob'[o] = [tjob[o] EXCEPT !.stale = TRUE]
      <3>1. tjob[o] \in [op : {"publish"}, on : TplIds, layout : Layouts, stale : BOOLEAN]
        BY <2>3, StoreJobKinds DEF StoreInvariant
      <3>2. /\ tjob'[o] \in [op : {"publish"}, on : TplIds, layout : Layouts, stale : BOOLEAN]
            /\ tjob'[o].stale /\ tjob'[o].on = t
        BY <2>3, <3>1
      <3> QED
        BY <1>2, <3>2 DEF StoreJobs
    <2> QED
      BY <1>4, <2>1, <2>2, <2>3
  <1>6. StoreTyped'
    <2>1. tjob' \in [TplJobs -> StoreJobs]
      BY <1>4, <1>5 DEF update_template
    <2> QED
      BY <1>2, <1>3, <2>1 DEF StoreInvariant, StoreTyped
  <1>7. EditsKnown'
    BY <1>5 DEF EditsKnown
  <1>8. PublishedIsVersioned'
    <2>1. ASSUME NEW u \in TplIds, tpl'[u] \notin {NoTplRow, GoneTplRow}, tpl'[u].status = "published",
                 <<"template", u>> \notin raced'
          PROVE  u # t
      BY <1>2, <1>3, <2>1
    <2> QED
      BY <1>2, <1>3, <2>1 DEF StoreInvariant, StoreTyped, PublishedIsVersioned, Stored
  <1> QED
    BY <1>2, <1>3, <1>6, <1>7, <1>8 DEF TemplatesInvariant, StoreTyped

\* What is appended is the last.
LEMMA AppendLast ==
    ASSUME NEW S, NEW s \in Seq(S), NEW x \in S
    PROVE  Append(s, x) # <<>> /\ Append(s, x)[Len(Append(s, x))] = x
  OBVIOUS

\* A publication takes the layout it has read.
LEMMA TemplatePublished ==
    ASSUME StoreInvariant, NEW j \in TplJobs, publish_template(j)
    PROVE  StoreTyped' /\ TemplatesInvariant'
  <1> DEFINE t == tjob[j].on
  <1>1. /\ tjob[j] \in [op : {"publish"}, on : TplIds, layout : Layouts, stale : BOOLEAN]
        /\ t \in TplIds /\ tpl[t] \in TplRows /\ (~tjob[j].stale => tpl[t].layout = tjob[j].layout)
    BY StoreJobKinds DEF StoreInvariant, EditsKnown, publish_template
  <1>2. /\ tpl' \in [TplIds -> TplRows \cup {NoTplRow, GoneTplRow}]
        /\ tpl'[t] \in TplRows /\ tpl'[t].layout = tpl[t].layout
        /\ \A u \in TplIds \ {t} : tpl'[u] = tpl[u]
    BY <1>1 DEF StoreInvariant, StoreTyped, TplRows, publish_template
  <1>3. /\ tplVersion' \in [TplIds -> Seq(Layouts)]
        /\ tplVersion'[t] = Append(tplVersion[t], tjob[j].layout)
        /\ \A u \in TplIds \ {t} : tplVersion'[u] = tplVersion[u]
    BY <1>1 DEF StoreInvariant, StoreTyped, publish_template
  <1>4. /\ tjob[j].stale => raced' = raced \cup {<<"template", t>>}
        /\ ~tjob[j].stale => raced' = raced \ {<<"template", t>>}
        /\ tjob' = [tjob EXCEPT ![j] = NoTplJob] /\ UNCHANGED <<reg, block, item>>
    BY <1>1 DEF publish_template
  <1>5. StoreTyped'
    BY <1>2, <1>3, <1>4 DEF StoreInvariant, StoreTyped, StoreJobs
  <1>6. EditsKnown'
    <2>1. ASSUME NEW o \in TplJobs, tjob'[o].op \in {"update", "publish"}
          PROVE  o # j /\ tjob'[o] = tjob[o] /\ tjob[o].on \in TplIds
      BY <1>4, <2>1, StoreJobKinds DEF StoreInvariant, StoreTyped, NoTplJob
    <2> QED
      BY <1>2, <2>1 DEF StoreInvariant, EditsKnown
  <1>7. PublishedIsVersioned'
    <2>1. ASSUME NEW u \in TplIds, tpl'[u] \notin {NoTplRow, GoneTplRow}, tpl'[u].status = "published",
                 <<"template", u>> \notin raced'
          PROVE  tplVersion'[u] # <<>> /\ tplVersion'[u][Len(tplVersion'[u])] = tpl'[u].layout
      <3>1. CASE u = t
        <4>1. ~tjob[j].stale /\ tpl'[t].layout = tjob[j].layout
          BY <1>1, <1>2, <1>4, <2>1, <3>1
        <4>2. tplVersion[t] \in Seq(Layouts)
          BY <1>1 DEF StoreInvariant, StoreTyped
        <4>3. tplVersion'[t] # <<>> /\ tplVersion'[t][Len(tplVersion'[t])] = tjob[j].layout
          BY <1>1, <1>3, <4>2, AppendLast
        <4> QED
          BY <3>1, <4>1, <4>3
      <3>2. CASE u # t
        <4>1. /\ tpl'[u] = tpl[u] /\ tplVersion'[u] = tplVersion[u] /\ <<"template", u>> \notin raced
              /\ u \in Stored(tpl)
          BY <1>1, <1>2, <1>3, <1>4, <2>1, <3>2 DEF Stored, StoreInvariant, StoreTyped
        <4> QED
          BY <2>1, <4>1 DEF StoreInvariant, PublishedIsVersioned
      <3> QED
        BY <3>1, <3>2
    <2> QED
      BY <1>2, <2>1 DEF PublishedIsVersioned, Stored
  <1> QED
    BY <1>2, <1>3, <1>5, <1>6, <1>7 DEF TemplatesInvariant

\* Items that nothing was done to still have their copies.
LEMMA ItemsUntouched ==
    ASSUME StoreInvariant, item' = item, \A i \in ItemIds : <<"item", i>> \in raced' <=> <<"item", i>> \in raced
    PROVE  ItemsCopied'
  BY DEF StoreInvariant, ItemsCopied

\* The routes of templates.
LEMMA TemplateRoutesKeep ==
    ASSUME StoreInvariant, NEW t \in TplIds, TemplateRoutes(t)
    PROVE  StoreInvariant'
  <1>1. ASSUME NEW l \in Layouts, create_template(t, l) PROVE StoreTyped' /\ TemplatesInvariant'
    <2>1. AddTemplate(t, l) /\ UNCHANGED <<tplVersion, reg, block, item, tjob, raced>>
      BY <1>1 DEF create_template
    <2>2. TemplatesInvariant'
      BY <2>1, TemplateAdded
    <2> QED
      BY <2>1, <2>2 DEF TemplatesInvariant, StoreInvariant, StoreTyped
  <1>2. ASSUME delete_template(t) \/ revert_to_draft(t) PROVE StoreTyped' /\ TemplatesInvariant'
    <2>1. /\ t \in Stored(tpl) /\ UNCHANGED <<tplVersion, reg, block, item, tjob, raced>>
          /\ tpl' = [tpl EXCEPT ![t].status = "archived"] \/ tpl' = [tpl EXCEPT ![t].status = "draft"]
      BY <1>2 DEF delete_template, revert_to_draft
    <2>2. TemplatesInvariant'
      BY <2>1, TemplateRetired
    <2> QED
      BY <2>1, <2>2 DEF TemplatesInvariant, StoreInvariant, StoreTyped
  <1>3. ASSUME NEW j \in TplJobs, PublishRefused(j) PROVE StoreTyped' /\ TemplatesInvariant'
    <2>1. tjob' = [tjob EXCEPT ![j] = NoTplJob] /\ UNCHANGED <<tpl, tplVersion, reg, block, item, raced>>
      BY <1>3 DEF PublishRefused
    <2>2. StoreTyped'
      BY <2>1 DEF StoreInvariant, StoreTyped, StoreJobs
    <2>3. \A o \in TplJobs : tjob'[o] = tjob[o] \/ tjob'[o].op \notin {"update", "publish"}
      BY <2>1 DEF StoreInvariant, StoreTyped, NoTplJob
    <2> QED
      BY <2>1, <2>2, <2>3, TemplatesUntouched
  <1>4. StoreTyped' /\ TemplatesInvariant'
    BY <1>1, <1>2, <1>3, UpdateBegins, PublicationBegins, TemplateUpdated, TemplatePublished DEF TemplateRoutes
  <1>5. item' = item /\ \A i \in ItemIds : <<"item", i>> \in raced' <=> <<"item", i>> \in raced
    BY DEF TemplateRoutes, create_template, delete_template, revert_to_draft, BeginPublish, BeginUpdate,
           update_template, publish_template, PublishRefused
  <1> QED
    BY <1>4, <1>5, ItemsUntouched DEF StoreInvariant, TemplatesInvariant

\* Placeholders, their bindings, tests and blocks.
LEMMA OtherRoutesKeep ==
    ASSUME StoreInvariant, PlaceholderRoutes \/ BindingRoutes \/ TestRoutes \/ BlockRoutes
    PROVE  StoreInvariant'
  <1>1. UNCHANGED <<tpl, tplVersion, item, tjob, raced>>
    BY DEF PlaceholderRoutes, BindingRoutes, TestRoutes, BlockRoutes, create_placeholder, update_placeholder,
           delete_placeholder, bind_placeholder, create_test, update_test, delete_test, run_test, create_block,
           delete_block, templateVars
  <1>2. reg' \in [RegIds -> RegRows \cup {NoTplRow, GoneTplRow}]
    <2>1. ASSUME NEW r \in RegIds, NEW n \in Names, NEW f \in Forms, create_placeholder(r, n, f)
          PROVE  reg' \in [RegIds -> RegRows \cup {NoTplRow, GoneTplRow}]
      BY <2>1 DEF create_placeholder, AddPlaceholder, RegRows, StoreInvariant, StoreTyped
    <2>2. ASSUME NEW r \in RegIds, delete_placeholder(r)
          PROVE  reg' \in [RegIds -> RegRows \cup {NoTplRow, GoneTplRow}]
      BY <2>2 DEF delete_placeholder, StoreInvariant, StoreTyped
    <2>3. ASSUME UNCHANGED reg PROVE reg' \in [RegIds -> RegRows \cup {NoTplRow, GoneTplRow}]
      BY <2>3 DEF StoreInvariant, StoreTyped
    <2>4. BindingRoutes \/ TestRoutes \/ BlockRoutes => UNCHANGED reg
      BY DEF BindingRoutes, TestRoutes, BlockRoutes, bind_placeholder, create_test, update_test, delete_test,
             run_test, create_block, delete_block
    <2> QED
      BY <2>1, <2>2, <2>3, <2>4 DEF PlaceholderRoutes, update_placeholder, templateVars
  <1>3. block' \in [BlockIds -> BlockBodies \cup {NoTplRow, GoneTplRow}]
    BY DEF PlaceholderRoutes, BindingRoutes, TestRoutes, BlockRoutes, create_placeholder, update_placeholder,
           delete_placeholder, bind_placeholder, create_test, update_test, delete_test, run_test, create_block,
           delete_block, AddBlock, templateVars, StoreInvariant, StoreTyped
  <1>4. StoreTyped'
    BY <1>1, <1>2, <1>3 DEF StoreInvariant, StoreTyped
  <1>5. TemplatesInvariant' /\ ItemsCopied'
    BY <1>1, TemplatesUntouched, ItemsUntouched
  <1> QED
    BY <1>4, <1>5 DEF StoreInvariant, TemplatesInvariant

-----------------------------------------------------------------------------

\* A copy of a source that is there is its layout, its body or its row.
LEMMA CopyTyped ==
    ASSUME StoreTyped
    PROVE  /\ \A s \in TplIds : fetch_source_payload("template", s) \in Layouts \cup {NoTplRow}
           /\ \A s \in BlockIds : fetch_source_payload("block", s) \in BlockBodies \cup {NoTplRow}
           /\ \A s \in RegIds : fetch_source_payload("placeholder", s) \in RegRows \cup {NoTplRow}
           /\ \A kind \in Kinds : \A s \in Stored(SourceRows(kind)) : fetch_source_payload(kind, s) # NoTplRow
  <1>1. SourceRows("template") = tpl /\ SourceRows("block") = block /\ SourceRows("placeholder") = reg
    BY DEF SourceRows
  <1>2. ASSUME NEW s \in Stored(tpl) PROVE fetch_source_payload("template", s) \in Layouts
    BY <1>1, StoredRows DEF fetch_source_payload, TplRows
  <1>3. ASSUME NEW s \in Stored(block) PROVE fetch_source_payload("block", s) \in BlockBodies
    BY <1>1, StoredRows DEF fetch_source_payload
  <1>4. ASSUME NEW s \in Stored(reg) PROVE fetch_source_payload("placeholder", s) \in RegRows
    BY <1>1, StoredRows DEF fetch_source_payload
  <1>5. \A kind \in Kinds : \A s : s \notin Stored(SourceRows(kind)) => fetch_source_payload(kind, s) = NoTplRow
    BY DEF fetch_source_payload
  <1> QED
    BY <1>1, <1>2, <1>3, <1>4, <1>5, StoreAssumption DEF Kinds

\* What is imported fits where it goes.
LEMMA ImportTyped ==
    ASSUME StoreTyped, NEW i \in Stored(item), ImportContent(i) # NoTplRow
    PROVE  /\ item[i].kind = "template" => ImportContent(i) \in Layouts
           /\ item[i].kind = "block" => ImportContent(i) \in BlockBodies
           /\ item[i].kind = "placeholder" => ImportContent(i) \in RegRows
  <1>1. i \in ItemIds /\ item[i] \in ItemRows
    BY StoredRows
  <1>2. /\ item[i].kind = "template" => item[i].source \in TplIds /\ item[i].payload \in Layouts \cup {NoTplRow}
        /\ item[i].kind = "block" => item[i].source \in BlockIds /\ item[i].payload \in BlockBodies \cup {NoTplRow}
        /\ item[i].kind = "placeholder" => item[i].source \in RegIds /\ item[i].payload \in RegRows \cup {NoTplRow}
    BY <1>1 DEF ItemRows, CopiesOf
  <1> QED
    BY <1>2, CopyTyped DEF ImportContent

\* The mean of whole ratings is rounded to a whole number.
LEMMA QuotientInt ==
    ASSUME NEW a \in Int, NEW n \in Nat
    PROVE  a \div (2 * (n + 1)) \in Int
  OBVIOUS

\* A rating leaves an item that is one.
LEMMA RatingTyped ==
    ASSUME NEW old \in Int, NEW n \in Nat, NEW given \in Int, NEW up \in BOOLEAN
    PROVE  NewRating(old, n, given, up) \in Int
  <1>1. ASSUME NEW votes \in Nat, NEW total \in Int
        PROVE  (IF total % (2 * (votes + 1)) = 0 /\ ~up THEN total \div (2 * (votes + 1)) - 1
                ELSE total \div (2 * (votes + 1))) \in Int
    BY QuotientInt
  <1>2. ASSUME NEW votes \in Nat PROVE 2 * (old * votes + given) + (votes + 1) \in Int
    OBVIOUS
  <1> QED
    BY <1>1, <1>2 DEF NewRating

\* Imports, ratings and deletions leave the copy of an item as it is.
LEMMA ItemKept ==
    ASSUME StoreInvariant, NEW i \in ItemIds, NEW x \in ItemRows \cup {NoTplRow, GoneTplRow},
           item' = [item EXCEPT ![i] = x], UNCHANGED raced,
           x \in ItemRows => item[i] \in ItemRows /\ x.payload = item[i].payload
    PROVE  item' \in [ItemIds -> ItemRows \cup {NoTplRow, GoneTplRow}] /\ ItemsCopied'
  <1>1. item' \in [ItemIds -> ItemRows \cup {NoTplRow, GoneTplRow}]
    BY DEF StoreInvariant, StoreTyped
  <1>2. ASSUME NEW k \in ItemIds, item'[k] \in ItemRows, <<"item", k>> \notin raced'
        PROVE  item'[k].payload # NoTplRow
    BY <1>2 DEF StoreInvariant, StoreTyped, ItemsCopied
  <1> QED
    BY <1>1, <1>2 DEF ItemsCopied

\* A rating or a download changes one column of an item.
LEMMA ItemRowEdited ==
    ASSUME NEW x \in ItemRows
    PROVE  /\ \A k \in Int : [x EXCEPT !.rating = k] \in ItemRows /\ [x EXCEPT !.rating = k].payload = x.payload
           /\ \A n \in Nat : [x EXCEPT !.downloads = n] \in ItemRows /\ [x EXCEPT !.downloads = n].payload = x.payload
  <1>1. ASSUME NEW k \in Int
        PROVE  [x EXCEPT !.rating = k] \in ItemRows /\ [x EXCEPT !.rating = k].payload = x.payload
    <2>1. ASSUME NEW kind, NEW ids, NEW payloads, x \in CopiesOf(kind, ids, payloads)
          PROVE  /\ [x EXCEPT !.rating = k] \in CopiesOf(kind, ids, payloads)
                 /\ [x EXCEPT !.rating = k].payload = x.payload
      BY <2>1 DEF CopiesOf
    <2> QED
      BY <2>1 DEF ItemRows
  <1>2. ASSUME NEW n \in Nat
        PROVE  [x EXCEPT !.downloads = n] \in ItemRows /\ [x EXCEPT !.downloads = n].payload = x.payload
    <2>1. ASSUME NEW kind, NEW ids, NEW payloads, x \in CopiesOf(kind, ids, payloads)
          PROVE  /\ [x EXCEPT !.downloads = n] \in CopiesOf(kind, ids, payloads)
                 /\ [x EXCEPT !.downloads = n].payload = x.payload
      BY <2>1 DEF CopiesOf
    <2> QED
      BY <2>1 DEF ItemRows
  <1> QED
    BY <1>1, <1>2

\* A listed item that is imported becomes a row of its own.
LEMMA ImportKeeps ==
    ASSUME StoreInvariant, NEW i \in ItemIds, NEW k \in TplIds \cup BlockIds \cup RegIds, import_marketplace_item(i, k)
    PROVE  StoreInvariant'
  <1> DEFINE c == ImportContent(i)
  <1>1. /\ i \in Stored(item) /\ item[i] \in ItemRows /\ c # NoTplRow
        /\ UNCHANGED <<tplVersion, tjob, raced>>
        /\ item' = [item EXCEPT ![i] = [item[i] EXCEPT !.downloads = item[i].downloads + 1]]
    BY StoredRows DEF StoreInvariant, import_marketplace_item
  <1>2. item[i].downloads + 1 \in Nat
    BY <1>1 DEF ItemRows, CopiesOf
  <1>3. item' \in [ItemIds -> ItemRows \cup {NoTplRow, GoneTplRow}] /\ ItemsCopied'
    <2>1. /\ [item[i] EXCEPT !.downloads = item[i].downloads + 1] \in ItemRows
          /\ [item[i] EXCEPT !.downloads = item[i].downloads + 1].payload = item[i].payload
      BY <1>1, <1>2, ItemRowEdited
    <2> QED
      BY <1>1, <2>1, ItemKept
  <1>4. /\ item[i].kind = "template" => c \in Layouts
        /\ item[i].kind = "block" => c \in BlockBodies
        /\ item[i].kind = "placeholder" => c \in RegRows
    BY <1>1, ImportTyped DEF StoreInvariant
  <1> HIDE DEF c
  <1>5. CASE k \in TplIds /\ AddTemplate(k, c) /\ UNCHANGED <<block, reg>> /\ item[i].kind = "template"
    <2>1. TemplatesInvariant'
      BY <1>1, <1>4, <1>5, TemplateAdded
    <2> QED
      BY <1>1, <1>3, <1>5, <2>1 DEF StoreInvariant, StoreTyped, TemplatesInvariant
  <1>6. CASE k \in BlockIds /\ AddBlock(k, c) /\ UNCHANGED <<tpl, reg>> /\ item[i].kind = "block"
    <2>1. block' \in [BlockIds -> BlockBodies \cup {NoTplRow, GoneTplRow}]
      BY <1>4, <1>6 DEF AddBlock, StoreInvariant, StoreTyped
    <2>2. TemplatesInvariant'
      BY <1>1, <1>6, TemplatesUntouched
    <2> QED
      BY <1>1, <1>3, <1>6, <2>1, <2>2 DEF StoreInvariant, StoreTyped, TemplatesInvariant
  <1>7. CASE /\ k \in RegIds /\ UNCHANGED <<tpl, block>> /\ item[i].kind = "placeholder"
             /\ UNCHANGED reg \/ AddPlaceholder(k, c.name, c.form)
    <2>1. reg' \in [RegIds -> RegRows \cup {NoTplRow, GoneTplRow}]
      BY <1>4, <1>7 DEF AddPlaceholder, RegRows, StoreInvariant, StoreTyped
    <2>2. TemplatesInvariant'
      BY <1>1, <1>7, TemplatesUntouched
    <2> QED
      BY <1>1, <1>3, <1>7, <2>1, <2>2 DEF StoreInvariant, StoreTyped, TemplatesInvariant
  <1> QED
    BY <1>5, <1>6, <1>7 DEF import_marketplace_item, c

\* A listing that finds its source copies something.
LEMMA ListingKeeps ==
    ASSUME StoreInvariant, NEW j \in TplJobs, NEW i \in ItemIds, publish_item(j, i)
    PROVE  item' \in [ItemIds -> ItemRows \cup {NoTplRow, GoneTplRow}] /\ ItemsCopied'
  <1> DEFINE kind == tjob[j].kind
             s    == tjob[j].on
             x    == ListedItem(kind, s)
  <1>1. /\ kind \in Kinds
        /\ kind = "template" => s \in TplIds
        /\ kind = "block" => s \in BlockIds
        /\ kind = "placeholder" => s \in RegIds
    BY StoreJobKinds DEF StoreInvariant, publish_item, Kinds
  <1>2. /\ item' = [item EXCEPT ![i] = x]
        /\ raced' = IF s \in Stored(SourceRows(kind)) THEN raced ELSE raced \cup {<<"item", i>>}
    BY DEF publish_item
  <1>3. x \in ItemRows /\ x.payload = fetch_source_payload(kind, s)
    BY <1>1, CopyTyped DEF ListedItem, ItemRows, CopiesOf, Kinds, StoreInvariant
  <1>4. <<"item", i>> \notin raced' => x.payload # NoTplRow
    BY <1>1, <1>2, <1>3, CopyTyped DEF StoreInvariant
  <1>5. \A o \in ItemIds \ {i} : <<"item", o>> \in raced' <=> <<"item", o>> \in raced
    BY <1>2
  <1> HIDE DEF x, kind, s
  <1>6. item' \in [ItemIds -> ItemRows \cup {NoTplRow, GoneTplRow}]
    BY <1>2, <1>3 DEF StoreInvariant, StoreTyped
  <1>7. ASSUME NEW o \in ItemIds, item'[o] \in ItemRows, <<"item", o>> \notin raced'
        PROVE  item'[o].payload # NoTplRow
    <2>1. CASE o = i
      BY <1>2, <1>4, <1>7, <2>1 DEF StoreInvariant, StoreTyped
    <2>2. CASE o # i
      BY <1>2, <1>5, <1>7, <2>2 DEF StoreInvariant, StoreTyped, ItemsCopied
    <2> QED
      BY <2>1, <2>2
  <1> QED
    BY <1>6, <1>7 DEF ItemsCopied

\* Listing, rating, importing and deleting keep the copies.
LEMMA MarketRoutesKeep ==
    ASSUME StoreInvariant, NEW kind \in Kinds, MarketRoutes(kind)
    PROVE  StoreInvariant'
  <1>1. ASSUME NEW i \in ItemIds, delete_marketplace_item(i) PROVE StoreInvariant'
    <2>1. item' = [item EXCEPT ![i] = GoneTplRow] /\ UNCHANGED <<tpl, tplVersion, reg, block, tjob, raced>>
      BY <1>1 DEF delete_marketplace_item
    <2>2. item' \in [ItemIds -> ItemRows \cup {NoTplRow, GoneTplRow}] /\ ItemsCopied'
      BY <2>1, StoreAssumption, ItemKept
    <2>3. TemplatesInvariant'
      BY <2>1, TemplatesUntouched
    <2> QED
      BY <2>1, <2>2, <2>3 DEF StoreInvariant, StoreTyped, TemplatesInvariant
  <1>2. ASSUME NEW j \in TplJobs, NEW x \in StoreJobs, x.op \notin {"update", "publish"},
               tjob' = [tjob EXCEPT ![j] = x], UNCHANGED <<tpl, tplVersion, reg, block>>,
               item' \in [ItemIds -> ItemRows \cup {NoTplRow, GoneTplRow}], ItemsCopied',
               \A t \in TplIds : <<"template", t>> \in raced' <=> <<"template", t>> \in raced
        PROVE  StoreInvariant'
    <2>1. tjob' \in [TplJobs -> StoreJobs]
      BY <1>2 DEF StoreInvariant, StoreTyped
    <2>2. \A o \in TplJobs : tjob'[o] = tjob[o] \/ tjob'[o].op \notin {"update", "publish"}
      BY <1>2 DEF StoreInvariant, StoreTyped
    <2>3. TemplatesInvariant'
      BY <1>2, <2>2, TemplatesUntouched
    <2> QED
      BY <1>2, <2>1, <2>3 DEF StoreInvariant, StoreTyped, TemplatesInvariant
  <1>3. NoTplJob \in StoreJobs /\ NoTplJob.op \notin {"update", "publish"}
    BY DEF NoTplJob, StoreJobs
  <1>4. ASSUME NEW j \in TplJobs, NEW s \in DOMAIN SourceRows(kind), BeginPublishItem(j, kind, s) PROVE StoreInvariant'
    <2> DEFINE x == [op |-> "list", kind |-> kind, on |-> s]
    <2>1. x \in StoreJobs /\ x.op = "list"
      BY DEF StoreJobs, Kinds, SourceRows, StoreInvariant, StoreTyped
    <2>2. tjob' = [tjob EXCEPT ![j] = x] /\ UNCHANGED <<tpl, tplVersion, reg, block, item, raced>>
      BY <1>4 DEF BeginPublishItem
    <2> HIDE DEF x
    <2>3. item' \in [ItemIds -> ItemRows \cup {NoTplRow, GoneTplRow}] /\ ItemsCopied'
      BY <2>2 DEF StoreInvariant, StoreTyped, ItemsCopied
    <2> QED
      BY <1>2, <2>1, <2>2, <2>3
  <1>5. ASSUME NEW j \in TplJobs, NEW i \in ItemIds, publish_item(j, i) PROVE StoreInvariant'
    <2>1. /\ tjob' = [tjob EXCEPT ![j] = NoTplJob] /\ UNCHANGED <<tpl, tplVersion, reg, block>>
          /\ \A t \in TplIds : <<"template", t>> \in raced' <=> <<"template", t>> \in raced
      BY <1>5 DEF publish_item
    <2> QED
      BY <1>2, <1>3, <1>5, <2>1, ListingKeeps
  <1>6. ASSUME NEW j \in TplJobs, NEW i \in ItemIds, NEW g \in Ratings, NEW up \in BOOLEAN, BeginRate(j, i, g, up)
        PROVE  StoreInvariant'
    <2> DEFINE n == NewRating(item[i].rating, item[i].downloads, g, up)
               x == [op |-> "rate", on |-> i, rating |-> n]
    <2>1. item[i] \in ItemRows
      BY <1>6, StoredRows DEF StoreInvariant, BeginRate
    <2>2. item[i].rating \in Int /\ item[i].downloads \in Nat /\ g \in Int
      BY <2>1, StoreAssumption DEF ItemRows, CopiesOf
    <2>3. n \in Int
      BY <2>2, RatingTyped
    <2>4. x \in StoreJobs /\ x.op = "rate"
      BY <2>3 DEF StoreJobs
    <2>5. tjob' = [tjob EXCEPT ![j] = x] /\ UNCHANGED <<tpl, tplVersion, reg, block, item, raced>>
      BY <1>6 DEF BeginRate
    <2> HIDE DEF x
    <2>6. item' \in [ItemIds -> ItemRows \cup {NoTplRow, GoneTplRow}] /\ ItemsCopied'
      BY <2>5 DEF StoreInvariant, StoreTyped, ItemsCopied
    <2> QED
      BY <1>2, <2>4, <2>5, <2>6
  <1>7. ASSUME NEW j \in TplJobs, rate_marketplace_item(j) PROVE StoreInvariant'
    <2> DEFINE i == tjob[j].on
    <2>1. /\ tjob' = [tjob EXCEPT ![j] = NoTplJob] /\ UNCHANGED <<tpl, tplVersion, reg, block, raced>>
          /\ i \in ItemIds /\ tjob[j].rating \in Int
      BY <1>7, StoreJobKinds DEF StoreInvariant, rate_marketplace_item
    <2>2. item' \in [ItemIds -> ItemRows \cup {NoTplRow, GoneTplRow}] /\ ItemsCopied'
      <3>1. CASE i \in Stored(item)
        <4>1. item[i] \in ItemRows /\ item' = [item EXCEPT ![i] = [item[i] EXCEPT !.rating = tjob[j].rating]]
          BY <1>7, <3>1, StoredRows DEF StoreInvariant, rate_marketplace_item
        <4>2. /\ [item[i] EXCEPT !.rating = tjob[j].rating] \in ItemRows
              /\ [item[i] EXCEPT !.rating = tjob[j].rating].payload = item[i].payload
          BY <2>1, <4>1, ItemRowEdited
        <4> QED
          BY <2>1, <4>1, <4>2, ItemKept
      <3>2. CASE i \notin Stored(item)
        <4>1. item' = item
          BY <1>7, <3>2 DEF rate_marketplace_item
        <4> QED
          BY <2>1, <4>1 DEF StoreInvariant, StoreTyped, ItemsCopied
      <3> QED
        BY <3>1, <3>2
    <2> QED
      BY <1>2, <1>3, <2>1, <2>2
  <1> QED
    BY <1>1, <1>4, <1>5, <1>6, <1>7, ImportKeeps DEF MarketRoutes

\* Steps of the other services leave the store as it fits.
LEMMA StoreUntouched ==
    ASSUME StoreInvariant, UNCHANGED templateVars
    PROVE  StoreInvariant'
  <1>1. StoreTyped'
    BY DEF StoreInvariant, StoreTyped, templateVars
  <1> QED
    BY <1>1, TemplatesUntouched, ItemsUntouched DEF StoreInvariant, TemplatesInvariant, templateVars

\* So do all its own.
LEMMA StoreKept ==
    ASSUME StoreInvariant, StoreStep
    PROVE  StoreInvariant'
  <1>1. ASSUME NEW t \in TplIds, NEW l \in Layouts, create_template(t, l) PROVE TemplateRoutes(t)
    BY <1>1 DEF TemplateRoutes
  <1> QED
    BY <1>1, TemplateRoutesKeep, OtherRoutesKeep, MarketRoutesKeep DEF StoreStep

\* Templates, their versions, placeholders and the marketplace are what the store
\* takes them for, whatever its routes do one after the other or across each other.
THEOREM StoreInvariantHolds == Spec => []StoreInvariant
  <1>1. Init => StoreInvariant
    BY StoreAssumption DEF Init, TemplateInit, StoreInvariant, StoreTyped, StoreJobs, NoTplJob, EditsKnown,
       PublishedIsVersioned, ItemsCopied, Stored
  <1>2. StoreInvariant /\ [Next]_documentVars => StoreInvariant'
    <2>1. ASSUME StoreInvariant, Next PROVE StoreInvariant'
      BY <2>1, StoreSteps, StoreKept, StoreUntouched
    <2>2. ASSUME StoreInvariant, UNCHANGED documentVars PROVE StoreInvariant'
      BY <2>2, StoreUntouched DEF documentVars
    <2> QED
      BY <2>1, <2>2
  <1> QED
    BY <1>1, <1>2, PTL DEF Spec

\* A published template is its latest version, and what the marketplace lists can
\* be imported, but for what requests that overlapped did to them.
THEOREM CopiesAreKeptHolds == Spec => []CopiesAreKept
  <1>1. ASSUME StoreInvariant PROVE CopiesAreKept
    <2>1. ListedCanBeImported
      BY <1>1, StoredRows DEF StoreInvariant, ListedCanBeImported, ItemsCopied, ImportContent
    <2> QED
      BY <1>1, <2>1 DEF StoreInvariant, CopiesAreKept
  <1> QED
    BY <1>1, StoreInvariantHolds, PTL

-----------------------------------------------------------------------------
(* The inputs of a template.                                                 *)

\* A layout asks for names.
LEMMA LayoutNames ==
    ASSUME StoreTyped, NEW t \in Stored(tpl)
    PROVE  tpl[t].layout.text \subseteq Names /\ tpl[t].layout.images \subseteq Names
  BY StoredRows, StoreAssumption DEF TplRows

\* A token the registry knows is filled from one of the placeholders of its name,
\* whatever the parameters; another is filled by a parameter or not at all.
LEMMA ContextOf ==
    ASSUME NEW n \in Names, NEW params, NEW up
    PROVE  /\ ActiveNamed(n) # {} =>
                \E r \in ActiveNamed(n) : _build_context(params, up)[n] = PlaceholderOrigin(r, params, up)
           /\ ActiveNamed(n) = {} /\ n \notin params => _build_context(params, up)[n] = "nowhere"
           /\ _build_sample_context(params)[n] = "nowhere" <=> ActiveNamed(n) = {}
  <1> DEFINE R == {r \in Active : reg[r].name = n}
  <1>1. R = ActiveNamed(n)
    BY DEF ActiveNamed, Active
  <1>2. _build_context(params, up)[n] = IF R # {} THEN PlaceholderOrigin(CHOOSE r \in R : TRUE, params, up)
                                        ELSE IF n \in params THEN "param" ELSE "nowhere"
    BY DEF _build_context
  <1>3. _build_sample_context(params)[n] =
            IF ActiveNamed(n) = {} THEN "nowhere" ELSE IF n \in params THEN "param" ELSE "sample"
    BY DEF _build_sample_context
  <1>4. R # {} => (CHOOSE r \in R : TRUE) \in R
    OBVIOUS
  <1> HIDE DEF R
  <1>5. ActiveNamed(n) # {} =>
            \E r \in ActiveNamed(n) : _build_context(params, up)[n] = PlaceholderOrigin(r, params, up)
    BY <1>1, <1>2, <1>4
  <1>6. ActiveNamed(n) = {} /\ n \notin params => _build_context(params, up)[n] = "nowhere"
    BY <1>1, <1>2
  <1>7. _build_sample_context(params)[n] = "nowhere" <=> ActiveNamed(n) = {}
    BY <1>3
  <1> QED
    BY <1>5, <1>6, <1>7

\* Where the value of a placeholder is to come from.
LEMMA OriginKnown ==
    ASSUME NEW r, NEW params, NEW up
    PROVE  PlaceholderOrigin(r, params, up) \in {"webhook", "sql", "sample"}
  BY DEF PlaceholderOrigin

\* A placeholder given all it asks for, with every source answering, has a value of
\* its own unless it has no query.
LEMMA AskedIsEnough ==
    ASSUME StoreTyped, NEW r \in Active, NEW params, InputsOf(r) \subseteq params
    PROVE  \/ PlaceholderOrigin(r, params, {"webhook", "sql"}) \in {"webhook", "sql"}
           \/ reg[r].form.mode = "manual_sql" /\ ~reg[r].form.sql
  <1>1. reg[r].form.mode \in {"llm_prompt", "manual_sql"}
    BY StoredRows, StoreAssumption DEF Active, RegRows
  <1>2. CASE reg[r].form.mode = "llm_prompt"
    BY <1>2 DEF InputsOf, PlaceholderOrigin, _resolve_prompt_via_webhook
  <1>3. CASE reg[r].form.mode = "manual_sql" /\ reg[r].form.sql
    <2>1. inject_params(r, params) = {}
      BY <1>3 DEF InputsOf, inject_params
    <2> QED
      BY <1>3, <2>1 DEF PlaceholderOrigin, resolve_batch
  <1> QED
    BY <1>1, <1>2, <1>3

\* What a template is said to need is enough for every token of its text that the
\* registry knows, and the placeholders it is said to use are those that are filled.
THEOREM InputsSufficientHolds == Spec => []InputsSufficient
  <1>1. ASSUME StoreTyped PROVE InputsSufficient
    <2> SUFFICES ASSUME NEW t \in Stored(tpl)
                 PROVE  LET asked   == get_template_inputs(t)
                            context == _build_context(asked.inputs, {"webhook", "sql"})
                            tokens  == tpl[t].layout.text \cup tpl[t].layout.images
                            Filled(c) == {n \in tokens : c[n] # "nowhere"}
                        IN  /\ \A n \in tpl[t].layout.text \ asked.unresolved :
                                  \/ context[n] \in {"webhook", "sql"}
                                  \/ \E r \in ActiveNamed(n) : reg[r].form.mode = "manual_sql" /\ ~reg[r].form.sql
                            /\ list_template_placeholders(t) = Filled(_build_sample_context({}))
                            /\ list_template_placeholders(t) = Filled(_build_context({}, {}))
      BY DEF InputsSufficient
    <2> DEFINE asked   == get_template_inputs(t)
               context == _build_context(asked.inputs, {"webhook", "sql"})
               text    == tpl[t].layout.text
               tokens  == text \cup tpl[t].layout.images
    <2>1. tokens \subseteq Names
      BY <1>1, LayoutNames
    <2>2. ASSUME NEW n \in text, n \notin asked.unresolved
          PROVE  \/ context[n] \in {"webhook", "sql"}
                 \/ \E r \in ActiveNamed(n) : reg[r].form.mode = "manual_sql" /\ ~reg[r].form.sql
      <3>1. ActiveNamed(n) # {} /\ n \in Names
        BY <2>1, <2>2 DEF get_template_inputs
      <3>2. PICK r \in ActiveNamed(n) : context[n] = PlaceholderOrigin(r, asked.inputs, {"webhook", "sql"})
        BY <3>1, ContextOf
      <3>3. r \in Active /\ reg[r].name \in text
        BY <3>2, <2>2 DEF ActiveNamed, Active
      <3>4. InputsOf(r) \subseteq asked.inputs
        BY <3>3 DEF get_template_inputs
      <3> HIDE DEF asked, context
      <3> QED
        BY <1>1, <3>2, <3>3, <3>4, AskedIsEnough
    <2>3. ASSUME NEW n \in tokens
          PROVE  /\ n \in list_template_placeholders(t) <=> _build_sample_context({})[n] # "nowhere"
                 /\ n \in list_template_placeholders(t) <=> _build_context({}, {})[n] # "nowhere"
      <3>1. n \in list_template_placeholders(t) <=> ActiveNamed(n) # {}
        BY DEF list_template_placeholders
      <3>2. n \in Names
        BY <2>1
      <3>3. _build_sample_context({})[n] = "nowhere" <=> ActiveNamed(n) = {}
        BY <3>2, ContextOf
      <3>4. ActiveNamed(n) = {} => _build_context({}, {})[n] = "nowhere"
        BY <3>2, ContextOf
      <3>5. ActiveNamed(n) # {} => \E r \in ActiveNamed(n) : _build_context({}, {})[n] = PlaceholderOrigin(r, {}, {})
        BY <3>2, ContextOf
      <3>6. \A r : PlaceholderOrigin(r, {}, {}) # "nowhere"
        BY OriginKnown
      <3> QED
        BY <3>1, <3>3, <3>4, <3>5, <3>6
    <2>4. list_template_placeholders(t) \subseteq tokens
      BY DEF list_template_placeholders
    <2> QED
      BY <2>2, <2>3, <2>4
  <1> QED
    BY <1>1, StoreInvariantHolds, PTL DEF StoreInvariant

-----------------------------------------------------------------------------
(* Template Builder: jobs and their files.                                   *)

\* What a request that renders, and a worker, hold while they do.
RequestRows ==
    {Idle} \cup [pc : {"render"}, on : TplIds, layout : Layouts, params : SUBSET Names] \cup [pc : {"finish"}]

TaskRows ==
    {Idle} \cup [pc : {"render"}, job : DocJobs, on : TplIds, layout : Layouts, params : SUBSET Names]
        \cup [pc : {"finish"}, job : DocJobs, at : FileNames]

\* The types of jobs, files and whoever makes them.
RenderTyped ==
    /\ rjob \in [DocJobs -> JobRows \cup {NoJob}]
    /\ file \in [FileNames -> DocRows \cup {NoDoc}]
    /\ made \in [Makers -> RequestRows \cup TaskRows]
    /\ \A d \in DocJobs : made[d] \in RequestRows
    /\ \A w \in Workers : made[w] \in TaskRows
    /\ marred \subseteq DocJobs

\* The file f holds a document of template t.
Holds(f, t) == file[f] \in DocRows /\ file[f].on = t

\* Where the documents of a job are.
JobsFiled ==
    \A d \in DocJobs : rjob[d] \in JobRows =>
        /\ tpl[rjob[d].on] \in TplRows
        /\ rjob[d].status \in {"queued", "running", "error"} => rjob[d].at = NoDoc
        /\ rjob[d].status = "success" => rjob[d].at \in FileNames
        /\ rjob[d].at \in FileNames =>
              rjob[d].at = JobFile(d) \/ \E l \in DocLocales : rjob[d].at = WorkerFile(rjob[d].on, l)

\* A request has its job to itself, which a deletion can only take away.
RequestsOwn ==
    \A d \in DocJobs : made[d].pc # "none" =>
        /\ rjob[d] \in JobRows /\ rjob[d].status \in {"running", "deleted"} /\ rjob[d].at = NoDoc
        /\ made[d].pc = "render" => made[d].on = rjob[d].on
        /\ made[d].pc = "finish" => Holds(JobFile(d), rjob[d].on)

\* A worker has locked its job; the file it wrote is there unless it shares it
\* with a job that was deleted meanwhile.
TasksLocked ==
    \A w \in Workers : made[w].pc # "none" =>
        /\ rjob[made[w].job] \in JobRows /\ rjob[made[w].job].status = "queued"
        /\ made[w].pc = "render" => made[w].on = rjob[made[w].job].on
        /\ made[w].pc = "finish" => \E l \in DocLocales : made[w].at = WorkerFile(rjob[made[w].job].on, l)
        /\ made[w].pc = "finish" /\ made[w].job \notin marred => Holds(made[w].at, rjob[made[w].job].on)
        /\ \A v \in Workers : made[v].pc # "none" /\ made[v].job = made[w].job => v = w

\* A job that succeeded and was not half deleted has a file of its template.
DocumentsThere ==
    \A d \in DocJobs : rjob[d] \in JobRows /\ rjob[d].status = "success" /\ d \notin marred => Holds(rjob[d].at, rjob[d].on)

RenderInvariant == RenderTyped /\ JobsFiled /\ RequestsOwn /\ TasksLocked /\ DocumentsThere

\* Every step is one of rendering, or leaves jobs and files as they are.
LEMMA RenderSteps ==
    ASSUME Next
    PROVE  RenderNext \/ UNCHANGED renderVars
  BY DEF Next, TemplateBuilder, PromptBuilder, DocAI

\* A template is never gone.
LEMMA TemplatesStay ==
    ASSUME StoreInvariant, Next, NEW t \in TplIds, tpl[t] \in TplRows
    PROVE  tpl'[t] \in TplRows
  <1>1. ASSUME NEW k \in TplIds, NEW l, AddTemplate(k, l) PROVE tpl'[t] \in TplRows
    <2>1. t # k /\ tpl' = [tpl EXCEPT ![k] = [status |-> "draft", layout |-> l]]
      BY <1>1, StoreAssumption DEF AddTemplate, NextId
    <2> QED
      BY <2>1 DEF StoreInvariant, StoreTyped
  <1>2. ASSUME NEW k \in TplIds, NEW st \in {"draft", "published", "archived"}, tpl' = [tpl EXCEPT ![k].status = st]
        PROVE  tpl'[t] \in TplRows
    <2>1. tpl'[t] = IF k = t THEN [tpl[t] EXCEPT !.status = st] ELSE tpl[t]
      BY <1>2 DEF StoreInvariant, StoreTyped
    <2> QED
      BY <2>1 DEF TplRows
  <1>3. ASSUME NEW j \in TplJobs, update_template(j) \/ publish_template(j) PROVE tpl'[t] \in TplRows
    <2>1. CASE publish_template(j)
      <3>1. tjob[j].on \in TplIds /\ tpl' = [tpl EXCEPT ![tjob[j].on].status = "published"]
        BY <2>1, StoreJobKinds DEF StoreInvariant, publish_template
      <3> QED
        BY <1>2, <3>1
    <2>2. CASE update_template(j)
      <3>1. /\ tjob[j].on \in TplIds /\ tjob[j].layout \in Layouts
            /\ tpl' = [tpl EXCEPT ![tjob[j].on].layout = tjob[j].layout]
        BY <2>2, StoreJobKinds DEF StoreInvariant, update_template
      <3>2. tpl'[t] = IF tjob[j].on = t THEN [tpl[t] EXCEPT !.layout = tjob[j].layout] ELSE tpl[t]
        BY <3>1 DEF StoreInvariant, StoreTyped
      <3> QED
        BY <3>1, <3>2 DEF TplRows
    <2> QED
      BY <1>3, <2>1, <2>2
  <1>4. ASSUME tpl' = tpl PROVE tpl'[t] \in TplRows
    BY <1>4
  <1>5. ASSUME NEW k \in TplIds, TemplateRoutes(k) PROVE tpl'[t] \in TplRows
    <2>1. ASSUME NEW l \in Layouts, create_template(k, l) PROVE tpl'[t] \in TplRows
      BY <1>1, <2>1 DEF create_template
    <2>2. ASSUME delete_template(k) \/ revert_to_draft(k) PROVE tpl'[t] \in TplRows
      <3>1. tpl' = [tpl EXCEPT ![k].status = "archived"] \/ tpl' = [tpl EXCEPT ![k].status = "draft"]
        BY <2>2 DEF delete_template, revert_to_draft
      <3> QED
        BY <1>2, <3>1
    <2>3. ASSUME NEW j \in TplJobs, BeginPublish(j, k) \/ PublishRefused(j) \/ \E l \in Layouts : BeginUpdate(j, k, l)
          PROVE  tpl' = tpl
      BY <2>3 DEF BeginPublish, PublishRefused, BeginUpdate
    <2> QED
      BY <1>3, <1>4, <1>5, <2>1, <2>2, <2>3 DEF TemplateRoutes
  <1>6. ASSUME PlaceholderRoutes \/ BindingRoutes \/ TestRoutes \/ BlockRoutes PROVE tpl' = tpl
    BY <1>6 DEF PlaceholderRoutes, BindingRoutes, TestRoutes, BlockRoutes, create_placeholder, update_placeholder,
           delete_placeholder, bind_placeholder, create_test, update_test, delete_test, run_test, create_block,
           delete_block, templateVars
  <1>7. ASSUME NEW kind \in Kinds, MarketRoutes(kind) PROVE tpl'[t] \in TplRows
    <2>1. ASSUME NEW i \in ItemIds, NEW k \in TplIds \cup BlockIds \cup RegIds, import_marketplace_item(i, k)
          PROVE  tpl' = tpl \/ (k \in TplIds /\ AddTemplate(k, ImportContent(i)))
      BY <2>1 DEF import_marketplace_item
    <2>2. \/ tpl' = tpl
          \/ \E i \in ItemIds : \E k \in TplIds \cup BlockIds \cup RegIds : import_marketplace_item(i, k)
      BY <1>7 DEF MarketRoutes, delete_marketplace_item, BeginPublishItem, rate_marketplace_item, publish_item, BeginRate
    <2> QED
      BY <1>1, <1>4, <2>1, <2>2
  <1>8. ASSUME NEW k \in TplIds, NEW l \in Layouts, create_template(k, l) PROVE tpl'[t] \in TplRows
    BY <1>1, <1>8 DEF create_template
  <1>9. UNCHANGED templateVars => tpl' = tpl
    BY DEF templateVars
  <1> QED
    BY <1>4, <1>5, <1>6, <1>7, <1>8, <1>9, StoreSteps DEF StoreStep

\* No two things have one file but the documents of a template in a locale.
LEMMA FilesApart ==
    /\ \A d \in DocJobs : JobFile(d) \in FileNames
    /\ \A t \in TplIds, l \in DocLocales : WorkerFile(t, l) \in FileNames
    /\ \A d, o : JobFile(d) = JobFile(o) => d = o
    /\ \A d, t : \A l \in DocLocales : JobFile(d) # WorkerFile(t, l)
    /\ \A t, u, l, k : WorkerFile(t, l) = WorkerFile(u, k) => t = u /\ l = k
    /\ NoDoc \notin FileNames
  BY RenderAssumption DEF JobFile, WorkerFile, FileNames

\* What is rendered is a document of the template.
LEMMA DocumentTyped ==
    ASSUME NEW t \in TplIds, NEW l \in Layouts, NEW c, \A n \in Names : c[n] \in Origins
    PROVE  Document(t, l, c) \in DocRows /\ Document(t, l, c).on = t
  <1> DEFINE S == l.text \cup l.images
             v == [n \in S |-> c[n]]
  <1>1. S \in SUBSET Names
    BY StoreAssumption
  <1>2. v \in [S -> Origins]
    BY <1>1
  <1>3. v \in UNION {[T -> Origins] : T \in SUBSET Names}
    BY <1>1, <1>2
  <1>4. Document(t, l, c) = [on |-> t, values |-> v]
    BY DEF Document
  <1> HIDE DEF v
  <1> QED
    BY <1>3, <1>4 DEF DocRows

\* What is rendered with are names.
LEMMA ContextsTyped ==
    /\ \A params, up : \A n \in Names : _build_context(params, up)[n] \in Origins
    /\ \A t, params : \A n \in Names : resolve_placeholders(t, params)[n] \in Origins
  <1>1. ASSUME NEW params, NEW up, NEW n \in Names PROVE _build_context(params, up)[n] \in Origins
    <2> DEFINE R == {r \in Active : reg[r].name = n}
    <2>1. _build_context(params, up)[n] = IF R # {} THEN PlaceholderOrigin(CHOOSE r \in R : TRUE, params, up)
                                          ELSE IF n \in params THEN "param" ELSE "nowhere"
      BY DEF _build_context
    <2>2. PlaceholderOrigin(CHOOSE r \in R : TRUE, params, up) \in {"webhook", "sql", "sample"}
      BY OriginKnown
    <2> QED
      BY <2>1, <2>2 DEF Origins
  <1>2. ASSUME NEW t, NEW params, NEW n \in Names PROVE resolve_placeholders(t, params)[n] \in Origins
    BY DEF resolve_placeholders, Origins
  <1> QED
    BY <1>1, <1>2

\* Files of a job and of a worker are files.
LEMMA RenderKinds ==
    ASSUME RenderTyped
    PROVE  /\ \A d \in DocJobs : /\ d \in Makers /\ d \notin Workers
                                 /\ made[d].pc \in {"none", "render", "finish"}
                                 /\ made[d].pc = "render" => made[d].on \in TplIds /\ made[d].layout \in Layouts
           /\ \A w \in Workers : /\ w \in Makers /\ w \notin DocJobs
                                 /\ made[w].pc \in {"none", "render", "finish"}
                                 /\ made[w].pc # "none" => made[w].job \in DocJobs
                                 /\ made[w].pc = "render" => made[w].on \in TplIds /\ made[w].layout \in Layouts
                                 /\ made[w].pc = "finish" => made[w].at \in FileNames
           /\ Idle \in RequestRows /\ Idle \in TaskRows /\ Idle.pc = "none"
  BY RenderAssumption DEF RenderTyped, RequestRows, TaskRows, Idle, Makers

\* A row that is not the absence of one is a job.
LEMMA JobsAre ==
    ASSUME RenderTyped, NEW st
    PROVE  Jobs(st) = {d \in DocJobs : rjob[d] \in JobRows /\ rjob[d].status \in st}
  BY RenderAssumption DEF RenderTyped, Jobs

\* A new row, queued or with a request of its own.
LEMMA JobBegun ==
    ASSUME RenderInvariant, NEW d \in DocJobs, NEW t \in TplIds, NEW st \in {"queued", "running"}, NEW x \in RequestRows,
           Fresh(d), tpl[t] \in TplRows,
           rjob' = [rjob EXCEPT ![d] = [status |-> st, on |-> t, at |-> NoDoc]],
           made' = [made EXCEPT ![d] = x],
           x.pc = "none" \/ (x.pc = "render" /\ x.on = t /\ st = "running"),
           UNCHANGED <<tpl, file, marred>>
    PROVE  RenderInvariant'
  <1> DEFINE row == [status |-> st, on |-> t, at |-> NoDoc]
  <1>1. row \in JobRows /\ row.status = st /\ row.on = t /\ row.at = NoDoc
    BY DEF JobRows
  <1>2. rjob[d] = NoJob /\ rjob[d] \notin JobRows
    BY RenderAssumption DEF Fresh
  <1>3. /\ rjob'[d] = row /\ \A o \in DocJobs \ {d} : rjob'[o] = rjob[o]
        /\ rjob' \in [DocJobs -> JobRows \cup {NoJob}]
    BY <1>1 DEF RenderInvariant, RenderTyped
  <1> HIDE DEF row
  <1>4. /\ made' \in [Makers -> RequestRows \cup TaskRows]
        /\ made'[d] = x /\ \A m \in Makers \ {d} : made'[m] = made[m]
    BY RenderKinds DEF RenderInvariant, RenderTyped
  <1>5. \A w \in Workers : made'[w] = made[w] /\ (made[w].pc # "none" => made[w].job # d)
    BY <1>2, <1>4, RenderKinds DEF RenderInvariant, TasksLocked
  <1>6. RenderTyped'
    BY <1>3, <1>4, <1>5, RenderKinds DEF RenderInvariant, RenderTyped
  <1>7. JobsFiled'
    BY <1>1, <1>3, FilesApart DEF RenderInvariant, JobsFiled
  <1>8. RequestsOwn'
    BY <1>1, <1>3, <1>4, RenderKinds DEF RenderInvariant, RequestsOwn, Holds
  <1>9. TasksLocked'
    BY <1>1, <1>3, <1>5, RenderKinds DEF RenderInvariant, TasksLocked, Holds
  <1>10. DocumentsThere'
    BY <1>1, <1>3 DEF RenderInvariant, DocumentsThere, Holds
  <1> QED
    BY <1>6, <1>7, <1>8, <1>9, <1>10 DEF RenderInvariant

\* A job that is made, rendered at once or queued, is nobody else's.
LEMMA BeginningsKeep ==
    ASSUME StoreInvariant, RenderInvariant, NEW d \in DocJobs, NEW t \in TplIds,
           QueueJob(d, t) \/ \E params \in SUBSET Names : BeginGenerate(d, t, params)
    PROVE  RenderInvariant'
  <1>1. t \in Stored(tpl) /\ tpl[t] \in TplRows
    BY StoredRows DEF StoreInvariant, QueueJob, BeginGenerate
  <1>2. CASE QueueJob(d, t)
    <2>1. made[d] = Idle
      <3>1. made[d].pc = "none"
        BY <1>2, RenderAssumption DEF QueueJob, Fresh, RenderInvariant, RequestsOwn
      <3> QED
        BY <3>1 DEF RenderInvariant, RenderTyped, RequestRows
    <2>2. made' = [made EXCEPT ![d] = Idle]
      BY <1>2, <2>1 DEF QueueJob, RenderInvariant, RenderTyped
    <2> QED
      BY <1>1, <1>2, <2>2, RenderKinds, JobBegun DEF QueueJob, RenderInvariant, templateVars
  <1>3. ASSUME NEW params \in SUBSET Names, BeginGenerate(d, t, params) PROVE RenderInvariant'
    <2> DEFINE x == [pc |-> "render", on |-> t, layout |-> tpl[t].layout, params |-> params]
    <2>1. x \in RequestRows /\ x.pc = "render" /\ x.on = t
      BY <1>1 DEF RequestRows, TplRows
    <2>2. /\ Fresh(d) /\ rjob' = [rjob EXCEPT ![d] = [status |-> "running", on |-> t, at |-> NoDoc]]
          /\ made' = [made EXCEPT ![d] = x] /\ UNCHANGED <<tpl, file, marred>>
      BY <1>3 DEF BeginGenerate, templateVars
    <2> HIDE DEF x
    <2> QED
      BY <1>1, <2>1, <2>2, JobBegun
  <1> QED
    BY <1>2, <1>3

\* A document is made of a template: files named after it keep holding one of it.
LEMMA RequestRendered ==
    ASSUME StoreInvariant, RenderInvariant, NEW d \in DocJobs, NEW up, RenderGenerated(d, up)
    PROVE  RenderInvariant'
  <1> DEFINE c == _build_context(made[d].params, up)
             doc == Document(made[d].on, made[d].layout, c)
             x == [pc |-> "finish"]
  <1>1. made[d].pc = "render" /\ made[d].on \in TplIds /\ made[d].layout \in Layouts
    BY RenderKinds DEF RenderGenerated, RenderInvariant
  <1>2. doc \in DocRows /\ doc.on = made[d].on
    <2>1. \A n \in Names : c[n] \in Origins
      BY ContextsTyped
    <2> HIDE DEF c
    <2> QED
      BY <1>1, <2>1, DocumentTyped
  <1>3. file' = [file EXCEPT ![JobFile(d)] = doc] /\ made' = [made EXCEPT ![d] = x] /\ UNCHANGED <<tpl, rjob, marred>>
    BY DEF RenderGenerated, templateVars
  <1>4. x \in RequestRows /\ x.pc = "finish"
    BY DEF RequestRows
  <1> HIDE DEF c, doc, x
  <1>5. /\ file' \in [FileNames -> DocRows \cup {NoDoc}] /\ file'[JobFile(d)] = doc
        /\ \A f \in FileNames \ {JobFile(d)} : file'[f] = file[f]
    BY <1>2, <1>3, FilesApart DEF RenderInvariant, RenderTyped
  <1>6. /\ made' \in [Makers -> RequestRows \cup TaskRows]
        /\ made'[d] = x /\ \A m \in Makers \ {d} : made'[m] = made[m]
        /\ \A w \in Workers : made'[w] = made[w]
    BY <1>3, <1>4, RenderKinds DEF RenderInvariant, RenderTyped
  <1>7. RenderTyped'
    BY <1>3, <1>4, <1>5, <1>6, RenderKinds DEF RenderInvariant, RenderTyped
  <1>8. rjob[d].status \in {"running", "deleted"} /\ rjob[d].on = made[d].on
    BY <1>1 DEF RenderInvariant, RequestsOwn
  <1>9. JobsFiled'
    BY <1>3 DEF RenderInvariant, JobsFiled
  <1>10. RequestsOwn'
    <2>1. Holds(JobFile(d), rjob[d].on)'
      BY <1>2, <1>3, <1>5, <1>8 DEF Holds
    <2>2. \A o \in DocJobs \ {d} : Holds(JobFile(o), rjob[o].on) => Holds(JobFile(o), rjob[o].on)'
      BY <1>3, <1>5, FilesApart DEF Holds
    <2> QED
      BY <1>3, <1>4, <1>6, <2>1, <2>2, <1>1, RenderKinds DEF RenderInvariant, RequestsOwn
  <1>11. TasksLocked'
    <2>1. ASSUME NEW w \in Workers, made[w].pc = "finish"
          PROVE  Holds(made[w].at, rjob[made[w].job].on) => Holds(made[w].at, rjob[made[w].job].on)'
      <3>1. made[w].at \in FileNames \ {JobFile(d)}
        BY <2>1, FilesApart, RenderKinds DEF RenderInvariant, TasksLocked
      <3> QED
        BY <1>3, <1>5, <1>6, <3>1 DEF Holds
    <2> QED
      BY <1>3, <1>6, <2>1 DEF RenderInvariant, TasksLocked
  <1>12. DocumentsThere'
    <2>1. ASSUME NEW o \in DocJobs, rjob[o] \in JobRows, rjob[o].status = "success"
          PROVE  Holds(rjob[o].at, rjob[o].on) => Holds(rjob[o].at, rjob[o].on)'
      <3>1. rjob[o].at \in FileNames \ {JobFile(d)}
        BY <1>8, <2>1, FilesApart DEF RenderInvariant, JobsFiled
      <3> QED
        BY <1>3, <1>5, <3>1 DEF Holds
    <2> QED
      BY <1>3, <2>1 DEF RenderInvariant, DocumentsThere
  <1> QED
    BY <1>7, <1>9, <1>10, <1>11, <1>12 DEF RenderInvariant

\* Whoever gives up leaves the rest as it was.
LEMMA MakerStopped ==
    ASSUME RenderInvariant, NEW m \in Makers, made' = [made EXCEPT ![m] = Idle], UNCHANGED <<tpl, rjob, file, marred>>
    PROVE  RenderInvariant'
  <1>1. /\ made' \in [Makers -> RequestRows \cup TaskRows]
        /\ \A k \in Makers : made'[k] = made[k] \/ (k = m /\ made'[k] = Idle)
    BY RenderKinds DEF RenderInvariant, RenderTyped
  <1>2. \A k \in Makers : made'[k].pc # "none" => made'[k] = made[k]
    BY <1>1, RenderKinds DEF RenderInvariant
  <1>3. RenderTyped'
    BY <1>1, RenderKinds DEF RenderInvariant, RenderTyped
  <1>4. JobsFiled' /\ DocumentsThere'
    BY DEF RenderInvariant, JobsFiled, DocumentsThere, Holds
  <1>5. RequestsOwn'
    BY <1>2, RenderKinds DEF RenderInvariant, RequestsOwn, Holds
  <1>6. TasksLocked'
    BY <1>2, RenderKinds DEF RenderInvariant, TasksLocked, Holds
  <1> QED
    BY <1>3, <1>4, <1>5, <1>6 DEF RenderInvariant

\* The one that has job d, a request or a task, brings it to an end.
LEMMA JobEnded ==
    ASSUME RenderInvariant, NEW d \in DocJobs, NEW m \in Makers, NEW st \in {"success", "error"},
           NEW at \in FileNames \cup {NoDoc},
           m = d \/ (m \in Workers /\ made[m].job = d), made[m].pc # "none",
           made' = [made EXCEPT ![m] = Idle], SetJob(d, st, at), UNCHANGED <<tpl, file, marred>>,
           st = "error" => at = NoDoc,
           st = "success" => /\ at = JobFile(d) \/ \E l \in DocLocales : at = WorkerFile(rjob[d].on, l)
                             /\ at \in FileNames /\ (d \notin marred => Holds(at, rjob[d].on))
    PROVE  RenderInvariant'
  <1>1. rjob[d] \in JobRows
    BY DEF RenderInvariant, RequestsOwn, TasksLocked
  <1>2. /\ made' \in [Makers -> RequestRows \cup TaskRows] /\ made'[m] = Idle
        /\ \A k \in Makers \ {m} : made'[k] = made[k]
    BY RenderKinds DEF RenderInvariant, RenderTyped
  <1>3. /\ \A o \in DocJobs : made'[o].pc # "none" => o # d /\ made'[o] = made[o]
        /\ \A w \in Workers : made'[w].pc # "none" => made[w].job # d /\ made'[w] = made[w]
    <2>1. CASE m = d
      BY <1>2, <2>1, RenderKinds DEF RenderInvariant, RequestsOwn, TasksLocked
    <2>2. CASE m \in Workers /\ made[m].job = d
      BY <1>2, <2>2, RenderKinds DEF RenderInvariant, RequestsOwn, TasksLocked
    <2> QED
      BY <2>1, <2>2
  <1>4. \/ rjob' = rjob
        \/ /\ rjob' \in [DocJobs -> JobRows \cup {NoJob}] /\ rjob'[d] \in JobRows
           /\ rjob'[d].status = st /\ rjob'[d].at = at /\ rjob'[d].on = rjob[d].on
           /\ \A o \in DocJobs \ {d} : rjob'[o] = rjob[o]
    <2>1. CASE d \in Kept
      <3> DEFINE row == [rjob[d] EXCEPT !.status = st, !.at = at]
      <3>1. rjob' = [rjob EXCEPT ![d] = row]
        BY <2>1 DEF SetJob
      <3>2. row \in JobRows /\ row.status = st /\ row.at = at /\ row.on = rjob[d].on
        BY <1>1 DEF JobRows
      <3> HIDE DEF row
      <3> QED
        BY <3>1, <3>2 DEF RenderInvariant, RenderTyped
    <2> QED
      BY <2>1 DEF SetJob
  <1>5. RenderTyped'
    BY <1>2, <1>4, RenderKinds DEF RenderInvariant, RenderTyped
  <1>6. JobsFiled'
    BY <1>1, <1>4, FilesApart DEF RenderInvariant, JobsFiled
  <1>7. RequestsOwn'
    BY <1>3, <1>4, RenderKinds DEF RenderInvariant, RequestsOwn, Holds
  <1>8. TasksLocked'
    <2>1. ASSUME NEW w \in Workers, made'[w].pc # "none"
          PROVE  made'[w] = made[w] /\ made[w].job \in DocJobs /\ rjob'[made[w].job] = rjob[made[w].job]
      BY <1>3, <1>4, <2>1, RenderKinds DEF RenderInvariant
    <2> QED
      BY <2>1 DEF RenderInvariant, TasksLocked, Holds
  <1>9. DocumentsThere'
    BY <1>4 DEF RenderInvariant, DocumentsThere, Holds
  <1> QED
    BY <1>5, <1>6, <1>7, <1>8, <1>9 DEF RenderInvariant

\* A request ends its own job, whether it is there or was deleted.
LEMMA RequestsEnd ==
    ASSUME RenderInvariant, NEW d \in DocJobs, generate_document(d) \/ GenerateFails(d) \/ GenerateCrashes(d)
    PROVE  RenderInvariant'
  <1>1. d \in Makers /\ made[d].pc # "none" /\ made' = [made EXCEPT ![d] = Idle] /\ UNCHANGED <<tpl, file, marred>>
    BY RenderKinds DEF RenderInvariant, generate_document, GenerateFails, GenerateCrashes, templateVars
  <1>2. CASE generate_document(d)
    <2>1. SetJob(d, "success", JobFile(d)) /\ Holds(JobFile(d), rjob[d].on)
      BY <1>2 DEF generate_document, RenderInvariant, RequestsOwn
    <2> QED
      BY <1>1, <2>1, JobEnded, FilesApart
  <1>3. CASE GenerateFails(d)
    BY <1>1, <1>3, JobEnded DEF GenerateFails
  <1>4. CASE GenerateCrashes(d)
    BY <1>1, <1>4, MakerStopped DEF GenerateCrashes
  <1> QED
    BY <1>2, <1>3, <1>4

\* So does a worker, on the job it has locked.
LEMMA TasksEnd ==
    ASSUME RenderInvariant, NEW w \in Workers, _render_job(w) \/ RenderFails(w) \/ WorkerStops(w)
    PROVE  RenderInvariant'
  <1>1. /\ w \in Makers /\ made[w].pc # "none" /\ made[w].job \in DocJobs
        /\ made' = [made EXCEPT ![w] = Idle] /\ UNCHANGED <<tpl, file, marred>>
    BY RenderKinds DEF RenderInvariant, _render_job, RenderFails, WorkerStops, templateVars
  <1>2. CASE _render_job(w)
    <2>1. /\ SetJob(made[w].job, "success", made[w].at) /\ made[w].at \in FileNames
          /\ \E l \in DocLocales : made[w].at = WorkerFile(rjob[made[w].job].on, l)
          /\ made[w].job \notin marred => Holds(made[w].at, rjob[made[w].job].on)
      BY <1>2, RenderKinds DEF _render_job, RenderInvariant, TasksLocked
    <2> QED
      BY <1>1, <2>1, JobEnded
  <1>3. CASE RenderFails(w)
    BY <1>1, <1>3, JobEnded DEF RenderFails
  <1>4. CASE WorkerStops(w)
    BY <1>1, <1>4, MakerStopped DEF WorkerStops
  <1> QED
    BY <1>2, <1>3, <1>4

\* A worker takes a queued job that none has.
LEMMA TaskClaimed ==
    ASSUME RenderInvariant, NEW w \in Workers, NEW params \in SUBSET Names, process_one(w, params)
    PROVE  RenderInvariant'
  <1>1. PICK d \in Jobs({"queued"}) \ Claimed :
            made' = [made EXCEPT ![w] = [pc |-> "render", job |-> d, on |-> rjob[d].on,
                                         layout |-> tpl[rjob[d].on].layout, params |-> params]]
    BY DEF process_one
  <1>2. d \in DocJobs /\ rjob[d] \in JobRows /\ rjob[d].status = "queued" /\ tpl[rjob[d].on] \in TplRows
    BY <1>1, JobsAre DEF RenderInvariant, JobsFiled
  <1> DEFINE x == [pc |-> "render", job |-> d, on |-> rjob[d].on, layout |-> tpl[rjob[d].on].layout, params |-> params]
  <1>3. x \in TaskRows /\ x.pc = "render" /\ x.job = d /\ x.on = rjob[d].on
    BY <1>2 DEF TaskRows, JobRows, TplRows
  <1>4. made' = [made EXCEPT ![w] = x] /\ UNCHANGED <<tpl, rjob, file, marred>>
    BY <1>1 DEF process_one, templateVars
  <1> HIDE DEF x
  <1>5. /\ made' \in [Makers -> RequestRows \cup TaskRows] /\ made'[w] = x
        /\ \A k \in Makers \ {w} : made'[k] = made[k]
    BY <1>3, <1>4, RenderKinds DEF RenderInvariant, RenderTyped
  <1>6. \A v \in Workers : made[v].pc # "none" => made[v].job # d
    BY <1>1 DEF Claimed
  <1>7. RenderTyped'
    BY <1>3, <1>4, <1>5, RenderKinds DEF RenderInvariant, RenderTyped
  <1>8. JobsFiled' /\ DocumentsThere'
    BY <1>4 DEF RenderInvariant, JobsFiled, DocumentsThere, Holds
  <1>9. RequestsOwn'
    BY <1>4, <1>5, RenderKinds DEF RenderInvariant, RequestsOwn, Holds
  <1>10. TasksLocked'
    BY <1>2, <1>3, <1>4, <1>5, <1>6, RenderKinds DEF RenderInvariant, TasksLocked, Holds
  <1> QED
    BY <1>7, <1>8, <1>9, <1>10 DEF RenderInvariant

\* A worker writes the one file of its template and locale.
LEMMA TaskRendered ==
    ASSUME StoreInvariant, RenderInvariant, NEW w \in Workers, NEW l \in DocLocales, RenderClaimed(w, l)
    PROVE  RenderInvariant'
  <1> DEFINE t   == made[w].on
             f   == WorkerFile(t, l)
             c   == resolve_placeholders(t, made[w].params)
             doc == Document(t, made[w].layout, c)
             x   == [pc |-> "finish", job |-> made[w].job, at |-> f]
  <1>1. /\ made[w].pc = "render" /\ t \in TplIds /\ made[w].layout \in Layouts /\ made[w].job \in DocJobs
        /\ t = rjob[made[w].job].on
    BY RenderKinds DEF RenderClaimed, RenderInvariant, TasksLocked
  <1>2. doc \in DocRows /\ doc.on = t
    <2>1. \A n \in Names : c[n] \in Origins
      BY ContextsTyped
    <2> HIDE DEF c
    <2> QED
      BY <1>1, <2>1, DocumentTyped
  <1>3. f \in FileNames
    BY <1>1, FilesApart
  <1>4. file' = [file EXCEPT ![f] = doc] /\ made' = [made EXCEPT ![w] = x] /\ UNCHANGED <<tpl, rjob, marred>>
    BY DEF RenderClaimed, templateVars
  <1>5. x \in TaskRows /\ x.pc = "finish" /\ x.job = made[w].job /\ x.at = f
    BY <1>1, <1>3 DEF TaskRows
  <1> HIDE DEF doc, x, c
  <1>6. /\ file' \in [FileNames -> DocRows \cup {NoDoc}]
        /\ \A g \in FileNames : file'[g] = IF g = f THEN doc ELSE file[g]
    BY <1>2, <1>3, <1>4 DEF RenderInvariant, RenderTyped
  <1>7. /\ made' \in [Makers -> RequestRows \cup TaskRows] /\ made'[w] = x
        /\ \A k \in Makers \ {w} : made'[k] = made[k]
    BY <1>4, <1>5, RenderKinds DEF RenderInvariant, RenderTyped
  <1>8. RenderTyped'
    BY <1>4, <1>5, <1>6, <1>7, RenderKinds DEF RenderInvariant, RenderTyped
  <1>9. JobsFiled'
    BY <1>4 DEF RenderInvariant, JobsFiled
  <1>10. RequestsOwn'
    <2>1. ASSUME NEW o \in DocJobs, Holds(JobFile(o), rjob[o].on)
          PROVE  file'[JobFile(o)] \in DocRows /\ file'[JobFile(o)].on = rjob'[o].on
      BY <1>4, <1>6, <2>1, FilesApart DEF Holds
    <2> QED
      BY <1>4, <1>7, <2>1, RenderKinds DEF RenderInvariant, RequestsOwn, Holds
  <1>11. TasksLocked'
    <2>1. ASSUME NEW v \in Workers \ {w}, made[v].pc = "finish", made[v].job \notin marred
          PROVE  file'[made[v].at] \in DocRows /\ file'[made[v].at].on = rjob[made[v].job].on
      <3>1. made[v].at \in FileNames /\ Holds(made[v].at, rjob[made[v].job].on)
        BY <2>1, RenderKinds DEF RenderInvariant, TasksLocked
      <3>2. made[v].at = f => rjob[made[v].job].on = t
        BY <2>1, FilesApart DEF RenderInvariant, TasksLocked
      <3> QED
        BY <1>2, <1>6, <3>1, <3>2 DEF Holds
    <2>2. file'[f] \in DocRows /\ file'[f].on = t
      BY <1>2, <1>3, <1>6
    <2>3. ASSUME NEW v \in Workers, made'[v].pc # "none"
          PROVE  /\ made[v].pc # "none" /\ made'[v].job = made[v].job
                 /\ v = w \/ made'[v] = made[v]
      BY <1>1, <1>5, <1>7, <2>3, RenderKinds DEF RenderInvariant
    <2> QED
      BY <1>1, <1>4, <1>5, <1>7, <2>1, <2>2, <2>3 DEF RenderInvariant, TasksLocked, Holds
  <1>12. DocumentsThere'
    <2>1. ASSUME NEW o \in DocJobs, rjob[o] \in JobRows, rjob[o].status = "success", o \notin marred
          PROVE  file'[rjob[o].at] \in DocRows /\ file'[rjob[o].at].on = rjob[o].on
      <3>1. rjob[o].at \in FileNames /\ Holds(rjob[o].at, rjob[o].on)
        BY <2>1 DEF RenderInvariant, JobsFiled, DocumentsThere
      <3>2. rjob[o].at = f => rjob[o].on = t
        BY <2>1, <3>1, FilesApart, <1>1 DEF RenderInvariant, JobsFiled
      <3> QED
        BY <1>2, <1>6, <3>1, <3>2 DEF Holds
    <2> QED
      BY <1>4, <2>1 DEF DocumentsThere, Holds
  <1> QED
    BY <1>8, <1>9, <1>10, <1>11, <1>12 DEF RenderInvariant

\* A deletion takes the file, and marks whoever has it.
LEMMA FileUnlinked ==
    ASSUME RenderInvariant, NEW d \in DocJobs, UnlinkFile(d),
           rjob' = rjob \/ (d \notin Claimed /\ rjob' = [rjob EXCEPT ![d].status = "deleted"])
    PROVE  RenderInvariant'
  <1> DEFINE f == rjob[d].at
  <1>1. rjob[d] \in JobRows /\ rjob[d].status # "deleted" /\ f \in FileNames \cup {NoDoc}
    BY JobsAre DEF RenderInvariant, UnlinkFile, Kept, JobRows
  <1>2. UNCHANGED <<tpl, made>>
    BY DEF UnlinkFile, templateVars
  <1>3. /\ file' \in [FileNames -> DocRows \cup {NoDoc}]
        /\ \A g \in FileNames : g # f => file'[g] = file[g]
    BY DEF RenderInvariant, RenderTyped, UnlinkFile
  <1>4. /\ marred \subseteq marred' /\ marred' \subseteq DocJobs
        /\ \A o \in DocJobs : rjob[o] \in JobRows /\ rjob[o].status = "success" /\ rjob[o].at = f /\ f # NoDoc => o \in marred'
        /\ \A w \in Workers : made[w].pc = "finish" /\ made[w].at = f /\ f # NoDoc => made[w].job \in marred'
    <2>1. /\ f # NoDoc => marred' = marred \cup ({o \in Jobs({"success"}) : rjob[o].at = f} \cup Saving(f))
          /\ f = NoDoc => marred' = marred
      BY DEF UnlinkFile
    <2>2. Saving(f) \subseteq DocJobs /\ Jobs({"success"}) \subseteq DocJobs
      BY RenderKinds DEF Saving, Jobs, RenderInvariant
    <2> QED
      BY <2>1, <2>2, JobsAre DEF RenderInvariant, RenderTyped, Saving
  <1>5. /\ rjob' \in [DocJobs -> JobRows \cup {NoJob}]
        /\ \A o \in DocJobs \ {d} : rjob'[o] = rjob[o]
        /\ rjob'[d] \in JobRows /\ rjob'[d].on = rjob[d].on /\ rjob'[d].at = f
        /\ rjob'[d] = rjob[d] \/ rjob'[d].status = "deleted"
    <2>1. CASE rjob' = rjob
      BY <1>1, <2>1 DEF RenderInvariant, RenderTyped
    <2>2. CASE rjob' = [rjob EXCEPT ![d].status = "deleted"]
      BY <1>1, <2>2 DEF RenderInvariant, RenderTyped, JobRows
    <2> QED
      BY <2>1, <2>2
  <1>6. d \in Claimed => rjob' = rjob
    OBVIOUS
  <1> HIDE DEF f
  <1>7. RenderTyped'
    BY <1>2, <1>3, <1>4, <1>5 DEF RenderInvariant, RenderTyped
  <1>8. ASSUME NEW o \in DocJobs, rjob'[o] \in JobRows
        PROVE  /\ rjob[o] \in JobRows /\ rjob'[o].on = rjob[o].on /\ rjob'[o].at = rjob[o].at
               /\ rjob'[o].status = rjob[o].status \/ (o = d /\ rjob'[o].status = "deleted")
    BY <1>1, <1>5, <1>8 DEF f
  <1>9. JobsFiled'
    BY <1>2, <1>8, FilesApart DEF RenderInvariant, JobsFiled
  <1>10. RequestsOwn'
    <2>1. ASSUME NEW o \in DocJobs, made[o].pc = "finish"
          PROVE  file'[JobFile(o)] = file[JobFile(o)]
      <3>1. rjob[o].at = NoDoc
        BY <2>1 DEF RenderInvariant, RequestsOwn
      <3>2. f # JobFile(o)
        BY <1>1, <3>1, FilesApart DEF RenderInvariant, JobsFiled, f
      <3> QED
        BY <1>3, <3>2, FilesApart
    <2>2. \A o \in DocJobs : rjob[o] \in JobRows => rjob'[o] \in JobRows
      BY <1>5
    <2> QED
      BY <1>2, <1>8, <2>1, <2>2 DEF RenderInvariant, RequestsOwn, Holds
  <1>11. TasksLocked'
    <2>1. ASSUME NEW w \in Workers, made[w].pc # "none"
          PROVE  made[w].job \in DocJobs /\ rjob'[made[w].job] = rjob[made[w].job]
      <3>1. made[w].job \in DocJobs /\ made[w].job \in Claimed
        BY <2>1, RenderKinds DEF RenderInvariant, Claimed
      <3> QED
        BY <1>5, <1>6, <3>1
    <2>2. ASSUME NEW w \in Workers, made[w].pc = "finish", made[w].job \notin marred'
          PROVE  file'[made[w].at] = file[made[w].at] /\ made[w].job \notin marred
      <3>1. made[w].at \in FileNames
        BY <2>2, RenderKinds DEF RenderInvariant
      <3>2. made[w].at # f
        BY <1>4, <2>2, <3>1, FilesApart
      <3> QED
        BY <1>3, <1>4, <2>2, <3>1, <3>2
    <2> QED
      BY <1>2, <2>1, <2>2 DEF RenderInvariant, TasksLocked, Holds
  <1>12. DocumentsThere'
    <2>1. ASSUME NEW o \in DocJobs, rjob'[o] \in JobRows, rjob'[o].status = "success", o \notin marred'
          PROVE  /\ rjob[o] \in JobRows /\ rjob[o].status = "success" /\ o \notin marred
                 /\ file'[rjob[o].at] = file[rjob[o].at]
      <3>1. rjob[o] \in JobRows /\ rjob[o].status = "success" /\ o \notin marred
        BY <1>4, <1>8, <2>1
      <3>2. rjob[o].at \in FileNames
        BY <3>1 DEF RenderInvariant, JobsFiled
      <3>3. rjob[o].at # f
        BY <1>4, <2>1, <3>1, <3>2, FilesApart
      <3> QED
        BY <1>3, <3>1, <3>2, <3>3
    <2> QED
      BY <1>8, <2>1 DEF RenderInvariant, DocumentsThere, Holds
  <1> QED
    BY <1>7, <1>9, <1>10, <1>11, <1>12 DEF RenderInvariant

\* Whatever is begun, rendered, ended or deleted fits.
LEMMA RenderKept ==
    ASSUME StoreInvariant, RenderInvariant, RenderNext
    PROVE  RenderInvariant'
  <1>1. ASSUME NEW d \in DocJobs, delete_job(d) \/ DeleteJobFails(d) PROVE RenderInvariant'
    BY <1>1, FileUnlinked DEF delete_job, DeleteJobFails
  <1> QED
    BY <1>1, BeginningsKeep, RequestRendered, RequestsEnd, TaskClaimed, TaskRendered, TasksEnd DEF RenderNext

\* What the store does, while templates stay, leaves jobs and files as they fit.
LEMMA RenderUntouched ==
    ASSUME RenderInvariant, UNCHANGED renderVars, \A t \in TplIds : tpl[t] \in TplRows => tpl'[t] \in TplRows
    PROVE  RenderInvariant'
  <1>1. RenderTyped'
    BY DEF RenderInvariant, RenderTyped, renderVars
  <1>2. JobsFiled'
    <2>1. \A d \in DocJobs : rjob[d] \in JobRows => rjob[d].on \in TplIds
      BY DEF JobRows
    <2> QED
      BY <2>1 DEF RenderInvariant, JobsFiled, renderVars
  <1>3. RequestsOwn' /\ TasksLocked' /\ DocumentsThere'
    BY DEF RenderInvariant, RequestsOwn, TasksLocked, DocumentsThere, Holds, renderVars
  <1> QED
    BY <1>1, <1>2, <1>3 DEF RenderInvariant

\* Jobs, their files and whoever works on them fit together.
THEOREM RenderInvariantHolds == Spec => []RenderInvariant
  <1>1. Init => RenderInvariant
    <2> SUFFICES ASSUME Init PROVE RenderInvariant
      OBVIOUS
    <2>1. /\ \A d \in DocJobs : rjob[d] = NoJob /\ made[d] = Idle
          /\ \A w \in Workers : made[w] = Idle
      BY DEF Init, RenderInit, Makers
    <2>2. Idle \in RequestRows /\ Idle \in TaskRows /\ Idle.pc = "none"
      BY DEF RequestRows, TaskRows, Idle
    <2>3. RenderTyped
      BY <2>1, <2>2 DEF Init, RenderInit, RenderTyped
    <2> QED
      BY <2>1, <2>2, <2>3, RenderAssumption DEF RenderInvariant, JobsFiled, RequestsOwn, TasksLocked, DocumentsThere
  <1>2. StoreInvariant /\ RenderInvariant /\ [Next]_documentVars => RenderInvariant'
    <2>1. ASSUME StoreInvariant, RenderInvariant, Next PROVE RenderInvariant'
      BY <2>1, RenderSteps, RenderKept, RenderUntouched, TemplatesStay
    <2>2. ASSUME RenderInvariant, UNCHANGED documentVars PROVE RenderInvariant'
      BY <2>2, RenderUntouched DEF documentVars, templateVars
    <2> QED
      BY <2>1, <2>2
  <1> QED
    BY <1>1, <1>2, StoreInvariantHolds, PTL DEF Spec

\* A job that says success has a file made from its template, but for deletions
\* that got as far as the file.
THEOREM SuccessHasDocumentHolds == Spec => []SuccessHasDocument
  <1>1. ASSUME RenderInvariant PROVE SuccessHasDocument
    BY <1>1, JobsAre, RenderAssumption DEF RenderInvariant, SuccessHasDocument, DocumentsThere, Holds
  <1> QED
    BY <1>1, RenderInvariantHolds, PTL

-----------------------------------------------------------------------------
(* The import of documents.  A parser is a fold over the elements, so what   *)
(* it makes of any document is shown by induction: a fold is a function on   *)
(* the sets of positions, of which 1..k are the elements read so far, and a  *)
(* property of the last follows from its least counterexample.               *)

\* What holds of 0, and of a number if of the one before, holds up to n.
LEMMA CountedUp ==
    ASSUME NEW n \in Nat, NEW S, 0 \in S, \A k \in 1..n : k - 1 \in S => k \in S
    PROVE  \A k \in 0..n : k \in S
  <1> DEFINE Less  == OpToRel(<, Nat)
             Fails == {k \in 0..n : k \notin S}
  <1>1. ASSUME Fails # {} PROVE FALSE
    <2>1. IsWellFoundedOn(Less, Nat)
      BY NatLessThanWellFounded
    <2>2. Fails \subseteq Nat
      OBVIOUS
    <2> HIDE DEF Fails, Less
    <2>3. PICK k \in Fails : \A j \in Fails : ~ (<<j, k>> \in Less)
      BY <1>1, <2>1, <2>2, WFMin
    <2> USE DEF Fails, Less
    <2>4. k \in 1..n /\ k - 1 \in 0..n /\ k - 1 < k
      BY SMT
    <2>5. <<k - 1, k>> \in Less
      BY <2>4 DEF OpToRel
    <2>6. k - 1 \in S
      BY <2>3, <2>4, <2>5
    <2> QED
      BY <2>4, <2>6
  <1> QED
    BY <1>1

\* What holds of the first of a run and passes from each to the next holds of all.
LEMMA RunStays ==
    ASSUME NEW n \in Nat, NEW run, NEW B, run[0] \in B, \A k \in 1..n : run[k - 1] \in B => run[k] \in B
    PROVE  \A k \in 0..n : run[k] \in B
  <1> DEFINE S == {k \in 0..n : run[k] \in B}
  <1>1. 0 \in 0..n /\ \A k \in 1..n : k \in 0..n /\ k - 1 \in 0..n
    BY SMT
  <1>2. 0 \in S /\ \A k \in 1..n : k - 1 \in S => k \in S
    BY <1>1
  <1> HIDE DEF S
  <1>3. \A k \in 0..n : k \in S
    BY <1>2, CountedUp
  <1> QED
    BY <1>3 DEF S

\* A position and the one before it are among those a run is defined on.
LEMMA PositionsKnown ==
    ASSUME NEW n \in Nat, NEW i \in 1..n
    PROVE  i - 1 \in 0..n /\ i \in 0..n
  OBVIOUS

\* What one of a run has got and passes from each to the next, the last has.
LEMMA RunKeeps ==
    ASSUME NEW n \in Nat, NEW i \in 1..n, NEW run, NEW B, run[i] \in B,
           \A k \in 1..n : run[k - 1] \in B => run[k] \in B
    PROVE  run[n] \in B
  <1> DEFINE S == {k \in 0..n : k < i \/ run[k] \in B}
  <1>1. 0 \in 0..n /\ n \in 0..n /\ 0 < i /\ ~ (n < i)
    BY SMT
  <1>2. \A k \in 1..n : k \in 0..n /\ k - 1 \in 0..n /\ (k - 1 < i => k < i \/ k = i)
    BY SMT
  <1>3. 0 \in S /\ \A k \in 1..n : k - 1 \in S => k \in S
    BY <1>1, <1>2
  <1> HIDE DEF S
  <1>4. n \in S
    BY <1>1, <1>3, CountedUp
  <1> QED
    BY <1>1, <1>4 DEF S

\* The greatest of the numbers up to k.
LEMMA MaxUpTo ==
    ASSUME NEW k \in Nat, NEW s \in SUBSET (1..k), k \in s
    PROVE  Max(s) = k
  <1>1. k \in s /\ \A y \in s : k >= y
    OBVIOUS
  <1>2. Max(s) \in s /\ \A y \in s : Max(s) >= y
    BY <1>1, Zenon DEF Max
  <1> DEFINE m == Max(s)
  <1>3. m \in 1..k /\ m >= k
    BY <1>2
  <1> HIDE DEF m
  <1>4. m = k
    BY <1>3
  <1> QED
    BY <1>4 DEF m

\* The greatest of some of the numbers up to n is one of them.
LEMMA MaxIn ==
    ASSUME NEW n \in Nat, NEW s \in SUBSET (1..n), s # {}
    PROVE  Max(s) \in s
  <1> DEFINE Big(k) == \A y \in s : y <= n - k
             S == {k \in 0..n : Big(k)}
  <1>1. \E x \in s : \A y \in s : x >= y
    <2>1. SUFFICES ASSUME \A x \in s : \E y \in s : y > x PROVE FALSE
      BY SMT
    <2>2. 0 \in S
      BY SMT
    <2>3. ASSUME NEW k \in 1..n, k - 1 \in S PROVE k \in S
      BY <2>1, <2>3, SMT
    <2> HIDE DEF S
    <2>4. n \in S
      BY <2>2, <2>3, CountedUp
    <2>5. \A y \in s : y <= n - n
      BY <2>4 DEF S
    <2>6. n - n = 0 /\ s \subseteq 1..n
      OBVIOUS
    <2>7. PICK y \in s : TRUE
      OBVIOUS
    <2>8. y <= 0 /\ y \in 1..n
      BY <2>5, <2>6
    <2> QED
      BY <2>8
  <1> QED
    BY <1>1, Zenon DEF Max

\* The function g folds step over n elements, the last of a set first, from b.
FoldsBy(g, n, b, step) ==
    \A s \in SUBSET (1..n) : g[s] = IF s = {} THEN b ELSE step[<<g[s \ {Max(s)}], Max(s)>>]

\* There is one, when a step takes an accumulator in B to one in B.
LEMMA FoldExists ==
    ASSUME NEW n \in Nat, NEW B, NEW b \in B, NEW step \in [B \X (1..n) -> B]
    PROVE  \E g \in [SUBSET (1..n) -> B] : FoldsBy(g, n, b, step)
  <1> DEFINE Done == {k \in 0..n : \E g \in [SUBSET (1..k) -> B] : FoldsBy(g, k, b, step)}
  <1>1. 0 \in Done
    <2>1. \A s \in SUBSET (1..0) : s = {}
      OBVIOUS
    <2>2. [s \in SUBSET (1..0) |-> b] \in [SUBSET (1..0) -> B] /\ FoldsBy([s \in SUBSET (1..0) |-> b], 0, b, step)
      BY <2>1 DEF FoldsBy
    <2>3. 0 \in 0..n /\ \E g \in [SUBSET (1..0) -> B] : FoldsBy(g, 0, b, step)
      BY <2>2
    <2> QED
      BY <2>3, Zenon
  <1>2. ASSUME NEW k \in 1..n, k - 1 \in Done PROVE k \in Done
    <2>1. PICK g \in [SUBSET (1..(k - 1)) -> B] : FoldsBy(g, k - 1, b, step)
      BY <1>2
    <2> DEFINE h == [s \in SUBSET (1..k) |-> IF k \in s THEN step[<<g[s \ {k}], k>>] ELSE g[s]]
    <2>2. ASSUME NEW s \in SUBSET (1..k)
          PROVE  /\ k \notin s => s \in SUBSET (1..(k - 1))
                 /\ s \ {k} \in SUBSET (1..(k - 1))
      BY SMT
    <2>3. h \in [SUBSET (1..k) -> B]
      BY <2>2
    <2>4. ASSUME NEW s \in SUBSET (1..k)
          PROVE  h[s] = IF s = {} THEN b ELSE step[<<h[s \ {Max(s)}], Max(s)>>]
      <3>1. CASE k \in s
        <4>1. Max(s) = k
          BY <3>1, MaxUpTo
        <4>2. h[s \ {k}] = g[s \ {k}] /\ h[s] = step[<<g[s \ {k}], k>>]
          BY <3>1
        <4> QED
          BY <3>1, <4>1, <4>2
      <3>2. CASE k \notin s
        <4>1. s \in SUBSET (1..(k - 1)) /\ h[s] = g[s]
          BY <2>2, <3>2
        <4>2. s \ {Max(s)} \in SUBSET (1..k) /\ k \notin s \ {Max(s)}
          BY <3>2
        <4>3. h[s \ {Max(s)}] = g[s \ {Max(s)}]
          BY <4>2
        <4> QED
          BY <2>1, <4>1, <4>3 DEF FoldsBy
      <3> QED
        BY <3>1, <3>2
    <2>5. FoldsBy(h, k, b, step)
      BY <2>4 DEF FoldsBy
    <2> HIDE DEF h
    <2>6. k \in 0..n /\ \E f \in [SUBSET (1..k) -> B] : FoldsBy(f, k, b, step)
      BY <2>3, <2>5
    <2> QED
      BY <2>6
  <1> HIDE DEF Done
  <1>3. n \in Done
    BY <1>1, <1>2, CountedUp
  <1> QED
    BY <1>3 DEF Done

\* A function that folds goes through the elements one by one.
LEMMA FoldRuns ==
    ASSUME NEW n \in Nat, NEW k \in 1..n
    PROVE  1..k \in SUBSET (1..n) /\ 1..k # {} /\ Max(1..k) = k /\ (1..k) \ {Max(1..k)} = 1..(k - 1)
  <1>1. Max(1..k) = k
    BY MaxUpTo
  <1> QED
    BY <1>1

-----------------------------------------------------------------------------

\* The blocks a document can become: their texts are texts, those of a table
\* whatever is kept of it.
TextBlocks  == [type : {"text", "section"}, texts : Seq(STRING)]
Tables(doc) == {[type |-> "table", texts |-> <<doc[i].text>> \o Cells(doc[i])] : i \in DOMAIN doc}
Becomes(doc) == TextBlocks \cup Tables(doc)

\* The block a text becomes.
TextOf(t, e) == [type |-> t, texts |-> <<e.text>>]

\* All that is written in blocks.
Listed(blocks) == UNION {ToSet(blocks[i].texts) : i \in DOMAIN blocks}

\* Without blocks, nothing.
LEMMA NothingListed == Listed(<<>>) = {}
  BY DOMAIN <<>> = {} DEF Listed

\* What is written in blocks is written in any sequence that they are part of.
LEMMA ListedTogether ==
    ASSUME NEW doc, NEW a \in Seq(Becomes(doc)), NEW b \in Seq(Becomes(doc))
    PROVE  a \o b \in Seq(Becomes(doc)) /\ Listed(a) \cup Listed(b) \subseteq Listed(a \o b)
  <1>1. a \o b \in Seq(Becomes(doc))
    OBVIOUS
  <1>2. \A i \in DOMAIN a : i \in DOMAIN (a \o b) /\ (a \o b)[i] = a[i]
    OBVIOUS
  <1>3. \A i \in DOMAIN b : Len(a) + i \in DOMAIN (a \o b) /\ (a \o b)[Len(a) + i] = b[i]
    OBVIOUS
  <1> QED
    BY <1>1, <1>2, <1>3 DEF Listed

\* Appending one is putting a sequence of one behind.
LEMMA AppendOfOne ==
    ASSUME NEW S, NEW s \in Seq(S), NEW b \in S
    PROVE  <<b>> \in Seq(S) /\ Append(s, b) = s \o <<b>>
  OBVIOUS

\* What stays where it is, and what comes behind.
LEMMA ConcatPlaces ==
    ASSUME NEW S, NEW a \in Seq(S), NEW b \in Seq(S)
    PROVE  /\ \A i \in DOMAIN a : i \in DOMAIN (a \o b) /\ (a \o b)[i] = a[i]
           /\ \A i \in DOMAIN b : Len(a) + i \in DOMAIN (a \o b) /\ (a \o b)[Len(a) + i] = b[i]
  OBVIOUS

\* A text more.
LEMMA AppendToSet ==
    ASSUME NEW S, NEW s \in Seq(S), NEW t \in S
    PROVE  Append(s, t) \in Seq(S) /\ ToSet(s) \subseteq ToSet(Append(s, t)) /\ t \in ToSet(Append(s, t))
  <1>1. /\ Append(s, t) \in Seq(S)
        /\ \A i \in DOMAIN s : i \in DOMAIN Append(s, t) /\ Append(s, t)[i] = s[i]
        /\ Len(s) + 1 \in DOMAIN Append(s, t) /\ Append(s, t)[Len(s) + 1] = t
    OBVIOUS
  <1> QED
    BY <1>1 DEF ToSet

\* One block is a sequence of blocks.
LEMMA OneBlock == \A S : \A b \in S : <<b>> \in Seq(S)
  OBVIOUS

\* One block more.
LEMMA ListedBlock ==
    ASSUME NEW doc, NEW b \in Becomes(doc), NEW t \in ToSet(b.texts)
    PROVE  <<b>> \in Seq(Becomes(doc)) /\ t \in Listed(<<b>>)
  <1>1. <<b>> \in Seq(Becomes(doc)) /\ DOMAIN <<b>> = {1} /\ <<b>>[1] = b
    OBVIOUS
  <1> QED
    BY <1>1 DEF Listed

\* A table becomes a block or, without a header, nothing.
LEMMA TableKept ==
    ASSUME NEW doc \in Seq(Elements), NEW i \in DOMAIN doc
    PROVE  TableOf(doc[i]) \in Seq(Becomes(doc))
  <1> DEFINE b == [type |-> "table", texts |-> <<doc[i].text>> \o Cells(doc[i])]
  <1>1. b \in Becomes(doc)
    BY DEF Becomes, Tables
  <1>2. TableOf(doc[i]) = <<>> \/ TableOf(doc[i]) = <<b>>
    BY DEF TableOf, Block
  <1> HIDE DEF b
  <1> QED
    BY <1>1, <1>2, OneBlock, EmptySeq

\* A text becomes a block that has it.
LEMMA TextKept ==
    ASSUME NEW doc, NEW t \in {"text", "section"}, NEW e, e.text \in STRING
    PROVE  /\ TextOf(t, e) \in Becomes(doc) /\ <<TextOf(t, e)>> \in Seq(Becomes(doc))
           /\ e.text \in Listed(<<TextOf(t, e)>>)
  <1>1. TextOf(t, e) \in Becomes(doc) /\ e.text \in ToSet(TextOf(t, e).texts)
    BY DEF Becomes, TextBlocks, ToSet, TextOf
  <1> QED
    BY <1>1, ListedBlock

\* A DOCX element becomes blocks with its text.
LEMMA DocxElementKept ==
    ASSUME NEW doc \in Seq(Elements), NEW i \in DOMAIN doc
    PROVE  /\ DocxElement(doc[i]) \in Seq(Becomes(doc))
           /\ doc[i].kind # "table" /\ doc[i].text # "" => doc[i].text \in Listed(DocxElement(doc[i]))
  <1> DEFINE e == doc[i]
  <1>1. e \in Elements /\ <<>> \in Seq(Becomes(doc))
    BY EmptySeq
  <1>2. CASE e.kind = "table"
    <2>1. DocxElement(e) = TableOf(e)
      BY <1>2 DEF DocxElement
    <2> QED
      BY <1>2, <2>1, TableKept
  <1>3. CASE e.kind # "table"
    <2>1. \/ e.text = "" /\ DocxElement(e) = <<>>
          \/ \E t \in {"text", "section"} : DocxElement(e) = <<TextOf(t, e)>>
      BY <1>1, <1>3 DEF DocxElement, Block, Paragraph, Elements, TextOf
    <2>2. ASSUME NEW t \in {"text", "section"}, DocxElement(e) = <<TextOf(t, e)>>
          PROVE  DocxElement(e) \in Seq(Becomes(doc)) /\ e.text \in Listed(DocxElement(e))
      BY <1>1, <2>2, TextKept DEF Elements
    <2> HIDE DEF e
    <2> QED
      BY <1>1, <2>1, <2>2 DEF e
  <1> QED
    BY <1>2, <1>3

\* The parser of DOCX goes through the elements one by one.
LEMMA DocxRuns ==
    ASSUME NEW doc \in Seq(Elements)
    PROVE  \E run :
              /\ run[0] = <<>> /\ docx_to_blocks(doc) = run[Len(doc)]
              /\ \A i \in 1..Len(doc) : run[i] = run[i - 1] \o DocxElement(doc[i])
  <1> DEFINE n == Len(doc)
             B == Seq(Becomes(doc))
             step == [x \in B \X (1..n) |-> x[1] \o DocxElement(doc[x[2]])]
  <1>1. n \in Nat /\ DOMAIN doc = 1..n
    BY LenProperties
  <1>2. ASSUME NEW acc \in B, NEW i \in 1..n PROVE acc \o DocxElement(doc[i]) \in B
    BY <1>1, DocxElementKept, ListedTogether
  <1>3. /\ step \in [B \X (1..n) -> B] /\ <<>> \in B
        /\ \A acc \in B, i \in 1..n : step[<<acc, i>>] = acc \o DocxElement(doc[i])
    <2>1. <<>> \in B
      BY EmptySeq
    <2> HIDE DEF B, n
    <2>2. \A x \in B \X (1..n) : x[1] \in B /\ x[2] \in 1..n
      OBVIOUS
    <2>3. step \in [B \X (1..n) -> B]
      BY <1>2, <2>2
    <2>4. \A acc \in B, i \in 1..n : step[<<acc, i>>] = acc \o DocxElement(doc[i])
      OBVIOUS
    <2> QED
      BY <2>1, <2>3, <2>4
  <1> HIDE DEF n, B, step
  <1>4. PICK g \in [SUBSET (1..n) -> B] : FoldsBy(g, n, <<>>, step)
    BY <1>1, <1>3, FoldExists
  <1>5. \A s \in SUBSET (1..n) :
           g[s] = IF s = {} THEN <<>> ELSE g[s \ {Max(s)}] \o DocxElement(doc[Max(s)])
    <2>1. ASSUME NEW s \in SUBSET (1..n), s # {} PROVE Max(s) \in 1..n
      BY <1>1, <2>1, MaxIn
    <2>2. ASSUME NEW s \in SUBSET (1..n) PROVE g[s \ {Max(s)}] \in B
      OBVIOUS
    <2>3. ASSUME NEW s \in SUBSET (1..n), s # {}
          PROVE  g[s] = g[s \ {Max(s)}] \o DocxElement(doc[Max(s)])
      <3>1. g[s] = step[<<g[s \ {Max(s)}], Max(s)>>]
        BY <1>4, <2>3 DEF FoldsBy
      <3> QED
        BY <1>3, <2>1, <2>2, <2>3, <3>1
    <2> QED
      BY <1>4, <2>3 DEF FoldsBy
  <1>6. g = [s \in SUBSET DOMAIN doc |->
               IF s = {} THEN <<>> ELSE g[s \ {Max(s)}] \o DocxElement(doc[Max(s)])]
    BY <1>1, <1>5
  <1>7. PICK f : /\ f = [s \in SUBSET DOMAIN doc |->
                           IF s = {} THEN <<>> ELSE f[s \ {Max(s)}] \o DocxElement(doc[Max(s)])]
                 /\ docx_to_blocks(doc) = f[DOMAIN doc]
    BY <1>6, Zenon DEF docx_to_blocks, FoldLeft, MapThenFoldSet
  <1>8. f[{}] = <<>>
    BY <1>7
  <1>9. ASSUME NEW i \in 1..n PROVE f[1..i] = f[1..(i - 1)] \o DocxElement(doc[i])
    BY <1>1, <1>7, FoldRuns
  <1> DEFINE run == [i \in 0..n |-> f[1..i]]
  <1>10. run[0] = <<>> /\ docx_to_blocks(doc) = run[n]
    <2>1. 1..0 = {} /\ 0 \in 0..n /\ n \in 0..n
      BY <1>1
    <2> QED
      BY <1>1, <1>7, <1>8, <2>1
  <1>11. \A i \in 1..n : run[i] = run[i - 1] \o DocxElement(doc[i])
    <2>1. \A i \in 1..n : i \in 0..n /\ i - 1 \in 0..n
      BY <1>1
    <2> QED
      BY <1>9, <2>1
  <1> QED
    BY <1>10, <1>11 DEF n

\* And leaves no text of a paragraph, a heading or a list behind.
LEMMA DocxKeepsText ==
    ASSUME NEW doc \in Seq(Elements), NEW i \in DOMAIN doc, doc[i].kind # "table", doc[i].text # ""
    PROVE  doc[i].text \in Listed(docx_to_blocks(doc))
  <1> DEFINE n    == Len(doc)
             B    == Seq(Becomes(doc))
             Good == {b \in B : doc[i].text \in Listed(b)}
  <1>1. n \in Nat /\ i \in 1..n /\ \A k \in 1..n : k \in DOMAIN doc
    BY LenProperties
  <1>2. PICK run : /\ run[0] = <<>> /\ docx_to_blocks(doc) = run[n]
                   /\ \A k \in 1..n : run[k] = run[k - 1] \o DocxElement(doc[k])
    BY DocxRuns
  <1>3. <<>> \in B
    BY EmptySeq
  <1> HIDE DEF n, B
  <1>4. ASSUME NEW k \in 1..n, run[k - 1] \in B
        PROVE  /\ run[k] \in B /\ Listed(run[k - 1]) \subseteq Listed(run[k])
               /\ k = i => doc[i].text \in Listed(run[k])
    <2>1. /\ DocxElement(doc[k]) \in B
          /\ k = i => doc[i].text \in Listed(DocxElement(doc[k]))
      BY <1>1, <1>4, DocxElementKept DEF B
    <2>2. /\ run[k] \in B
          /\ Listed(run[k - 1]) \cup Listed(DocxElement(doc[k])) \subseteq Listed(run[k])
      BY <1>2, <1>4, <2>1, ListedTogether DEF B
    <2> QED
      BY <2>1, <2>2
  <1>5. \A k \in 0..n : run[k] \in B
    BY <1>1, <1>2, <1>3, <1>4, RunStays
  <1>6. i - 1 \in 0..n /\ i \in 0..n
    BY <1>1, PositionsKnown
  <1>7. run[i] \in Good
    BY <1>1, <1>4, <1>5, <1>6
  <1>8. \A k \in 1..n : run[k - 1] \in Good => run[k] \in Good
    BY <1>4
  <1> HIDE DEF Good
  <1>9. run[n] \in Good
    BY <1>1, <1>7, <1>8, RunKeeps
  <1> QED
    BY <1>2, <1>9 DEF Good

-----------------------------------------------------------------------------

\* An HTML element becomes blocks with its text, which are new unless it has been
\* seen before.
LEMMA HtmlElementKept ==
    ASSUME NEW doc \in Seq(Elements), NEW i \in DOMAIN doc, NEW acc \in Seq(Becomes(doc))
    PROVE  /\ HtmlElement(acc, doc[i]) \in Seq(Becomes(doc))
           /\ doc[i].kind \notin {"table", "list"} /\ doc[i].text # "" =>
                 doc[i].text \in Listed(acc) \cup Listed(HtmlElement(acc, doc[i]))
  <1> DEFINE e == doc[i]
  <1>1. e \in Elements /\ <<>> \in Seq(Becomes(doc))
    BY EmptySeq
  <1>2. CASE e.kind = "table"
    <2>1. HtmlElement(acc, e) = TableOf(e)
      BY <1>2 DEF HtmlElement
    <2> QED
      BY <1>2, <2>1, TableKept
  <1>3. CASE e.kind # "table"
    <2>1. \/ HtmlElement(acc, e) = <<>> /\ (e.kind = "list" \/ e.text = "" \/ e.text \in SeenIn(acc))
          \/ \E t \in {"text", "section"} : HtmlElement(acc, e) = <<TextOf(t, e)>>
      BY <1>1, <1>3 DEF HtmlElement, Known, Block, Paragraph, Elements, TextOf
    <2>2. SeenIn(acc) \subseteq Listed(acc)
      BY DEF SeenIn, Listed
    <2>3. ASSUME NEW t \in {"text", "section"}, HtmlElement(acc, e) = <<TextOf(t, e)>>
          PROVE  HtmlElement(acc, e) \in Seq(Becomes(doc)) /\ e.text \in Listed(HtmlElement(acc, e))
      BY <1>1, <2>3, TextKept DEF Elements
    <2> HIDE DEF e
    <2> QED
      BY <1>1, <2>1, <2>2, <2>3 DEF e
  <1> QED
    BY <1>2, <1>3

\* What the parser of HTML finds at first.
FoundIn(doc) == FoldLeft(LAMBDA acc, e : acc \o HtmlElement(acc, e), <<>>, doc)

\* It goes through the elements one by one, too.
LEMMA HtmlRuns ==
    ASSUME NEW doc \in Seq(Elements)
    PROVE  \E run :
              /\ run[0] = <<>> /\ FoundIn(doc) = run[Len(doc)]
              /\ \A i \in 1..Len(doc) : run[i] = run[i - 1] \o HtmlElement(run[i - 1], doc[i])
  <1> DEFINE n == Len(doc)
             B == Seq(Becomes(doc))
             step == [x \in B \X (1..n) |-> x[1] \o HtmlElement(x[1], doc[x[2]])]
  <1>1. n \in Nat /\ DOMAIN doc = 1..n
    BY LenProperties
  <1>2. ASSUME NEW acc \in B, NEW i \in 1..n PROVE acc \o HtmlElement(acc, doc[i]) \in B
    BY <1>1, HtmlElementKept, ListedTogether
  <1>3. /\ step \in [B \X (1..n) -> B] /\ <<>> \in B
        /\ \A acc \in B, i \in 1..n : step[<<acc, i>>] = acc \o HtmlElement(acc, doc[i])
    <2>1. <<>> \in B
      BY EmptySeq
    <2> HIDE DEF B, n
    <2>2. \A x \in B \X (1..n) : x[1] \in B /\ x[2] \in 1..n
      OBVIOUS
    <2>3. step \in [B \X (1..n) -> B]
      BY <1>2, <2>2
    <2>4. \A acc \in B, i \in 1..n : step[<<acc, i>>] = acc \o HtmlElement(acc, doc[i])
      OBVIOUS
    <2> QED
      BY <2>1, <2>3, <2>4
  <1> HIDE DEF n, B, step
  <1>4. PICK g \in [SUBSET (1..n) -> B] : FoldsBy(g, n, <<>>, step)
    BY <1>1, <1>3, FoldExists
  <1>5. \A s \in SUBSET (1..n) :
           g[s] = IF s = {} THEN <<>> ELSE g[s \ {Max(s)}] \o HtmlElement(g[s \ {Max(s)}], doc[Max(s)])
    <2>1. ASSUME NEW s \in SUBSET (1..n), s # {} PROVE Max(s) \in 1..n
      BY <1>1, <2>1, MaxIn
    <2>2. ASSUME NEW s \in SUBSET (1..n) PROVE g[s \ {Max(s)}] \in B
      OBVIOUS
    <2>3. ASSUME NEW s \in SUBSET (1..n), s # {}
          PROVE  g[s] = g[s \ {Max(s)}] \o HtmlElement(g[s \ {Max(s)}], doc[Max(s)])
      <3>1. g[s] = step[<<g[s \ {Max(s)}], Max(s)>>]
        BY <1>4, <2>3 DEF FoldsBy
      <3> QED
        BY <1>3, <2>1, <2>2, <2>3, <3>1
    <2> QED
      BY <1>4, <2>3 DEF FoldsBy
  <1>6. g = [s \in SUBSET DOMAIN doc |->
               IF s = {} THEN <<>> ELSE g[s \ {Max(s)}] \o HtmlElement(g[s \ {Max(s)}], doc[Max(s)])]
    BY <1>1, <1>5
  <1>7. PICK f : /\ f = [s \in SUBSET DOMAIN doc |->
                           IF s = {} THEN <<>> ELSE f[s \ {Max(s)}] \o HtmlElement(f[s \ {Max(s)}], doc[Max(s)])]
                 /\ FoundIn(doc) = f[DOMAIN doc]
    BY <1>6, Zenon DEF FoundIn, FoldLeft, MapThenFoldSet
  <1>8. f[{}] = <<>>
    BY <1>7
  <1>9. ASSUME NEW i \in 1..n PROVE f[1..i] = f[1..(i - 1)] \o HtmlElement(f[1..(i - 1)], doc[i])
    BY <1>1, <1>7, FoldRuns
  <1> DEFINE run == [i \in 0..n |-> f[1..i]]
  <1>10. run[0] = <<>> /\ FoundIn(doc) = run[n]
    <2>1. 1..0 = {} /\ 0 \in 0..n /\ n \in 0..n
      BY <1>1
    <2> QED
      BY <1>1, <1>7, <1>8, <2>1
  <1>11. \A i \in 1..n : run[i] = run[i - 1] \o HtmlElement(run[i - 1], doc[i])
    <2>1. \A i \in 1..n : i \in 0..n /\ i - 1 \in 0..n
      BY <1>1
    <2> QED
      BY <1>9, <2>1
  <1> QED
    BY <1>10, <1>11 DEF n

\* And finds the text of each paragraph and heading.
LEMMA HtmlFindsText ==
    ASSUME NEW doc \in Seq(Elements), NEW i \in DOMAIN doc, doc[i].kind \notin {"table", "list"}, doc[i].text # ""
    PROVE  doc[i].text \in Listed(FoundIn(doc))
  <1> DEFINE n    == Len(doc)
             B    == Seq(Becomes(doc))
             Good == {b \in B : doc[i].text \in Listed(b)}
  <1>1. n \in Nat /\ i \in 1..n /\ \A k \in 1..n : k \in DOMAIN doc
    BY LenProperties
  <1>2. PICK run : /\ run[0] = <<>> /\ FoundIn(doc) = run[n]
                   /\ \A k \in 1..n : run[k] = run[k - 1] \o HtmlElement(run[k - 1], doc[k])
    BY HtmlRuns
  <1>3. <<>> \in B
    BY EmptySeq
  <1> HIDE DEF n, B
  <1>4. ASSUME NEW k \in 1..n, run[k - 1] \in B
        PROVE  /\ run[k] \in B /\ Listed(run[k - 1]) \subseteq Listed(run[k])
               /\ k = i => doc[i].text \in Listed(run[k])
    <2>1. /\ HtmlElement(run[k - 1], doc[k]) \in B
          /\ k = i => doc[i].text \in Listed(run[k - 1]) \cup Listed(HtmlElement(run[k - 1], doc[k]))
      BY <1>1, <1>4, HtmlElementKept DEF B
    <2>2. /\ run[k] \in B
          /\ Listed(run[k - 1]) \cup Listed(HtmlElement(run[k - 1], doc[k])) \subseteq Listed(run[k])
      BY <1>2, <1>4, <2>1, ListedTogether DEF B
    <2> QED
      BY <2>1, <2>2
  <1>5. \A k \in 0..n : run[k] \in B
    BY <1>1, <1>2, <1>3, <1>4, RunStays
  <1>6. i - 1 \in 0..n /\ i \in 0..n
    BY <1>1, PositionsKnown
  <1>7. run[i] \in Good
    BY <1>1, <1>4, <1>5, <1>6
  <1>8. \A k \in 1..n : run[k - 1] \in Good => run[k] \in Good
    BY <1>4
  <1> HIDE DEF Good
  <1>9. run[n] \in Good
    BY <1>1, <1>7, <1>8, RunKeeps
  <1> QED
    BY <1>2, <1>9 DEF Good

\* When it finds nothing it tries again; then there was no such text.
LEMMA HtmlKeepsText ==
    ASSUME NEW doc \in Seq(Elements), NEW i \in DOMAIN doc, doc[i].kind \notin {"table", "list"}, doc[i].text # ""
    PROVE  doc[i].text \in Listed(html_to_blocks(doc))
  <1>1. doc[i].text \in Listed(FoundIn(doc))
    BY HtmlFindsText
  <1>2. FoundIn(doc) # <<>>
    BY <1>1, NothingListed
  <1>3. html_to_blocks(doc) = FoundIn(doc)
    BY <1>2, Zenon DEF html_to_blocks, FoundIn
  <1> QED
    BY <1>1, <1>3

-----------------------------------------------------------------------------

\* What the parser of a PDF reads: lines, of the document and of its tables.
LineRows == Elements \cup [kind : {"para"}, text : STRING]

\* The lines of a document, and the blocks of its tables, which come first.
LinesIn(doc)  == FoldLeft(LAMBDA acc, e : acc \o LinesOf(e), <<>>, doc)
Tabled(acc, e) == IF e.kind = "table" THEN acc \o TableOf(e) ELSE acc
TablesIn(doc)  == FoldLeft(Tabled, <<>>, doc)

\* The lines of an element are lines.
LEMMA LinesAreLines ==
    ASSUME NEW e \in Elements
    PROVE  LinesOf(e) \in Seq(LineRows) /\ (e.kind # "table" => LinesOf(e) = <<e>>)
  <1>1. CASE e.kind = "table"
    <2> DEFINE t == <<e.text>> \o e.rows
    <2>1. <<e.text>> \in Seq(STRING) /\ e.rows \in Seq(STRING)
      BY DEF Elements
    <2>2. t \in Seq(STRING) /\ Len(t) = Len(e.rows) + 1 /\ Len(e.rows) + 1 \in Nat
      BY <2>1
    <2> HIDE DEF t
    <2>3. [i \in 1..Len(t) |-> [kind |-> "para", text |-> t[i]]] \in Seq(LineRows)
      BY <2>2 DEF LineRows
    <2>4. LinesOf(e) = [i \in 1..Len(t) |-> [kind |-> "para", text |-> t[i]]]
      BY <1>1, <2>2 DEF LinesOf, t
    <2> QED
      BY <1>1, <2>3, <2>4
  <1>2. CASE e.kind # "table"
    BY <1>2 DEF LinesOf, LineRows
  <1> QED
    BY <1>1, <1>2

\* Its lines are read one element after the other.
LEMMA LinesRun ==
    ASSUME NEW doc \in Seq(Elements)
    PROVE  \E run :
              /\ run[0] = <<>> /\ LinesIn(doc) = run[Len(doc)]
              /\ \A i \in 1..Len(doc) : run[i] = run[i - 1] \o LinesOf(doc[i])
  <1> DEFINE n == Len(doc)
             B == Seq(LineRows)
             step == [x \in B \X (1..n) |-> x[1] \o LinesOf(doc[x[2]])]
  <1>1. n \in Nat /\ DOMAIN doc = 1..n
    BY LenProperties
  <1>2. ASSUME NEW acc \in B, NEW i \in 1..n PROVE acc \o LinesOf(doc[i]) \in B
    BY <1>1, LinesAreLines
  <1>3. /\ step \in [B \X (1..n) -> B] /\ <<>> \in B
        /\ \A acc \in B, i \in 1..n : step[<<acc, i>>] = acc \o LinesOf(doc[i])
    <2>1. <<>> \in B
      BY EmptySeq
    <2> HIDE DEF B, n
    <2>2. \A x \in B \X (1..n) : x[1] \in B /\ x[2] \in 1..n
      OBVIOUS
    <2>3. step \in [B \X (1..n) -> B]
      BY <1>2, <2>2
    <2>4. \A acc \in B, i \in 1..n : step[<<acc, i>>] = acc \o LinesOf(doc[i])
      OBVIOUS
    <2> QED
      BY <2>1, <2>3, <2>4
  <1> HIDE DEF n, B, step
  <1>4. PICK g \in [SUBSET (1..n) -> B] : FoldsBy(g, n, <<>>, step)
    BY <1>1, <1>3, FoldExists
  <1>5. \A s \in SUBSET (1..n) :
           g[s] = IF s = {} THEN <<>> ELSE g[s \ {Max(s)}] \o LinesOf(doc[Max(s)])
    <2>1. ASSUME NEW s \in SUBSET (1..n), s # {} PROVE Max(s) \in 1..n
      BY <1>1, <2>1, MaxIn
    <2>2. ASSUME NEW s \in SUBSET (1..n) PROVE g[s \ {Max(s)}] \in B
      OBVIOUS
    <2>3. ASSUME NEW s \in SUBSET (1..n), s # {}
          PROVE  g[s] = g[s \ {Max(s)}] \o LinesOf(doc[Max(s)])
      <3>1. g[s] = step[<<g[s \ {Max(s)}], Max(s)>>]
        BY <1>4, <2>3 DEF FoldsBy
      <3> QED
        BY <1>3, <2>1, <2>2, <2>3, <3>1
    <2> QED
      BY <1>4, <2>3 DEF FoldsBy
  <1>6. g = [s \in SUBSET DOMAIN doc |->
               IF s = {} THEN <<>> ELSE g[s \ {Max(s)}] \o LinesOf(doc[Max(s)])]
    BY <1>1, <1>5
  <1>7. PICK f : /\ f = [s \in SUBSET DOMAIN doc |->
                           IF s = {} THEN <<>> ELSE f[s \ {Max(s)}] \o LinesOf(doc[Max(s)])]
                 /\ LinesIn(doc) = f[DOMAIN doc]
    BY <1>6, Zenon DEF LinesIn, FoldLeft, MapThenFoldSet
  <1>8. f[{}] = <<>>
    BY <1>7
  <1>9. ASSUME NEW i \in 1..n PROVE f[1..i] = f[1..(i - 1)] \o LinesOf(doc[i])
    BY <1>1, <1>7, FoldRuns
  <1> DEFINE run == [i \in 0..n |-> f[1..i]]
  <1>10. run[0] = <<>> /\ LinesIn(doc) = run[n]
    <2>1. 1..0 = {} /\ 0 \in 0..n /\ n \in 0..n
      BY <1>1
    <2> QED
      BY <1>1, <1>7, <1>8, <2>1
  <1>11. \A i \in 1..n : run[i] = run[i - 1] \o LinesOf(doc[i])
    <2>1. \A i \in 1..n : i \in 0..n /\ i - 1 \in 0..n
      BY <1>1
    <2> QED
      BY <1>9, <2>1
  <1> QED
    BY <1>10, <1>11 DEF n

\* Every element that is not a table is one of the lines.
LEMMA LinesKeepElements ==
    ASSUME NEW doc \in Seq(Elements)
    PROVE  /\ LinesIn(doc) \in Seq(LineRows)
           /\ \A i \in DOMAIN doc : doc[i].kind # "table" => \E j \in DOMAIN LinesIn(doc) : LinesIn(doc)[j] = doc[i]
  <1> DEFINE n == Len(doc)
             B == Seq(LineRows)
  <1>1. n \in Nat /\ DOMAIN doc = 1..n
    BY LenProperties
  <1>2. PICK run : /\ run[0] = <<>> /\ LinesIn(doc) = run[n]
                   /\ \A k \in 1..n : run[k] = run[k - 1] \o LinesOf(doc[k])
    BY LinesRun
  <1>3. <<>> \in B
    BY EmptySeq
  <1>4. ASSUME NEW k \in 1..n
        PROVE  LinesOf(doc[k]) \in B /\ (doc[k].kind # "table" => LinesOf(doc[k]) = <<doc[k]>>)
    <2>1. doc[k] \in Elements
      BY ElementOfSeq
    <2> QED
      BY <2>1, LinesAreLines
  <1> HIDE DEF n
  <1>5. \A k \in 1..n : run[k - 1] \in B => run[k] \in B
    BY <1>2, <1>4, ConcatProperties
  <1>6. \A k \in 0..n : run[k] \in B
    <2> HIDE DEF B
    <2> QED
      BY <1>1, <1>2, <1>3, <1>5, RunStays
  <1>7. ASSUME NEW i \in DOMAIN doc, doc[i].kind # "table"
        PROVE  \E j \in DOMAIN run[n] : run[n][j] = doc[i]
    <2> DEFINE Good == {l \in B : \E j \in DOMAIN l : l[j] = doc[i]}
    <2>1. i \in 1..n /\ i - 1 \in 0..n /\ i \in 0..n
      BY <1>1
    <2>2. run[i - 1] \in B /\ run[i] \in B /\ <<doc[i]>> \in B /\ run[i] = run[i - 1] \o <<doc[i]>>
      BY <1>2, <1>4, <1>6, <1>7, <2>1
    <2>3. run[i] \in Good
      <3>1. Len(run[i - 1]) \in Nat /\ Len(run[i]) = Len(run[i - 1]) + 1 /\ DOMAIN run[i] = 1..Len(run[i])
        BY <2>2, ConcatProperties, LenProperties
      <3>2. run[i][Len(run[i - 1]) + 1] = doc[i] /\ Len(run[i - 1]) + 1 \in DOMAIN run[i]
        BY <2>2, <3>1
      <3> QED
        BY <2>2, <3>2
    <2>4. ASSUME NEW k \in 1..n, run[k - 1] \in Good PROVE run[k] \in Good
      <3>1. run[k - 1] \in B /\ LinesOf(doc[k]) \in B /\ run[k] \in B /\ run[k] = run[k - 1] \o LinesOf(doc[k])
        BY <1>2, <1>4, <1>5, <2>4
      <3>2. PICK j \in DOMAIN run[k - 1] : run[k - 1][j] = doc[i]
        BY <2>4
      <3> DEFINE a == run[k - 1]
                 b == LinesOf(doc[k])
      <3>3. a \in B /\ b \in B /\ run[k] = a \o b /\ j \in DOMAIN a
        BY <3>1
      <3> HIDE DEF a, b, Good
      <3>4. j \in DOMAIN (a \o b) /\ (a \o b)[j] = a[j]
        BY <3>3, ConcatPlaces
      <3>5. j \in DOMAIN run[k] /\ run[k][j] = run[k - 1][j]
        BY <3>3, <3>4 DEF a
      <3> USE DEF Good
      <3> QED
        BY <3>1, <3>2, <3>5
    <2> HIDE DEF Good
    <2>5. run[n] \in Good
      BY <1>1, <2>1, <2>3, <2>4, RunKeeps
    <2> QED
      BY <2>5 DEF Good
  <1>8. n \in 0..n
    BY <1>1
  <1> QED
    BY <1>2, <1>6, <1>7, <1>8

\* Its tables come first.
LEMMA TablesRun ==
    ASSUME NEW doc \in Seq(Elements)
    PROVE  \E run :
              /\ run[0] = <<>> /\ TablesIn(doc) = run[Len(doc)]
              /\ \A i \in 1..Len(doc) : run[i] = Tabled(run[i - 1], doc[i])
  <1> DEFINE n == Len(doc)
             B == Seq(Becomes(doc))
             step == [x \in B \X (1..n) |-> Tabled(x[1], doc[x[2]])]
  <1>1. n \in Nat /\ DOMAIN doc = 1..n
    BY LenProperties
  <1>2. ASSUME NEW acc \in B, NEW i \in 1..n PROVE Tabled(acc, doc[i]) \in B
    BY <1>1, TableKept, ListedTogether DEF Tabled
  <1>3. /\ step \in [B \X (1..n) -> B] /\ <<>> \in B
        /\ \A acc \in B, i \in 1..n : step[<<acc, i>>] = Tabled(acc, doc[i])
    <2>1. <<>> \in B
      BY EmptySeq
    <2> HIDE DEF B, n
    <2>2. \A x \in B \X (1..n) : x[1] \in B /\ x[2] \in 1..n
      OBVIOUS
    <2>3. step \in [B \X (1..n) -> B]
      BY <1>2, <2>2
    <2>4. \A acc \in B, i \in 1..n : step[<<acc, i>>] = Tabled(acc, doc[i])
      OBVIOUS
    <2> QED
      BY <2>1, <2>3, <2>4
  <1> HIDE DEF n, B, step
  <1>4. PICK g \in [SUBSET (1..n) -> B] : FoldsBy(g, n, <<>>, step)
    BY <1>1, <1>3, FoldExists
  <1>5. \A s \in SUBSET (1..n) :
           g[s] = IF s = {} THEN <<>> ELSE Tabled(g[s \ {Max(s)}], doc[Max(s)])
    <2>1. ASSUME NEW s \in SUBSET (1..n), s # {} PROVE Max(s) \in 1..n
      BY <1>1, <2>1, MaxIn
    <2>2. ASSUME NEW s \in SUBSET (1..n) PROVE g[s \ {Max(s)}] \in B
      OBVIOUS
    <2>3. ASSUME NEW s \in SUBSET (1..n), s # {}
          PROVE  g[s] = Tabled(g[s \ {Max(s)}], doc[Max(s)])
      <3>1. g[s] = step[<<g[s \ {Max(s)}], Max(s)>>]
        BY <1>4, <2>3 DEF FoldsBy
      <3> QED
        BY <1>3, <2>1, <2>2, <2>3, <3>1
    <2> QED
      BY <1>4, <2>3 DEF FoldsBy
  <1>6. g = [s \in SUBSET DOMAIN doc |->
               IF s = {} THEN <<>> ELSE Tabled(g[s \ {Max(s)}], doc[Max(s)])]
    BY <1>1, <1>5
  <1>7. PICK f : /\ f = [s \in SUBSET DOMAIN doc |->
                           IF s = {} THEN <<>> ELSE Tabled(f[s \ {Max(s)}], doc[Max(s)])]
                 /\ TablesIn(doc) = f[DOMAIN doc]
    BY <1>6, Zenon DEF TablesIn, FoldLeft, MapThenFoldSet
  <1>8. f[{}] = <<>>
    BY <1>7
  <1>9. ASSUME NEW i \in 1..n PROVE f[1..i] = Tabled(f[1..(i - 1)], doc[i])
    BY <1>1, <1>7, FoldRuns
  <1> DEFINE run == [i \in 0..n |-> f[1..i]]
  <1>10. run[0] = <<>> /\ TablesIn(doc) = run[n]
    <2>1. 1..0 = {} /\ 0 \in 0..n /\ n \in 0..n
      BY <1>1
    <2> QED
      BY <1>1, <1>7, <1>8, <2>1
  <1>11. \A i \in 1..n : run[i] = Tabled(run[i - 1], doc[i])
    <2>1. \A i \in 1..n : i \in 0..n /\ i - 1 \in 0..n
      BY <1>1
    <2> QED
      BY <1>9, <2>1
  <1> QED
    BY <1>10, <1>11 DEF n

\* They are blocks.
LEMMA TablesAreBlocks ==
    ASSUME NEW doc \in Seq(Elements)
    PROVE  TablesIn(doc) \in Seq(Becomes(doc))
  <1> DEFINE n == Len(doc)
             B == Seq(Becomes(doc))
  <1>1. n \in Nat /\ DOMAIN doc = 1..n /\ <<>> \in B
    BY LenProperties, EmptySeq
  <1>2. PICK run : /\ run[0] = <<>> /\ TablesIn(doc) = run[n]
                   /\ \A k \in 1..n : run[k] = Tabled(run[k - 1], doc[k])
    BY TablesRun
  <1> HIDE DEF n
  <1>3. \A k \in 1..n : TableOf(doc[k]) \in B
    BY <1>1, TableKept
  <1>4. \A k \in 1..n : run[k - 1] \in B => run[k] \in B
    BY <1>2, <1>3, ListedTogether DEF Tabled
  <1> HIDE DEF B
  <1>5. \A k \in 0..n : run[k] \in B
    BY <1>1, <1>2, <1>4, RunStays
  <1>6. n \in 0..n
    BY <1>1
  <1> QED
    BY <1>2, <1>5, <1>6 DEF B

\* A line goes into a block of its own or into the one before; nothing is taken
\* out of any.
LEMMA PdfLineKept ==
    ASSUME NEW doc, NEW acc \in Seq(Becomes(doc)), NEW e \in LineRows
    PROVE  /\ PdfLine(acc, e) \in Seq(Becomes(doc)) /\ Listed(acc) \subseteq Listed(PdfLine(acc, e))
           /\ e.text # "" => e.text \in Listed(PdfLine(acc, e))
  <1>1. e.text \in STRING
    BY DEF LineRows, Elements
  <1>2. CASE Known(acc, e)
    <2>1. PdfLine(acc, e) = acc
      BY <1>2 DEF PdfLine
    <2>2. SeenIn(acc) \subseteq Listed(acc)
      BY DEF SeenIn, Listed
    <2> QED
      BY <1>2, <2>1, <2>2 DEF Known
  <1>3. CASE \E t \in {"text", "section"} : PdfLine(acc, e) = Append(acc, TextOf(t, e))
    <2>1. PICK t \in {"text", "section"} : PdfLine(acc, e) = Append(acc, TextOf(t, e))
      BY <1>3
    <2>2. TextOf(t, e) \in Becomes(doc) /\ <<TextOf(t, e)>> \in Seq(Becomes(doc)) /\ e.text \in Listed(<<TextOf(t, e)>>)
      BY <1>1, TextKept
    <2>3. Append(acc, TextOf(t, e)) = acc \o <<TextOf(t, e)>>
      BY <2>2, AppendOfOne
    <2> QED
      BY <2>1, <2>2, <2>3, ListedTogether
  <1>4. CASE RunsOn(acc) /\ PdfLine(acc, e) = [acc EXCEPT ![Len(acc)].texts = Append(@, e.text)]
    <2> DEFINE l == Len(acc)
               b == [acc[l] EXCEPT !.texts = Append(@, e.text)]
    <2>1. l \in DOMAIN acc /\ acc[l] \in TextBlocks
      <3>1. l \in 1..l /\ DOMAIN acc = 1..l
        BY <1>4, EmptySeq, LenProperties DEF RunsOn
      <3>2. acc[l] \in Becomes(doc) /\ acc[l].type = "text"
        BY <1>4, <3>1, ElementOfSeq DEF RunsOn, Last
      <3> QED
        <4>1. acc[l] \notin Tables(doc)
          <5>1. ASSUME NEW x \in Tables(doc) PROVE x.type = "table"
            <6>1. PICK i \in DOMAIN doc : x = [type |-> "table", texts |-> <<doc[i].text>> \o Cells(doc[i])]
              BY Zenon DEF Tables
            <6> QED
              BY <6>1
          <5> QED
            BY <3>2, <5>1
        <4> QED
          BY <3>1, <3>2, <4>1 DEF Becomes
    <2>2. /\ b \in TextBlocks
          /\ ToSet(acc[l].texts) \subseteq ToSet(b.texts) /\ e.text \in ToSet(b.texts)
      <3> DEFINE old == acc[l]
      <3> HIDE DEF l
      <3>2. old \in TextBlocks /\ old.texts \in Seq(STRING) /\ Append(old.texts, e.text) \in Seq(STRING)
        BY <1>1, <2>1 DEF TextBlocks
      <3> HIDE DEF old
      <3>3. [old EXCEPT !.texts = Append(@, e.text)] \in TextBlocks
            /\ [old EXCEPT !.texts = Append(@, e.text)].texts = Append(old.texts, e.text)
        BY <3>2 DEF TextBlocks
      <3>1. acc[l].texts \in Seq(STRING) /\ b.texts = Append(acc[l].texts, e.text) /\ b \in TextBlocks
        BY <3>2, <3>3 DEF old
      <3> QED
        BY <1>1, <3>1, AppendToSet
    <2>3. /\ PdfLine(acc, e) = [acc EXCEPT ![l] = b]
      BY <1>4, <2>1
    <2> HIDE DEF b, l
    <2>4. /\ PdfLine(acc, e) \in Seq(Becomes(doc)) /\ DOMAIN PdfLine(acc, e) = DOMAIN acc
          /\ PdfLine(acc, e)[l] = b /\ \A j \in DOMAIN acc \ {l} : PdfLine(acc, e)[j] = acc[j]
      BY <2>1, <2>2, <2>3 DEF Becomes
    <2> QED
      BY <2>1, <2>2, <2>4 DEF Listed
  <1>5. \/ Known(acc, e)
        \/ \E t \in {"text", "section"} : PdfLine(acc, e) = Append(acc, TextOf(t, e))
        \/ RunsOn(acc) /\ PdfLine(acc, e) = [acc EXCEPT ![Len(acc)].texts = Append(@, e.text)]
    BY DEF PdfLine, Block, Paragraph, TextOf
  <1> QED
    BY <1>2, <1>3, <1>4, <1>5

\* The lines put into the blocks.
LinesInto(blocks, lines) == FoldLeft(PdfLine, blocks, lines)

\* The lines go into the blocks one by one.
LEMMA BlocksRun ==
    ASSUME NEW doc \in Seq(Elements), NEW lines \in Seq(LineRows)
    PROVE  \E run :
              /\ run[0] = TablesIn(doc) /\ LinesInto(TablesIn(doc), lines) = run[Len(lines)]
              /\ \A i \in 1..Len(lines) : run[i] = PdfLine(run[i - 1], lines[i])
  <1> DEFINE n == Len(lines)
             B == Seq(Becomes(doc))
             step == [x \in B \X (1..n) |-> PdfLine(x[1], lines[x[2]])]
  <1>1. n \in Nat /\ DOMAIN lines = 1..n
    BY LenProperties
  <1>2. ASSUME NEW acc \in B, NEW i \in 1..n PROVE PdfLine(acc, lines[i]) \in B
    BY <1>1, ElementOfSeq, PdfLineKept
  <1>3. /\ step \in [B \X (1..n) -> B] /\ TablesIn(doc) \in B
        /\ \A acc \in B, i \in 1..n : step[<<acc, i>>] = PdfLine(acc, lines[i])
    <2>1. TablesIn(doc) \in B
      BY TablesAreBlocks
    <2> HIDE DEF B, n
    <2>2. \A x \in B \X (1..n) : x[1] \in B /\ x[2] \in 1..n
      OBVIOUS
    <2>3. step \in [B \X (1..n) -> B]
      BY <1>2, <2>2
    <2>4. \A acc \in B, i \in 1..n : step[<<acc, i>>] = PdfLine(acc, lines[i])
      OBVIOUS
    <2> QED
      BY <2>1, <2>3, <2>4
  <1> HIDE DEF n, B, step
  <1>4. PICK g \in [SUBSET (1..n) -> B] : FoldsBy(g, n, TablesIn(doc), step)
    BY <1>1, <1>3, FoldExists
  <1>5. \A s \in SUBSET (1..n) :
           g[s] = IF s = {} THEN TablesIn(doc) ELSE PdfLine(g[s \ {Max(s)}], lines[Max(s)])
    <2>1. ASSUME NEW s \in SUBSET (1..n), s # {} PROVE Max(s) \in 1..n
      BY <1>1, <2>1, MaxIn
    <2>2. ASSUME NEW s \in SUBSET (1..n) PROVE g[s \ {Max(s)}] \in B
      OBVIOUS
    <2>3. ASSUME NEW s \in SUBSET (1..n), s # {}
          PROVE  g[s] = PdfLine(g[s \ {Max(s)}], lines[Max(s)])
      <3>1. g[s] = step[<<g[s \ {Max(s)}], Max(s)>>]
        BY <1>4, <2>3 DEF FoldsBy
      <3> QED
        BY <1>3, <2>1, <2>2, <2>3, <3>1
    <2> QED
      BY <1>4, <2>3 DEF FoldsBy
  <1>6. g = [s \in SUBSET DOMAIN lines |->
               IF s = {} THEN TablesIn(doc) ELSE PdfLine(g[s \ {Max(s)}], lines[Max(s)])]
    BY <1>1, <1>5
  <1>7. PICK f : /\ f = [s \in SUBSET DOMAIN lines |->
                           IF s = {} THEN TablesIn(doc) ELSE PdfLine(f[s \ {Max(s)}], lines[Max(s)])]
                 /\ LinesInto(TablesIn(doc), lines) = f[DOMAIN lines]
    BY <1>6, Zenon DEF LinesInto, FoldLeft, MapThenFoldSet
  <1>8. f[{}] = TablesIn(doc)
    BY <1>7
  <1>9. ASSUME NEW i \in 1..n PROVE f[1..i] = PdfLine(f[1..(i - 1)], lines[i])
    BY <1>1, <1>7, FoldRuns
  <1> DEFINE run == [i \in 0..n |-> f[1..i]]
  <1>10. run[0] = TablesIn(doc) /\ LinesInto(TablesIn(doc), lines) = run[n]
    <2>1. 1..0 = {} /\ 0 \in 0..n /\ n \in 0..n
      BY <1>1
    <2> QED
      BY <1>1, <1>7, <1>8, <2>1
  <1>11. \A i \in 1..n : run[i] = PdfLine(run[i - 1], lines[i])
    <2>1. \A i \in 1..n : i \in 0..n /\ i - 1 \in 0..n
      BY <1>1
    <2> QED
      BY <1>9, <2>1
  <1> QED
    BY <1>10, <1>11 DEF n

\* No line is left out.
LEMMA PdfKeepsText ==
    ASSUME NEW doc \in Seq(Elements), NEW i \in DOMAIN doc, doc[i].kind # "table", doc[i].text # ""
    PROVE  doc[i].text \in Listed(pdf_to_blocks(doc))
  <1> DEFINE lines == LinesIn(doc)
             n     == Len(lines)
             t     == doc[i].text
             all   == LinesInto(TablesIn(doc), lines)
             B     == Seq(Becomes(doc))
             Good  == {b \in B : t \in Listed(b)}
  <1>1. lines \in Seq(LineRows)
    BY LinesKeepElements
  <1>2. PICK j \in DOMAIN lines : lines[j] = doc[i]
    BY LinesKeepElements
  <1> HIDE DEF lines
  <1>3. n \in Nat /\ DOMAIN lines = 1..n
    BY <1>1, LenProperties
  <1>4. PICK run : /\ run[0] = TablesIn(doc) /\ all = run[n]
                   /\ \A k \in 1..n : run[k] = PdfLine(run[k - 1], lines[k])
    BY <1>1, BlocksRun
  <1>5. TablesIn(doc) \in B
    BY TablesAreBlocks
  <1>6. ASSUME NEW k \in 1..n, run[k - 1] \in B
        PROVE  /\ run[k] \in B /\ Listed(run[k - 1]) \subseteq Listed(run[k])
               /\ k = j => t \in Listed(run[k])
    <2>1. lines[k] \in LineRows /\ run[k] = PdfLine(run[k - 1], lines[k])
      BY <1>1, <1>4, ElementOfSeq
    <2> QED
      BY <1>2, <1>6, <2>1, PdfLineKept
  <1> HIDE DEF n, B, all
  <1>7. /\ \A k \in 0..n : run[k] \in B
        /\ j \in 1..n /\ j - 1 \in 0..n /\ j \in 0..n
    <2>1. \A k \in 0..n : run[k] \in B
      BY <1>3, <1>4, <1>5, <1>6, RunStays
    <2>2. j \in 1..n
      BY <1>2, <1>3
    <2> QED
      BY <1>3, <2>1, <2>2, PositionsKnown
  <1>8. t \in Listed(all)
    <2>1. run[j] \in Good
      BY <1>6, <1>7
    <2>2. \A k \in 1..n : run[k - 1] \in Good => run[k] \in Good
      BY <1>6
    <2> HIDE DEF Good
    <2>3. run[n] \in Good
      BY <1>3, <1>7, <2>1, <2>2, RunKeeps
    <2> QED
      BY <1>4, <2>3 DEF Good
  <1>9. all # <<>>
    BY <1>8, NothingListed
  <1>10. pdf_to_blocks(doc) = all
    BY <1>9, Zenon DEF pdf_to_blocks, all, lines, LinesIn, TablesIn, Tabled, LinesInto
  <1> QED
    BY <1>8, <1>10

-----------------------------------------------------------------------------

\* What is imported is what the parser of its format made of a document.
ImportInvariant ==
    \/ imported = NothingImported
    \/ \E d \in Documents : \E f \in {d.hint, Detected(d.bytes, d.hint)} :
          imported = [doc |-> d.body, by |-> f, blocks |-> Parsed(f, d.body)]

\* A step is an import or leaves what is imported as it is.
LEMMA ImportSteps == Next => ImportNext \/ UNCHANGED importVars
  BY DEF Next, TemplateBuilder, PromptBuilder, DocAI

\* The template is always what the document was parsed to (save_template).
THEOREM ImportInvariantHolds == Spec => []ImportInvariant
  <1>1. Init => ImportInvariant
    BY DEF Init, ImportInit, ImportInvariant
  <1>2. ImportInvariant /\ [Next]_documentVars => ImportInvariant'
    <2>1. ASSUME ImportNext PROVE ImportInvariant'
      BY <2>1 DEF ImportNext, import_template_file, import_template_url, save_template, ImportInvariant
    <2>2. ASSUME ImportInvariant, UNCHANGED importVars PROVE ImportInvariant'
      BY <2>2 DEF importVars, ImportInvariant
    <2> QED
      BY <2>1, <2>2, ImportSteps DEF documentVars
  <1> QED
    BY <1>1, <1>2, PTL DEF Spec

\* However long a document is, its headings and its paragraphs are in the template
\* it becomes, and its lists, too, unless it is an HTML page.
THEOREM ImportKeepsTextHolds == Spec => []ImportKeepsText
  <1>1. ASSUME ImportInvariant PROVE ImportKeepsText
    <2>1. CASE imported = NothingImported
      BY <2>1 DEF NothingImported, ImportKeepsText
    <2>2. ASSUME NEW d \in Documents, NEW f,
                 imported = [doc |-> d.body, by |-> f, blocks |-> Parsed(f, d.body)]
          PROVE  ImportKeepsText
      <3> DEFINE doc    == d.body
                 blocks == Parsed(f, doc)
                 kept   == {"head", "bold", "para"} \cup (IF f = "html" THEN {} ELSE {"list"})
      <3>1. doc \in Seq(Elements)
        BY ImportAssumption
      <3>2. imported.doc = doc /\ imported.by = f /\ imported.blocks = blocks
        BY <2>2
      <3>3. ASSUME f \in {"html", "docx", "pdf"}, NEW i \in DOMAIN doc, doc[i].kind \in kept, doc[i].text # ""
            PROVE  doc[i].text \in Listed(blocks)
        <4>1. CASE f = "html"
          <5>1. blocks = html_to_blocks(doc) /\ doc[i].kind \notin {"table", "list"}
            BY <3>3, <4>1 DEF Parsed
          <5> QED
            BY <3>1, <3>3, <5>1, HtmlKeepsText
        <4>2. CASE f = "docx"
          <5>1. blocks = docx_to_blocks(doc) /\ doc[i].kind # "table"
            BY <3>3, <4>2 DEF Parsed
          <5> QED
            BY <3>1, <3>3, <5>1, DocxKeepsText
        <4>3. CASE f = "pdf"
          <5>1. blocks = pdf_to_blocks(doc) /\ doc[i].kind # "table"
            BY <3>3, <4>3 DEF Parsed
          <5> QED
            BY <3>1, <3>3, <5>1, PdfKeepsText
        <4> QED
          BY <3>3, <4>1, <4>2, <4>3
      <3> HIDE DEF doc, blocks, kept
      <3> DEFINE texts == {doc[i].text : i \in {k \in DOMAIN doc : doc[k].kind \in kept}} \ {""}
      <3>4. ASSUME f \in {"html", "docx", "pdf"} PROVE texts \subseteq Listed(blocks)
        BY <3>3, <3>4
      <3> QED
        BY <3>2, <3>4 DEF ImportKeepsText, Listed, kept
    <2> QED
      BY <1>1, <2>1, <2>2 DEF ImportInvariant
  <1> QED
    BY <1>1, ImportInvariantHolds, PTL

-----------------------------------------------------------------------------
(* Runs of prompts and their evaluations.                                    *)

\* The stages of a run, and the fields a request has once it was answered.
Stages == {"none", "load", "llm", "persist", "evaluate", "document", "done", "crashed"}

AnsweredFields == {"pc", "kind", "on", "guard", "case", "checks", "missing", "free", "ans", "result", "raised"}

\* A request that has its answer, or had it when it ended.
Answered(r) ==
    \/ preq[r].pc \in {"persist", "document"}
    \/ preq[r].pc = "done" /\ "guard" \in DOMAIN preq[r]

\* The types of the tables; a request is typed where it stands.
PromptTyped ==
    /\ prm \in [Prompts -> PromptRows \cup {NoPrompt}]
    /\ prun \in [Runs -> RunRows \cup {NoRun}]
    /\ told \in [Runs -> {"nothing", "success", "error"}]
    /\ tcase \in [Cases -> CaseRow \cup {NoCase, GoneCase}]
    /\ evals \subseteq [run : Runs \cup {0}, case : Cases \cup {NoCase}, on : Prompts, passed : BOOLEAN]
    /\ sweep \subseteq Cases /\ docs \subseteq Runs
    /\ DOMAIN preq = Runs

RequestTyped(r) ==
    /\ preq[r].pc \in Stages
    /\ preq[r].pc \in {"load", "llm", "persist", "evaluate", "document"} =>
          preq[r].on \in Prompts /\ preq[r].checks \in BOOLEAN
    /\ preq[r].pc \in {"load", "llm", "persist", "evaluate"} => preq[r].case \in Cases \cup {NoCase}
    /\ preq[r].pc = "load" => preq[r].params \in ParamSets /\ prm[preq[r].on] \in PromptRows
    /\ Answered(r) => DOMAIN preq[r] = AnsweredFields /\ preq[r].result \in {"success", "error"}

\* What is left open in a prompt that was compiled is optional, and an answer
\* that counts as a success broke none of the guardrails.
AnswerJudged(r) ==
    /\ preq[r].pc = "llm" \/ Answered(r) => preq[r].missing \subseteq preq[r].free
    /\ Answered(r) /\ preq[r].result = "success" =>
          preq[r].ans.taint \cap preq[r].guard = {} /\ preq[r].ans.json /\ ~preq[r].raised
    /\ preq[r].pc = "document" => preq[r].result = "success"
    /\ preq[r].pc \in {"none", "load", "llm", "persist", "document"} => told[r] = "nothing" /\ r \notin docs
    /\ Answered(r) /\ (told[r] = "success" \/ r \in docs) => preq[r].result = "success"

\* The row of a run follows its request.
RunRecorded(r) ==
    /\ preq[r].pc \in {"none", "load"} => prun[r] = NoRun
    /\ preq[r].pc \in {"llm", "persist", "evaluate"} /\ prun[r] # NoRun => prun[r].on = preq[r].on
    /\ preq[r].pc \in {"llm", "persist"} /\ prun[r] # NoRun => prun[r].status = "running"
    /\ preq[r].pc = "evaluate" => preq[r].error \in BOOLEAN /\ preq[r].run \in BOOLEAN
    /\ preq[r].pc = "evaluate" /\ ~preq[r].error => preq[r].run /\ (prun[r] # NoRun => prun[r].status # "error")

\* A case that is being run is of the prompt it is run for as long as it exists.
CaseKept(r) ==
    preq[r].pc \in {"load", "llm", "persist", "evaluate"} /\ preq[r].case # NoCase =>
        /\ tcase[preq[r].case] # NoCase
        /\ tcase[preq[r].case] # GoneCase => tcase[preq[r].case].on = preq[r].on

RunFits(r) == RequestTyped(r) /\ AnswerJudged(r) /\ RunRecorded(r) /\ CaseKept(r)

\* The runs that were evaluated are over.
EvaluatedDone == \A e \in evals : e.run # 0 => preq[e.run].pc = "done"

PromptInvariant ==
    PromptTyped /\ (\A r \in Runs : RunFits(r)) /\ EvaluatedDone /\ EvaluationTraceable

\* The steps of Prompt Builder.
PromptStep ==
    \/ NewPrompts \/ RunPrompts \/ TestPrompts
    \/ \E p \in Prompts : EditPrompt(p)

\* Every step is one on prompts, or leaves their tables as they are.
LEMMA PromptSteps == Next => PromptStep \/ UNCHANGED promptVars
  <1>1. create_prompt(1) => NewPrompts
    BY ServicesAssumption DEF NewPrompts
  <1>2. EditPrompt(1) => \E p \in Prompts : EditPrompt(p)
    BY ServicesAssumption
  <1>3. PromptInputs => \E p \in Prompts : EditPrompt(p)
    BY DEF PromptInputs, EditPrompt
  <1>4. Next => PromptBuilder \/ UNCHANGED promptVars
    BY DEF Next, TemplateBuilder, DocAI
  <1> QED
    BY <1>1, <1>2, <1>3, <1>4 DEF PromptBuilder, PromptStep

\* A prompt that is one stays one, and a case stays of its prompt until it is
\* deleted, for good.
PromptsStay == \A p \in Prompts : prm[p] \in PromptRows => prm'[p] \in PromptRows

\* A test case keeps its prompt until it is deleted, for good.
CasesStay ==
    \A c \in Cases : tcase[c] # NoCase =>
        /\ tcase'[c] # NoCase
        /\ tcase'[c] # GoneCase => tcase[c] # GoneCase /\ tcase'[c].on = tcase[c].on

\* Nothing is done to the run o.
Unmoved(o) ==
    preq'[o] = preq[o] /\ prun'[o] = prun[o] /\ told'[o] = told[o] /\ (o \in docs' <=> o \in docs)

\* A run that nothing is done to fits as it did.
LEMMA UnmovedFits ==
    ASSUME NEW o \in Runs, RunFits(o), Unmoved(o), PromptsStay, CasesStay
    PROVE  RunFits(o)'
  <1>1. Answered(o)' <=> Answered(o)
    BY DEF Unmoved, Answered
  <1>2. RequestTyped(o)'
    BY <1>1 DEF RunFits, RequestTyped, Unmoved, PromptsStay
  <1>3. AnswerJudged(o)'
    BY <1>1 DEF RunFits, AnswerJudged, Unmoved
  <1>4. RunRecorded(o)'
    BY DEF RunFits, RunRecorded, Unmoved
  <1>5. CaseKept(o)'
    BY DEF RunFits, RequestTyped, CaseKept, Unmoved, CasesStay
  <1> QED
    BY <1>2, <1>3, <1>4, <1>5 DEF RunFits

\* Evaluations that are on record stay traceable while their cases do, and
\* while nothing is done to runs that are over.
LEMMA EvaluationsStay ==
    ASSUME PromptInvariant, evals' = evals, CasesStay, tcase' \in [Cases -> CaseRow \cup {NoCase, GoneCase}],
           \A c \in Cases : tcase[c] # GoneCase => tcase'[c] # GoneCase,
           \A o \in Runs : preq[o].pc = "done" => preq'[o].pc = "done" /\ prun'[o] = prun[o]
    PROVE  EvaluatedDone' /\ EvaluationTraceable'
  <1>1. \A e \in evals : (e.run # 0 => e.run \in Runs /\ preq[e.run].pc = "done") /\ e.case \in Cases \cup {NoCase}
    BY DEF PromptInvariant, PromptTyped, EvaluatedDone
  <1>2. EvaluatedDone'
    BY <1>1 DEF EvaluatedDone
  <1>3. ASSUME NEW e \in evals PROVE e.case # NoCase => e.case \in CaseRows' /\ tcase'[e.case].on = e.on
    BY <1>1 DEF PromptInvariant, EvaluationTraceable, CaseRows, CasesStay
  <1>4. ASSUME NEW e \in evals
        PROVE  /\ e.run # 0 => prun'[e.run] # NoRun /\ prun'[e.run].on = e.on
               /\ e.passed => e.run # 0 /\ prun'[e.run].status # "error"
    BY <1>1 DEF PromptInvariant, EvaluationTraceable
  <1> QED
    BY <1>2, <1>3, <1>4 DEF EvaluationTraceable

\* A step of the run r, which is not over.
LEMMA RunMoves ==
    ASSUME PromptInvariant, NEW r \in Runs, preq[r].pc # "done",
           UNCHANGED <<prm, tcase, evals>>, sweep' \subseteq Cases, docs' \subseteq Runs,
           DOMAIN preq' = Runs, prun' \in [Runs -> RunRows \cup {NoRun}],
           told' \in [Runs -> {"nothing", "success", "error"}],
           \A o \in Runs : o # r => Unmoved(o),
           RunFits(r)'
    PROVE  PromptInvariant'
  <1>1. PromptTyped'
    BY DEF PromptInvariant, PromptTyped
  <1>2. PromptsStay /\ CasesStay
    BY DEF PromptsStay, CasesStay
  <1>3. \A o \in Runs : RunFits(o)'
    BY <1>2, UnmovedFits DEF PromptInvariant
  <1>4. EvaluatedDone' /\ EvaluationTraceable'
    BY <1>2, EvaluationsStay DEF PromptInvariant, PromptTyped, Unmoved
  <1> QED
    BY <1>1, <1>3, <1>4 DEF PromptInvariant

\* Editing prompts and cases leaves runs and evaluations as they fit.
LEMMA PromptUntouched ==
    ASSUME PromptInvariant, UNCHANGED runVars, PromptsStay, CasesStay,
           prm' \in [Prompts -> PromptRows \cup {NoPrompt}], tcase' \in [Cases -> CaseRow \cup {NoCase, GoneCase}],
           \A c \in Cases : tcase[c] # GoneCase => tcase'[c] # GoneCase
    PROVE  PromptInvariant'
  <1>1. PromptTyped'
    BY DEF PromptInvariant, PromptTyped, runVars
  <1>2. \A o \in Runs : RunFits(o)'
    BY UnmovedFits DEF PromptInvariant, Unmoved, runVars
  <1>3. EvaluatedDone' /\ EvaluationTraceable'
    BY EvaluationsStay DEF runVars
  <1> QED
    BY <1>1, <1>2, <1>3 DEF PromptInvariant

-----------------------------------------------------------------------------

\* So does writing one row.
LEMMA PromptRewritten ==
    ASSUME PromptInvariant, NEW p \in Prompts, NEW row \in PromptRows,
           prm' = [prm EXCEPT ![p] = row], UNCHANGED <<runVars, tcase>>
    PROVE  PromptInvariant'
  <1>1. prm' \in [Prompts -> PromptRows \cup {NoPrompt}] /\ PromptsStay
    BY DEF PromptInvariant, PromptTyped, PromptsStay
  <1> QED
    BY <1>1, PromptUntouched DEF PromptInvariant, PromptTyped, CasesStay

\* The versions of a prompt.
PromptVersionRows == [status : {"draft", "published", "archived"}, guard : Guards]

\* The fields of a row, each of which can be replaced.
LEMMA PromptFields ==
    ASSUME NEW x \in PromptRows
    PROVE  /\ x.blocks \subseteq PNames /\ x.inputs \subseteq InputDefs /\ x.bindings \subseteq BindDefs
           /\ x.vers \in Seq(PromptVersionRows)
           /\ \A st \in {"draft", "archived"} : [x EXCEPT !.status = st] \in PromptRows
           /\ \A B \in SUBSET PNames : [x EXCEPT !.blocks = B] \in PromptRows
           /\ \A I \in SUBSET InputDefs : [x EXCEPT !.inputs = I] \in PromptRows
           /\ \A B \in SUBSET BindDefs : [x EXCEPT !.bindings = B] \in PromptRows
           /\ \A V \in Seq(PromptVersionRows) : [x EXCEPT !.vers = V] \in PromptRows
           /\ [x EXCEPT !.status = "draft", !.vers = <<>>] \in PromptRows
  <1> DEFINE S == Seq(PromptVersionRows)
             R == [status : {"draft", "archived"}, blocks : SUBSET PNames, inputs : SUBSET InputDefs,
                   bindings : SUBSET BindDefs, vers : S]
  <1>1. x \in R /\ R = PromptRows /\ <<>> \in S
    BY DEF PromptRows, PromptVersionRows
  <1> HIDE DEF S
  <1>2. /\ x.blocks \subseteq PNames /\ x.inputs \subseteq InputDefs /\ x.bindings \subseteq BindDefs
        /\ x.vers \in S
    BY <1>1
  <1>3. ASSUME NEW st \in {"draft", "archived"}
        PROVE  [x EXCEPT !.status = st] \in R /\ [x EXCEPT !.status = "draft", !.vers = <<>>] \in R
    BY <1>1
  <1>4. ASSUME NEW B \in SUBSET PNames PROVE [x EXCEPT !.blocks = B] \in R
    BY <1>1
  <1>5. ASSUME NEW I \in SUBSET InputDefs PROVE [x EXCEPT !.inputs = I] \in R
    BY <1>1
  <1>6. ASSUME NEW B \in SUBSET BindDefs PROVE [x EXCEPT !.bindings = B] \in R
    BY <1>1
  <1>7. ASSUME NEW V \in S PROVE [x EXCEPT !.vers = V] \in R
    BY <1>1
  <1> HIDE DEF R
  <1>8. \A V \in Seq(PromptVersionRows) : [x EXCEPT !.vers = V] \in PromptRows
    BY <1>1, <1>7 DEF S
  <1>9. x.vers \in Seq(PromptVersionRows)
    BY <1>2 DEF S
  <1> QED
    BY <1>1, <1>2, <1>3, <1>4, <1>5, <1>6, <1>8, <1>9

\* A new prompt has no runs.
LEMMA PromptsMade ==
    ASSUME PromptInvariant, NewPrompts
    PROVE  PromptInvariant'
  <1>1. PICK p \in Prompts : create_prompt(p) \/ \E q \in Prompts : duplicate_prompt(p, q)
    BY DEF NewPrompts
  <1>2. CASE create_prompt(p)
    <2>1. [status |-> "draft", blocks |-> {}, inputs |-> {}, bindings |-> {}, vers |-> <<>>] \in PromptRows
      BY DEF PromptRows
    <2> QED
      BY <1>2, <2>1, PromptRewritten DEF create_prompt, AddPrompt
  <1>3. ASSUME NEW q \in Prompts, duplicate_prompt(p, q) PROVE PromptInvariant'
    <2>1. prm[q] \in PromptRows
      BY <1>3 DEF duplicate_prompt, Made, PromptInvariant, PromptTyped
    <2>2. [prm[q] EXCEPT !.status = "draft", !.vers = <<>>] \in PromptRows
      BY <2>1, PromptFields
    <2> QED
      BY <1>3, <2>2, PromptRewritten DEF duplicate_prompt, AddPrompt
  <1> QED
    BY <1>1, <1>2, <1>3

\* An edit of a prompt, whatever it replaces, leaves its runs as they fit.
LEMMA PromptEdited ==
    ASSUME PromptInvariant, NEW p \in Prompts, EditPrompt(p)
    PROVE  PromptInvariant'
  <1>1. p \in Made /\ UNCHANGED <<runVars, tcase>>
    BY DEF EditPrompt, PublishVersion, update_prompt, replace_prompt_blocks, replace_prompt_inputs,
           replace_prompt_context_bindings, DraftVersion
  <1>2. prm[p] \in PromptRows /\ p \in DOMAIN prm
    BY <1>1 DEF Made, PromptInvariant, PromptTyped
  <1>3. CASE PublishVersion(p)
    <2> DEFINE n == Len(prm[p].vers)
               V == [i \in 1..n |-> [prm[p].vers[i] EXCEPT !.status = IF i = n THEN "published" ELSE "archived"]]
    <2>1. prm[p].vers \in Seq(PromptVersionRows)
      BY <1>2, PromptFields
    <2>2. n \in Nat /\ \A i \in 1..n : prm[p].vers[i] \in PromptVersionRows
      BY <2>1
    <2>3. ASSUME NEW i \in 1..n PROVE V[i] \in PromptVersionRows
      <3> DEFINE st == IF i = n THEN "published" ELSE "archived"
      <3>1. st \in {"draft", "published", "archived"} /\ V[i] = [prm[p].vers[i] EXCEPT !.status = st]
        OBVIOUS
      <3> HIDE DEF st, V
      <3>2. prm[p].vers[i] \in [status : {"draft", "published", "archived"}, guard : Guards]
        BY <2>2 DEF PromptVersionRows
      <3>3. [prm[p].vers[i] EXCEPT !.status = st] \in [status : {"draft", "published", "archived"}, guard : Guards]
        BY <3>1, <3>2
      <3> QED
        BY <3>1, <3>3 DEF PromptVersionRows
    <2>4. V \in Seq(PromptVersionRows)
      <3>1. V \in [1..n -> PromptVersionRows]
        BY <2>3
      <3> HIDE DEF V
      <3> QED
        BY <2>2, <3>1
    <2>5. prm' = [prm EXCEPT ![p] = [prm[p] EXCEPT !.vers = V]]
      BY <1>3 DEF PublishVersion
    <2> HIDE DEF V
    <2> QED
      BY <1>1, <1>2, <2>4, <2>5, PromptFields, PromptRewritten
  <1>4. CASE \E st \in {"draft", "archived"} : update_prompt(p, st)
    BY <1>1, <1>2, <1>4, PromptFields, PromptRewritten DEF update_prompt
  <1>5. CASE \E B \in SUBSET PNames : replace_prompt_blocks(p, B)
    BY <1>1, <1>2, <1>5, PromptFields, PromptRewritten DEF replace_prompt_blocks
  <1>6. CASE \E I \in SUBSET InputDefs : replace_prompt_inputs(p, I)
    BY <1>1, <1>2, <1>6, PromptFields, PromptRewritten DEF replace_prompt_inputs
  <1>7. CASE \E B \in SUBSET BindDefs : replace_prompt_context_bindings(p, B)
    BY <1>1, <1>2, <1>7, PromptFields, PromptRewritten DEF replace_prompt_context_bindings
  <1>8. ASSUME NEW g \in Guards, DraftVersion(p, g) PROVE PromptInvariant'
    <2>1. [status |-> "draft", guard |-> g] \in PromptVersionRows
      BY DEF PromptVersionRows
    <2> DEFINE v == [status |-> "draft", guard |-> g]
    <2> HIDE DEF v
    <2>4. prm[p].vers \in Seq(PromptVersionRows)
      BY <1>2, PromptFields
    <2>2. Append(prm[p].vers, v) \in Seq(PromptVersionRows)
      BY <2>1, <2>4 DEF v
    <2>3. prm' = [prm EXCEPT ![p] = [prm[p] EXCEPT !.vers = Append(prm[p].vers, v)]]
      BY <1>8 DEF DraftVersion, v
    <2> QED
      BY <1>1, <1>2, <2>2, <2>3, PromptFields, PromptRewritten
  <1> QED
    BY <1>3, <1>4, <1>5, <1>6, <1>7, <1>8 DEF EditPrompt

-----------------------------------------------------------------------------

\* A run begins on a prompt there is, with nothing on record.
LEMMA RunBegun ==
    ASSUME PromptInvariant, NEW r \in Runs, NEW kind, NEW p \in Prompts, NEW spec, NEW allow,
           NEW params \in ParamSets, NEW c \in Cases \cup {NoCase}, NEW checks \in BOOLEAN,
           BeginRun(r, kind, p, spec, allow, params, c, checks), sweep' \subseteq Cases,
           c # NoCase => c \in CaseRows /\ tcase[c].on = p
    PROVE  PromptInvariant'
  <1>1. /\ preq[r].pc = "none" /\ p \in Made
        /\ UNCHANGED <<prm, prun, told, tcase, evals, docs>>
    BY DEF BeginRun, Unstarted
  <1>2. /\ preq'[r].pc = "load" /\ preq'[r].on = p /\ preq'[r].params = params
        /\ preq'[r].case = c /\ preq'[r].checks = checks
        /\ \A o \in Runs : o # r => preq'[o] = preq[o]
        /\ DOMAIN preq' = Runs
    BY DEF BeginRun, PromptInvariant, PromptTyped
  <1>3. prun[r] = NoRun /\ told[r] = "nothing" /\ r \notin docs
    BY <1>1 DEF PromptInvariant, RunFits, RunRecorded, AnswerJudged
  <1>4. prm'[p] \in PromptRows
    BY <1>1 DEF PromptInvariant, PromptTyped, Made
  <1>5. RequestTyped(r)'
    BY <1>2, <1>4 DEF RequestTyped, Answered, Stages
  <1>6. AnswerJudged(r)' /\ RunRecorded(r)'
    BY <1>1, <1>2, <1>3 DEF AnswerJudged, RunRecorded, Answered
  <1>7. CaseKept(r)'
    BY <1>1, <1>2 DEF CaseKept, CaseRows
  <1> QED
    BY <1>1, <1>2, <1>5, <1>6, <1>7, RunMoves DEF PromptInvariant, PromptTyped, RunFits, Unmoved

\* Whoever asks for it, a run begins without a row and an answer.
LEMMA BeginningsFit ==
    ASSUME PromptInvariant, NEW r \in Runs,
           \/ \E p \in Prompts, spec \in {"latest", "published"}, allow \in BOOLEAN, params \in ParamSets :
                 execute_prompt(r, p, spec, allow, params) \/ BeginDocument(r, p, spec, allow, params)
           \/ \E p \in Prompts, allow \in BOOLEAN, params \in ParamSets, checks \in BOOLEAN :
                 BeginAdHocTest(r, p, allow, params, checks)
           \/ \E c \in Cases : SweepCase(r, c) \/ \E allow \in BOOLEAN : BeginTest(r, c, allow)
    PROVE  PromptInvariant'
  <1>1. sweep \subseteq Cases /\ NoCase \notin Cases
    BY PromptAssumption DEF PromptInvariant, PromptTyped
  <1>2. ASSUME NEW c \in Cases, c \in CaseRows
        PROVE  tcase[c].on \in Prompts /\ tcase[c].params \in ParamSets /\ tcase[c].checks \in BOOLEAN
    BY <1>2 DEF PromptInvariant, PromptTyped, CaseRows, CaseRow
  <1>3. ASSUME NEW p \in Prompts, NEW spec, NEW allow, NEW params \in ParamSets,
               execute_prompt(r, p, spec, allow, params) \/ BeginDocument(r, p, spec, allow, params)
        PROVE  PromptInvariant'
    BY <1>1, <1>3, RunBegun DEF execute_prompt, BeginDocument
  <1>4. ASSUME NEW p \in Prompts, NEW allow, NEW params \in ParamSets, NEW checks \in BOOLEAN,
               BeginAdHocTest(r, p, allow, params, checks)
        PROVE  PromptInvariant'
    BY <1>1, <1>4, RunBegun DEF BeginAdHocTest
  <1>5. ASSUME NEW c \in Cases, NEW allow, BeginTest(r, c, allow) PROVE PromptInvariant'
    <2>1. c \in CaseRows /\ sweep' = sweep
      BY <1>5 DEF BeginTest
    <2>2. BeginRun(r, "test", tcase[c].on, "latest", allow, tcase[c].params, c, tcase[c].checks)
      BY <1>5 DEF BeginTest
    <2> QED
      BY <1>1, <1>2, <2>1, <2>2, RunBegun
  <1>6. ASSUME NEW c \in Cases, SweepCase(r, c) PROVE PromptInvariant'
    <2>1. sweep' \subseteq Cases
      BY <1>1, <1>6 DEF SweepCase
    <2>2. CASE c \notin CaseRows
      <3>1. UNCHANGED <<prm, prun, preq, told, tcase, evals, docs>>
        BY <1>6, <2>2 DEF SweepCase
      <3>2. PromptTyped'
        BY <2>1, <3>1 DEF PromptInvariant, PromptTyped
      <3>3. \A o \in Runs : RunFits(o)'
        BY <3>1, UnmovedFits DEF PromptInvariant, Unmoved, PromptsStay, CasesStay
      <3> QED
        BY <3>1, <3>2, <3>3 DEF PromptInvariant, EvaluatedDone, EvaluationTraceable, CaseRows
    <2>3. CASE c \in CaseRows
      <3>1. BeginRun(r, "test", tcase[c].on, "latest", TRUE, tcase[c].params, c, tcase[c].checks)
        BY <1>6, <2>3 DEF SweepCase
      <3> QED
        BY <1>2, <2>1, <2>3, <3>1, RunBegun
    <2> QED
      BY <2>2, <2>3
  <1> QED
    BY <1>3, <1>4, <1>5, <1>6

\* Parameters that are not accepted: the run, if it is recorded, is an error.
LEMMA RunRefused ==
    ASSUME PromptInvariant, NEW r \in Runs, NEW saved \in BOOLEAN, ValidationFails(r, saved)
    PROVE  PromptInvariant'
  <1>1. preq[r].pc = "load" /\ UNCHANGED <<prm, tcase, evals, sweep, docs>>
    BY DEF ValidationFails
  <1>2. /\ preq[r].on \in Prompts /\ preq[r].checks \in BOOLEAN /\ preq[r].case \in Cases \cup {NoCase}
        /\ prun[r] = NoRun /\ r \notin docs
    BY <1>1 DEF PromptInvariant, RunFits, RequestTyped, RunRecorded, AnswerJudged
  <1>3. /\ preq'[r].pc \in {"evaluate", "done"} /\ preq'[r].on = preq[r].on /\ preq'[r].case = preq[r].case
        /\ preq'[r].checks = preq[r].checks /\ preq'[r].run = FALSE /\ preq'[r].error = TRUE
        /\ "guard" \notin DOMAIN preq'[r]
        /\ \A o \in Runs : o # r => preq'[o] = preq[o]
        /\ DOMAIN preq' = Runs
    BY DEF ValidationFails, AfterError, PromptInvariant, PromptTyped
  <1>4. [on |-> preq[r].on, status |-> "error"] \in RunRows
    BY <1>2 DEF RunRows
  <1>5. /\ prun' \in [Runs -> RunRows \cup {NoRun}]
        /\ prun'[r] # NoRun => prun'[r].on = preq[r].on
        /\ \A o \in Runs : o # r => prun'[o] = prun[o]
    BY <1>2, <1>4 DEF ValidationFails, PromptInvariant, PromptTyped
  <1>6. /\ told' \in [Runs -> {"nothing", "success", "error"}]
        /\ \A o \in Runs : o # r => told'[o] = told[o]
    BY DEF ValidationFails, PromptInvariant, PromptTyped
  <1>7. ~Answered(r)'
    BY <1>3 DEF Answered
  <1>8. RequestTyped(r)' /\ AnswerJudged(r)'
    BY <1>1, <1>2, <1>3, <1>7 DEF RequestTyped, AnswerJudged, Stages
  <1>9. RunRecorded(r)'
    BY <1>3, <1>5 DEF RunRecorded
  <1>10. CaseKept(r)'
    BY <1>1, <1>3 DEF CaseKept, PromptInvariant, RunFits
  <1> QED
    BY <1>1, <1>3, <1>5, <1>6, <1>8, <1>9, <1>10, RunMoves DEF PromptInvariant, PromptTyped, RunFits, Unmoved

-----------------------------------------------------------------------------

\* Of a prompt whose inputs accept the parameters only what may be left open is
\* left open, whatever the context gives.
LEMMA LeftOpen ==
    ASSUME NEW x \in PromptRows, NEW params \in ParamSets, validate_runtime_params(x.inputs, params) = {},
           NEW context,
           NEW n \in compile_prompt(x.blocks, params, context)
    PROVE  \/ n \in {i.name : i \in {y \in x.inputs : ~y.required \/ y.default # "none"}}
           \/ n \in PNames \ {i.name : i \in x.inputs}
  <1>1. n \in PNames /\ params[n] = "none"
    BY PromptFields DEF compile_prompt, Given
  <1>2. ASSUME NEW i \in x.inputs, i.name = n PROVE ~i.required \/ i.default # "none"
    <2>1. ~InputError(i, params)
      BY DEF validate_runtime_params
    <2> QED
      BY <1>1, <1>2, <2>1 DEF InputError, _check_type
  <1> QED
    BY <1>1, <1>2

\* A compiled prompt has open what may be open, and its row, if any, is running.
LEMMA RunCompiled ==
    ASSUME PromptInvariant, NEW r \in Runs, NEW up, NEW saved \in BOOLEAN, CompileAndRecord(r, up, saved)
    PROVE  PromptInvariant'
  <1>1. preq[r].pc = "load" /\ UNCHANGED <<prm, told, tcase, evals, sweep, docs>>
    BY DEF CompileAndRecord
  <1>2. /\ preq[r].on \in Prompts /\ preq[r].checks \in BOOLEAN /\ preq[r].case \in Cases \cup {NoCase}
        /\ preq[r].params \in ParamSets /\ prm[preq[r].on] \in PromptRows
        /\ prun[r] = NoRun /\ told[r] = "nothing" /\ r \notin docs
    BY <1>1 DEF PromptInvariant, RunFits, RequestTyped, RunRecorded, AnswerJudged
  <1>3. /\ preq'[r].pc = "llm" /\ preq'[r].on = preq[r].on /\ preq'[r].case = preq[r].case
        /\ preq'[r].checks = preq[r].checks
        /\ \A o \in Runs : o # r => preq'[o] = preq[o]
        /\ DOMAIN preq' = Runs
    BY DEF CompileAndRecord, PromptInvariant, PromptTyped
  <1>4. preq'[r].missing \subseteq preq'[r].free
    <2> DEFINE x == prm[preq[r].on]
               context == resolve_context(x.bindings, preq[r].params, up)
    <2>1. validate_runtime_params(x.inputs, preq[r].params) = {}
      BY DEF CompileAndRecord
    <2>2. /\ preq'[r].missing = compile_prompt(x.blocks, preq[r].params, context)
          /\ preq'[r].free = {i.name : i \in {y \in x.inputs : ~y.required \/ y.default # "none"}}
                             \cup (PNames \ {i.name : i \in x.inputs})
      BY DEF CompileAndRecord, PromptInvariant, PromptTyped
    <2> HIDE DEF context
    <2>3. ASSUME NEW n \in compile_prompt(x.blocks, preq[r].params, context)
          PROVE  \/ n \in {i.name : i \in {y \in x.inputs : ~y.required \/ y.default # "none"}}
                 \/ n \in PNames \ {i.name : i \in x.inputs}
      BY <1>2, <2>1, LeftOpen
    <2> QED
      BY <2>2, <2>3
  <1>5. [on |-> preq[r].on, status |-> "running"] \in RunRows
    BY <1>2 DEF RunRows
  <1>6. /\ prun' \in [Runs -> RunRows \cup {NoRun}]
        /\ prun'[r] # NoRun => prun'[r].on = preq[r].on /\ prun'[r].status = "running"
        /\ \A o \in Runs : o # r => prun'[o] = prun[o]
    BY <1>2, <1>5 DEF CompileAndRecord, PromptInvariant, PromptTyped
  <1>7. RequestTyped(r)' /\ AnswerJudged(r)'
    BY <1>1, <1>2, <1>3, <1>4 DEF RequestTyped, AnswerJudged, Answered, Stages
  <1>8. RunRecorded(r)'
    BY <1>3, <1>6 DEF RunRecorded
  <1>9. CaseKept(r)'
    BY <1>1, <1>3 DEF CaseKept, PromptInvariant, RunFits
  <1> QED
    BY <1>1, <1>3, <1>6, <1>7, <1>8, <1>9, RunMoves DEF PromptInvariant, PromptTyped, RunFits, Unmoved

\* What an answer leads to, or its absence.
LEMMA AnswerRecorded ==
    ASSUME PromptInvariant, NEW r \in Runs, NEW ans, NEW result \in {"success", "error"}, NEW raised \in BOOLEAN,
           result = "success" => ans.taint \cap preq[r].guard = {} /\ ans.json /\ ~raised,
           preq[r].pc = "llm",
           preq' = [preq EXCEPT ![r] =
                       [pc |-> "persist", kind |-> preq[r].kind, on |-> preq[r].on, guard |-> preq[r].guard,
                        case |-> preq[r].case, checks |-> preq[r].checks, missing |-> preq[r].missing,
                        free |-> preq[r].free, ans |-> ans, result |-> result, raised |-> raised]],
           UNCHANGED <<prm, prun, told, tcase, evals, sweep, docs>>
    PROVE  PromptInvariant'
  <1>1. /\ preq[r].on \in Prompts /\ preq[r].checks \in BOOLEAN /\ preq[r].case \in Cases \cup {NoCase}
        /\ preq[r].missing \subseteq preq[r].free /\ told[r] = "nothing" /\ r \notin docs
        /\ prun[r] # NoRun => prun[r].on = preq[r].on /\ prun[r].status = "running"
    BY DEF PromptInvariant, RunFits, RequestTyped, RunRecorded, AnswerJudged
  <1>2. /\ DOMAIN preq' = Runs /\ \A o \in Runs : o # r => preq'[o] = preq[o]
        /\ preq'[r] = [pc |-> "persist", kind |-> preq[r].kind, on |-> preq[r].on, guard |-> preq[r].guard,
                       case |-> preq[r].case, checks |-> preq[r].checks, missing |-> preq[r].missing,
                       free |-> preq[r].free, ans |-> ans, result |-> result, raised |-> raised]
    BY DEF PromptInvariant, PromptTyped
  <1>3. /\ preq'[r].pc = "persist" /\ preq'[r].on = preq[r].on /\ preq'[r].guard = preq[r].guard
        /\ preq'[r].case = preq[r].case /\ preq'[r].checks = preq[r].checks
        /\ preq'[r].missing = preq[r].missing /\ preq'[r].free = preq[r].free
        /\ preq'[r].ans = ans /\ preq'[r].result = result /\ preq'[r].raised = raised
    BY <1>2
  <1>4. DOMAIN preq'[r] = AnsweredFields
    BY <1>2 DEF AnsweredFields
  <1>5. RequestTyped(r)'
    BY <1>1, <1>3, <1>4 DEF RequestTyped, Answered, Stages
  <1>6. AnswerJudged(r)'
    BY <1>1, <1>3 DEF AnswerJudged, Answered
  <1>7. RunRecorded(r)' /\ CaseKept(r)'
    BY <1>1, <1>3 DEF RunRecorded, CaseKept, PromptInvariant, RunFits
  <1> QED
    BY <1>2, <1>5, <1>6, <1>7, RunMoves DEF PromptInvariant, PromptTyped, RunFits, Unmoved

\* The model's answer counts as a success only when the checks let it pass.
LEMMA RunAnswered ==
    ASSUME PromptInvariant, NEW r \in Runs,
           (\E ans \in Answers : Judge(r, ans)) \/ LlmFails(r)
    PROVE  PromptInvariant'
  <1>1. ASSUME NEW ans \in Answers, Judge(r, ans) PROVE PromptInvariant'
    <2> DEFINE result == Outcome(preq[r].guard, ans)
               raised == Blocked(preq[r].guard, ans) # {}
    <2>1. /\ result \in {"success", "error"} /\ raised \in BOOLEAN
          /\ result = "success" => ans.taint \cap preq[r].guard = {} /\ ans.json /\ ~raised
      BY DEF Outcome, Blocked
    <2>2. /\ preq[r].pc = "llm"
          /\ preq' = [preq EXCEPT ![r] =
                       [pc |-> "persist", kind |-> preq[r].kind, on |-> preq[r].on, guard |-> preq[r].guard,
                        case |-> preq[r].case, checks |-> preq[r].checks, missing |-> preq[r].missing,
                        free |-> preq[r].free, ans |-> ans, result |-> result, raised |-> raised]]
          /\ UNCHANGED <<prm, prun, told, tcase, evals, sweep, docs>>
      BY <1>1 DEF Judge
    <2> HIDE DEF result, raised
    <2> QED
      BY <2>1, <2>2, AnswerRecorded
  <1>2. ASSUME LlmFails(r) PROVE PromptInvariant'
    <2> DEFINE ans == [taint |-> {}, json |-> FALSE, good |-> FALSE, names |-> FALSE]
    <2>1. /\ preq[r].pc = "llm"
          /\ preq' = [preq EXCEPT ![r] =
                       [pc |-> "persist", kind |-> preq[r].kind, on |-> preq[r].on, guard |-> preq[r].guard,
                        case |-> preq[r].case, checks |-> preq[r].checks, missing |-> preq[r].missing,
                        free |-> preq[r].free, ans |-> ans, result |-> "error", raised |-> TRUE]]
          /\ UNCHANGED <<prm, prun, told, tcase, evals, sweep, docs>>
      BY <1>2 DEF LlmFails
    <2> HIDE DEF ans
    <2> QED
      BY <2>1, AnswerRecorded
  <1> QED
    BY <1>1, <1>2

-----------------------------------------------------------------------------

\* A run that was answered only changes where it stands.
LEMMA AnswerKept ==
    ASSUME NEW r \in Runs, PromptInvariant, Answered(r), NEW pc,
           preq' = [preq EXCEPT ![r] = [preq[r] EXCEPT !.pc = pc]]
    PROVE  /\ preq'[r].pc = pc /\ DOMAIN preq'[r] = AnsweredFields
           /\ \A f \in AnsweredFields : f # "pc" => preq'[r][f] = preq[r][f]
           /\ DOMAIN preq' = Runs /\ \A o \in Runs : o # r => preq'[o] = preq[o]
  <1>1. DOMAIN preq[r] = AnsweredFields /\ DOMAIN preq = Runs
    BY DEF PromptInvariant, PromptTyped, RunFits, RequestTyped
  <1>2. preq'[r] = [preq[r] EXCEPT !.pc = pc]
    BY <1>1
  <1>3. "pc" \in DOMAIN preq[r]
    BY <1>1 DEF AnsweredFields
  <1> QED
    BY <1>1, <1>2, <1>3

\* The outcome in the row of a run, if it gets there, is the one it has.
LEMMA OutcomeSaved ==
    ASSUME PromptInvariant, NEW r \in Runs, preq[r].pc = "persist", NEW saved \in BOOLEAN,
           prun' = _persist_run_outcome(r, saved)
    PROVE  /\ prun' \in [Runs -> RunRows \cup {NoRun}]
           /\ \A o \in Runs : o # r => prun'[o] = prun[o]
           /\ prun'[r] # NoRun =>
                 prun[r] # NoRun /\ prun'[r].on = preq[r].on /\ prun'[r].status \in {"running", preq[r].result}
  <1>1. preq[r].result \in {"success", "error"}
    BY DEF PromptInvariant, RunFits, RequestTyped, Answered
  <1>2. prun[r] # NoRun => prun[r] \in RunRows /\ prun[r].on = preq[r].on /\ prun[r].status = "running"
    BY DEF PromptInvariant, PromptTyped, RunFits, RunRecorded
  <1>3. CASE saved /\ prun[r] # NoRun
    <2>1. prun' = [prun EXCEPT ![r] = [prun[r] EXCEPT !.status = preq[r].result]]
      BY <1>3 DEF _persist_run_outcome
    <2>2. [prun[r] EXCEPT !.status = preq[r].result] \in RunRows
      BY <1>1, <1>2, <1>3 DEF RunRows
    <2>3. prun'[r] = [prun[r] EXCEPT !.status = preq[r].result]
      BY <2>1 DEF PromptInvariant, PromptTyped
    <2>4. prun'[r].on = prun[r].on /\ prun'[r].status = preq[r].result
      BY <1>2, <1>3, <2>3 DEF RunRows
    <2> QED
      BY <1>2, <1>3, <2>1, <2>2, <2>4 DEF PromptInvariant, PromptTyped
  <1>4. CASE ~(saved /\ prun[r] # NoRun)
    BY <1>2, <1>4 DEF _persist_run_outcome, PromptInvariant, PromptTyped
  <1> QED
    BY <1>3, <1>4

\* A run that ends tells its outcome, or goes on to its evaluation or document.
LEMMA RunEnds ==
    ASSUME PromptInvariant, NEW r \in Runs, NEW saved \in BOOLEAN, run_prompt(r, saved)
    PROVE  PromptInvariant'
  <1>1. /\ preq[r].pc = "persist" /\ Answered(r) /\ prun' = _persist_run_outcome(r, saved)
        /\ UNCHANGED <<prm, tcase, evals, sweep, docs>>
    BY DEF run_prompt, Answered
  <1>2. /\ prun' \in [Runs -> RunRows \cup {NoRun}]
        /\ \A o \in Runs : o # r => prun'[o] = prun[o]
        /\ prun'[r] # NoRun =>
              prun[r] # NoRun /\ prun'[r].on = preq[r].on /\ prun'[r].status \in {"running", preq[r].result}
    BY <1>1, OutcomeSaved
  <1>3. /\ preq[r].on \in Prompts /\ preq[r].checks \in BOOLEAN /\ preq[r].case \in Cases \cup {NoCase}
        /\ preq[r].result \in {"success", "error"} /\ preq[r].missing \subseteq preq[r].free
        /\ preq[r].result = "success" =>
              preq[r].ans.taint \cap preq[r].guard = {} /\ preq[r].ans.json /\ ~preq[r].raised
        /\ r \notin docs /\ told[r] = "nothing"
    BY <1>1 DEF PromptInvariant, RunFits, RequestTyped, AnswerJudged
  <1>4. /\ told' \in [Runs -> {"nothing", "success", "error"}]
        /\ \A o \in Runs : o # r => told'[o] = told[o]
        /\ told'[r] = IF preq[r].kind = "document" /\ preq[r].result = "success" THEN "nothing" ELSE preq[r].result
    BY <1>3 DEF run_prompt, PromptInvariant, PromptTyped
  <1>5. CaseKept(r)
    BY DEF PromptInvariant, RunFits
  <1>6. CASE preq[r].kind = "test"
    <2>1. /\ DOMAIN preq' = Runs /\ \A o \in Runs : o # r => preq'[o] = preq[o]
          /\ preq'[r] = [kind |-> "test", on |-> preq[r].on, case |-> preq[r].case, checks |-> preq[r].checks,
                         ans |-> preq[r].ans, pc |-> "evaluate", run |-> ~preq[r].raised,
                         error |-> preq[r].result = "error"]
      BY <1>6 DEF run_prompt, PromptInvariant, PromptTyped
    <2>2. /\ preq'[r].pc = "evaluate" /\ preq'[r].on = preq[r].on /\ preq'[r].case = preq[r].case
          /\ preq'[r].checks = preq[r].checks
      BY <2>1
    <2>3. preq'[r].run = ~preq[r].raised /\ preq'[r].error = (preq[r].result = "error")
      BY <2>1
    <2>4. RequestTyped(r)' /\ AnswerJudged(r)'
      BY <1>3, <2>2 DEF RequestTyped, AnswerJudged, Answered, Stages
    <2>5. RunRecorded(r)'
      BY <1>2, <1>3, <2>2, <2>3 DEF RunRecorded
    <2>6. CaseKept(r)'
      BY <1>1, <1>5, <2>2 DEF CaseKept
    <2> QED
      BY <1>1, <1>2, <1>4, <2>1, <2>4, <2>5, <2>6, RunMoves DEF PromptInvariant, PromptTyped, RunFits, Unmoved
  <1>7. CASE preq[r].kind # "test"
    <2> DEFINE pc == IF preq[r].kind = "document" /\ preq[r].result = "success" THEN "document" ELSE "done"
    <2>1. preq' = [preq EXCEPT ![r] = [preq[r] EXCEPT !.pc = pc]]
      BY <1>7 DEF run_prompt
    <2>2. /\ pc \in {"document", "done"}
          /\ pc = "document" => preq[r].result = "success" /\ told'[r] = "nothing"
          /\ told'[r] \in {"nothing", preq[r].result}
      BY <1>4
    <2> HIDE DEF pc
    <2>3. /\ preq'[r].pc = pc /\ DOMAIN preq'[r] = AnsweredFields
          /\ \A f \in AnsweredFields : f # "pc" => preq'[r][f] = preq[r][f]
          /\ DOMAIN preq' = Runs /\ \A o \in Runs : o # r => preq'[o] = preq[o]
      BY <1>1, <2>1, AnswerKept
    <2>4. /\ preq'[r].on = preq[r].on /\ preq'[r].checks = preq[r].checks /\ preq'[r].result = preq[r].result
          /\ preq'[r].ans = preq[r].ans /\ preq'[r].guard = preq[r].guard /\ preq'[r].raised = preq[r].raised
          /\ preq'[r].missing = preq[r].missing /\ preq'[r].free = preq[r].free
      BY <2>3 DEF AnsweredFields
    <2>5. RequestTyped(r)'
      BY <1>3, <2>2, <2>3, <2>4 DEF RequestTyped, Answered, Stages
    <2>6. AnswerJudged(r)'
      BY <1>1, <1>3, <2>2, <2>3, <2>4 DEF AnswerJudged, Answered
    <2>7. RunRecorded(r)' /\ CaseKept(r)'
      BY <2>2, <2>3 DEF RunRecorded, CaseKept
    <2> QED
      BY <1>1, <1>2, <1>4, <2>3, <2>5, <2>6, <2>7, RunMoves DEF PromptInvariant, PromptTyped, RunFits, Unmoved
  <1> QED
    BY <1>6, <1>7

\* A run that crashes tells nobody anything.
LEMMA RunCrashed ==
    ASSUME PromptInvariant, NEW r \in Runs, RunCrashes(r)
    PROVE  PromptInvariant'
  <1>1. preq[r].pc # "done" /\ UNCHANGED <<prm, prun, told, tcase, evals, sweep, docs>>
    BY DEF RunCrashes, Running
  <1>2. preq'[r].pc = "crashed" /\ DOMAIN preq' = Runs /\ \A o \in Runs : o # r => preq'[o] = preq[o]
    BY DEF RunCrashes, PromptInvariant, PromptTyped
  <1>3. RunFits(r)'
    BY <1>2 DEF RunFits, RequestTyped, AnswerJudged, RunRecorded, CaseKept, Answered, Stages
  <1> QED
    BY <1>1, <1>2, <1>3, RunMoves DEF PromptInvariant, PromptTyped, Unmoved

\* A document is asked for on behalf of a run that succeeded.
LEMMA DocumentAsked ==
    ASSUME PromptInvariant, NEW r \in Runs, NEW override \in BOOLEAN, NEW answer \in {"made", "refused", "lost"},
           generate_document_from_prompt(r, override, answer)
    PROVE  PromptInvariant'
  <1>1. /\ preq[r].pc = "document" /\ Answered(r) /\ UNCHANGED <<prm, prun, tcase, evals, sweep>>
        /\ preq' = [preq EXCEPT ![r] = [preq[r] EXCEPT !.pc = "done"]]
    BY DEF generate_document_from_prompt, Answered
  <1>2. /\ preq[r].on \in Prompts /\ preq[r].checks \in BOOLEAN
        /\ preq[r].result = "success" /\ preq[r].missing \subseteq preq[r].free
        /\ preq[r].ans.taint \cap preq[r].guard = {} /\ preq[r].ans.json /\ ~preq[r].raised
    BY <1>1 DEF PromptInvariant, RunFits, RequestTyped, AnswerJudged
  <1>3. /\ told' \in [Runs -> {"nothing", "success", "error"}] /\ docs' \subseteq Runs
        /\ \A o \in Runs : o # r => told'[o] = told[o] /\ (o \in docs' <=> o \in docs)
    BY DEF generate_document_from_prompt, PromptInvariant, PromptTyped
  <1>4. /\ preq'[r].pc = "done" /\ DOMAIN preq'[r] = AnsweredFields
        /\ \A f \in AnsweredFields : f # "pc" => preq'[r][f] = preq[r][f]
        /\ DOMAIN preq' = Runs /\ \A o \in Runs : o # r => preq'[o] = preq[o]
    BY <1>1, AnswerKept
  <1>5. /\ preq'[r].on = preq[r].on /\ preq'[r].checks = preq[r].checks /\ preq'[r].result = preq[r].result
        /\ preq'[r].ans = preq[r].ans /\ preq'[r].guard = preq[r].guard /\ preq'[r].raised = preq[r].raised
        /\ preq'[r].missing = preq[r].missing /\ preq'[r].free = preq[r].free
    BY <1>4 DEF AnsweredFields
  <1>6. RunFits(r)'
    BY <1>2, <1>4, <1>5 DEF RunFits, RequestTyped, AnswerJudged, RunRecorded, CaseKept, Answered, Stages
  <1> QED
    BY <1>1, <1>3, <1>4, <1>6, RunMoves DEF PromptInvariant, PromptTyped, Unmoved

-----------------------------------------------------------------------------

\* A test is evaluated: what is put on record is about the run and the case
\* there are.
LEMMA TestEvaluated ==
    ASSUME PromptInvariant, NEW r \in Runs, run_prompt_test(r)
    PROVE  PromptInvariant'
  <1> DEFINE e0 == [run |-> IF preq[r].run THEN r ELSE 0, case |-> preq[r].case, on |-> preq[r].on,
                    passed |-> Score(preq[r])]
  <1>1. /\ preq[r].pc = "evaluate" /\ UNCHANGED <<prm, prun, told, tcase, sweep, docs>>
        /\ evals' = IF CanSaveEvaluation(r) THEN evals \cup {e0} ELSE evals
    BY DEF run_prompt_test, _save_evaluation
  <1>2. /\ preq[r].on \in Prompts /\ preq[r].checks \in BOOLEAN /\ preq[r].case \in Cases \cup {NoCase}
        /\ preq[r].error \in BOOLEAN /\ preq[r].run \in BOOLEAN
        /\ prun[r] # NoRun => prun[r].on = preq[r].on
        /\ ~preq[r].error => preq[r].run /\ (prun[r] # NoRun => prun[r].status # "error")
    BY <1>1 DEF PromptInvariant, RunFits, RequestTyped, RunRecorded
  <1>3. preq'[r].pc = "done" /\ DOMAIN preq'[r] = {"pc"} /\ DOMAIN preq' = Runs
        /\ \A o \in Runs : o # r => preq'[o] = preq[o]
    BY DEF run_prompt_test, PromptInvariant, PromptTyped
  <1>4. RunFits(r)'
    <2>1. ~Answered(r)'
      BY <1>3 DEF Answered
    <2> QED
      BY <1>3, <2>1 DEF RunFits, RequestTyped, AnswerJudged, RunRecorded, CaseKept, Stages
  <1>5. ASSUME NEW o \in Runs PROVE RunFits(o)'
    <2>1. CASE o = r
      BY <1>4, <2>1
    <2>2. CASE o # r
      BY <1>1, <1>3, <2>2, UnmovedFits DEF PromptInvariant, Unmoved, PromptsStay, CasesStay
    <2> QED
      BY <2>1, <2>2
  <1>6. Score(preq[r]) \in BOOLEAN /\ (Score(preq[r]) => ~preq[r].error)
    BY <1>2 DEF Score, _evaluate_checks
  <1>7. r # 0
    BY PromptAssumption
  <1>8. \A e \in evals : (e.run # 0 => e.run \in Runs /\ preq[e.run].pc = "done")
    BY DEF PromptInvariant, PromptTyped, EvaluatedDone
  <1>9. /\ e0.run \in {0, r} /\ e0.case = preq[r].case /\ e0.on = preq[r].on
        /\ e0.run = r <=> preq[r].run
        /\ e0.passed = Score(preq[r])
    BY <1>7
  <1>10. e0 \in [run : Runs \cup {0}, case : Cases \cup {NoCase}, on : Prompts, passed : BOOLEAN]
    BY <1>2, <1>6
  <1> HIDE DEF e0
  <1>11. PromptTyped'
    BY <1>1, <1>3, <1>10 DEF PromptInvariant, PromptTyped
  <1>12. EvaluatedDone'
    <2>1. ASSUME NEW e \in evals', e.run # 0 PROVE preq'[e.run].pc = "done"
      <3>1. e = e0 \/ e \in evals
        BY <1>1
      <3>2. CASE e = e0
        BY <1>3, <1>9, <2>1, <3>2
      <3>3. CASE e \in evals
        BY <1>1, <1>3, <1>8, <2>1, <3>3
      <3> QED
        BY <3>1, <3>2, <3>3
    <2> QED
      BY <2>1 DEF EvaluatedDone
  <1>13. EvaluationTraceable'
    <2>1. ASSUME CanSaveEvaluation(r)
          PROVE  /\ e0.case # NoCase => e0.case \in CaseRows /\ tcase[e0.case].on = e0.on
                 /\ e0.run # 0 => prun[e0.run] # NoRun /\ prun[e0.run].on = e0.on
                 /\ e0.passed => e0.run # 0 /\ prun[e0.run].status # "error"
      <3>1. preq[r].case = NoCase \/ preq[r].case \in CaseRows
        BY <2>1 DEF CanSaveEvaluation
      <3>2. preq[r].case # NoCase => tcase[preq[r].case].on = preq[r].on
        BY <1>1, <3>1 DEF PromptInvariant, RunFits, CaseKept, CaseRows
      <3>3. preq[r].run => prun[r] # NoRun
        BY <2>1 DEF CanSaveEvaluation
      <3> QED
        BY <1>2, <1>6, <1>7, <1>9, <3>1, <3>2, <3>3
    <2>2. \A e \in evals' : e \in evals \/ (CanSaveEvaluation(r) /\ e = e0)
      BY <1>1
    <2> QED
      BY <1>1, <2>1, <2>2 DEF PromptInvariant, EvaluationTraceable, CaseRows
  <1> QED
    BY <1>5, <1>11, <1>12, <1>13 DEF PromptInvariant

\* A case that is made or edited is of the prompt it was made for.
LEMMA CaseEdited ==
    ASSUME PromptInvariant, NEW c \in Cases, NEW params \in ParamSets, NEW checks \in BOOLEAN,
           update_test_case(c, params, checks) \/ \E p \in Prompts : create_test_case(c, p, params, checks)
    PROVE  PromptInvariant'
  <1>1. UNCHANGED <<prm, runVars>>
    BY DEF update_test_case, create_test_case
  <1>2. PICK row \in CaseRow :
            /\ tcase' = [tcase EXCEPT ![c] = row]
            /\ tcase[c] \notin {NoCase, GoneCase} => row.on = tcase[c].on
            /\ tcase[c] # GoneCase
    <2>1. CASE update_test_case(c, params, checks)
      <3>1. tcase[c] \in CaseRow /\ tcase[c] # GoneCase
        BY <2>1 DEF update_test_case, CaseRows, PromptInvariant, PromptTyped
      <3>2. tcase' = [tcase EXCEPT ![c] = [tcase[c] EXCEPT !.params = params, !.checks = checks]]
        BY <2>1 DEF update_test_case
      <3>3. /\ [tcase[c] EXCEPT !.params = params, !.checks = checks] \in CaseRow
            /\ [tcase[c] EXCEPT !.params = params, !.checks = checks].on = tcase[c].on
        BY <3>1 DEF CaseRow
      <3> QED
        BY <3>1, <3>2, <3>3
    <2>2. ASSUME NEW p \in Prompts, create_test_case(c, p, params, checks)
          PROVE  \E row \in CaseRow :
                    /\ tcase' = [tcase EXCEPT ![c] = row]
                    /\ tcase[c] \notin {NoCase, GoneCase} => row.on = tcase[c].on
                    /\ tcase[c] # GoneCase
      <3> DEFINE row == [on |-> p, params |-> params, checks |-> checks]
      <3>1. row \in CaseRow
        BY DEF CaseRow
      <3>2. tcase[c] = NoCase /\ tcase' = [tcase EXCEPT ![c] = row]
        BY <2>2 DEF create_test_case
      <3> HIDE DEF row
      <3> QED
        BY <3>1, <3>2, PromptAssumption
    <2> QED
      BY <2>1, <2>2
  <1>3. row # NoCase /\ row # GoneCase
    BY PromptAssumption
  <1>4. tcase' \in [Cases -> CaseRow \cup {NoCase, GoneCase}] /\ CasesStay
    BY <1>2, <1>3 DEF PromptInvariant, PromptTyped, CasesStay
  <1>5. \A k \in Cases : tcase[k] # GoneCase => tcase'[k] # GoneCase
    BY <1>2, <1>3 DEF PromptInvariant, PromptTyped
  <1> QED
    BY <1>1, <1>4, <1>5, PromptUntouched DEF PromptInvariant, PromptTyped, PromptsStay

\* The evaluations of a case that is deleted no longer name it.
LEMMA CaseDeleted ==
    ASSUME PromptInvariant, NEW c \in Cases, delete_test_case(c)
    PROVE  PromptInvariant'
  <1>1. /\ c \in CaseRows /\ tcase' = [tcase EXCEPT ![c] = GoneCase]
        /\ evals' = {IF e.case = c THEN [e EXCEPT !.case = NoCase] ELSE e : e \in evals}
        /\ UNCHANGED <<prm, prun, preq, told, sweep, docs>>
    BY DEF delete_test_case
  <1>2. NoCase \notin Cases /\ NoCase # GoneCase /\ GoneCase \notin CaseRow /\ NoCase \notin CaseRow
    BY PromptAssumption
  <1> DEFINE Evaluations == [run : Runs \cup {0}, case : Cases \cup {NoCase}, on : Prompts, passed : BOOLEAN]
  <1>3. ASSUME NEW e \in evals
        PROVE  LET d == IF e.case = c THEN [e EXCEPT !.case = NoCase] ELSE e
               IN  /\ d \in Evaluations /\ d.run = e.run /\ d.on = e.on /\ d.passed = e.passed
                   /\ d.case = IF e.case = c THEN NoCase ELSE e.case
    <2>1. e \in Evaluations
      BY DEF PromptInvariant, PromptTyped
    <2> QED
      BY <2>1
  <1>4. \A d \in evals' : /\ d \in Evaluations
                          /\ \E e \in evals : /\ d.run = e.run /\ d.on = e.on /\ d.passed = e.passed
                                              /\ d.case = IF e.case = c THEN NoCase ELSE e.case
    <2> SUFFICES ASSUME NEW d \in evals'
                 PROVE  /\ d \in Evaluations
                        /\ \E e \in evals : /\ d.run = e.run /\ d.on = e.on /\ d.passed = e.passed
                                            /\ d.case = IF e.case = c THEN NoCase ELSE e.case
      OBVIOUS
    <2>1. PICK e \in evals : d = IF e.case = c THEN [e EXCEPT !.case = NoCase] ELSE e
      BY <1>1
    <2> HIDE DEF Evaluations
    <2> QED
      BY <1>3, <2>1
  <1>5. PromptTyped'
    BY <1>1, <1>4 DEF PromptInvariant, PromptTyped
  <1>6. PromptsStay /\ CasesStay
    BY <1>1, <1>2 DEF PromptsStay, CasesStay, PromptInvariant, PromptTyped, CaseRows
  <1>7. \A o \in Runs : RunFits(o)'
    BY <1>1, <1>6, UnmovedFits DEF PromptInvariant, Unmoved
  <1> HIDE DEF Evaluations
  <1>8. EvaluatedDone'
    BY <1>1, <1>4 DEF PromptInvariant, EvaluatedDone
  <1>9. EvaluationTraceable'
    <2>1. ASSUME NEW d \in evals'
          PROVE  /\ d.case # NoCase => d.case \in CaseRows' /\ tcase'[d.case].on = d.on
                 /\ d.run # 0 => prun'[d.run] # NoRun /\ prun'[d.run].on = d.on
                 /\ d.passed => d.run # 0 /\ prun'[d.run].status # "error"
      <3>1. PICK e \in evals : /\ d.run = e.run /\ d.on = e.on /\ d.passed = e.passed
                               /\ d.case = IF e.case = c THEN NoCase ELSE e.case
        BY <1>4
      <3>2. /\ e.case # NoCase => e.case \in CaseRows /\ tcase[e.case].on = e.on
            /\ e.run # 0 => prun[e.run] # NoRun /\ prun[e.run].on = e.on
            /\ e.passed => e.run # 0 /\ prun[e.run].status # "error"
        BY DEF PromptInvariant, EvaluationTraceable
      <3>3. \A k \in CaseRows : k # c => k \in CaseRows' /\ tcase'[k] = tcase[k]
        BY <1>1 DEF CaseRows, PromptInvariant, PromptTyped
      <3> QED
        BY <1>1, <3>1, <3>2, <3>3
    <2> QED
      BY <2>1 DEF EvaluationTraceable
  <1> QED
    BY <1>5, <1>7, <1>8, <1>9 DEF PromptInvariant

\* An evaluation of all cases is of cases there are.
LEMMA SweepBegun ==
    ASSUME PromptInvariant, NEW p \in Prompts, evaluate_all_test_cases(p)
    PROVE  PromptInvariant'
  <1>1. sweep' \subseteq Cases /\ UNCHANGED <<prm, prun, preq, told, tcase, evals, docs>>
    BY DEF evaluate_all_test_cases, CaseRows
  <1>2. PromptTyped'
    BY <1>1 DEF PromptInvariant, PromptTyped
  <1>3. \A o \in Runs : RunFits(o)'
    BY <1>1, UnmovedFits DEF PromptInvariant, Unmoved, PromptsStay, CasesStay
  <1> QED
    BY <1>1, <1>2, <1>3 DEF PromptInvariant, EvaluatedDone, EvaluationTraceable, CaseRows

\* Whatever runs and tests do fits.
LEMMA RunsAndTestsKeep ==
    ASSUME PromptInvariant, RunPrompts \/ TestPrompts
    PROVE  PromptInvariant'
  <1>1. CASE RunPrompts
    BY <1>1, BeginningsFit, RunRefused, RunCompiled, RunAnswered, RunEnds, RunCrashed, DocumentAsked DEF RunPrompts
  <1>2. CASE TestPrompts
    BY <1>2, BeginningsFit, TestEvaluated, CaseEdited, CaseDeleted, SweepBegun DEF TestPrompts
  <1> QED
    BY <1>1, <1>2

\* The runs, their rows, their cases and the evaluations fit together, whatever
\* is edited, published, deleted or crashes under way.
THEOREM PromptInvariantHolds == Spec => []PromptInvariant
  <1>1. Init => PromptInvariant
    <2> SUFFICES ASSUME PromptInit PROVE PromptInvariant
      BY DEF Init
    <2>1. \A r \in Runs : preq[r].pc = "none" /\ told[r] = "nothing" /\ prun[r] = NoRun /\ r \notin docs
      BY DEF PromptInit, Unstarted
    <2>2. PromptTyped
      BY DEF PromptInit, PromptTyped
    <2>3. \A r \in Runs : RunFits(r)
      BY <2>1 DEF RunFits, RequestTyped, AnswerJudged, RunRecorded, CaseKept, Answered, Stages
    <2> QED
      BY <2>2, <2>3 DEF PromptInit, PromptInvariant, EvaluatedDone, EvaluationTraceable
  <1>2. PromptInvariant /\ [Next]_documentVars => PromptInvariant'
    <2>1. ASSUME PromptInvariant, UNCHANGED promptVars PROVE PromptInvariant'
      <3>1. UNCHANGED <<prm, prun, preq, told, tcase, evals, sweep, docs>>
        BY <2>1 DEF promptVars
      <3> QED
        BY <2>1, <3>1, PromptUntouched DEF PromptInvariant, PromptTyped, runVars, PromptsStay, CasesStay
    <2>2. ASSUME PromptInvariant, PromptStep PROVE PromptInvariant'
      BY <2>2, RunsAndTestsKeep, PromptsMade, PromptEdited DEF PromptStep
    <2> QED
      BY <2>1, <2>2, PromptSteps DEF documentVars
  <1> QED
    BY <1>1, <1>2, PTL DEF Spec

\* Whoever is told of a success, and whatever document is made of a run, has an
\* answer that keeps the guardrails, from a prompt that was filled in.
THEOREM RunAsAskedHolds == Spec => []RunAsAsked
  <1>1. PromptInvariant => RunAsAsked
    BY DEF PromptInvariant, RunFits, AnswerJudged, RunAsAsked, Answered
  <1> QED
    BY <1>1, PromptInvariantHolds, PTL

\* An evaluation is of the run and the case it names.
THEOREM EvaluationTraceableHolds == Spec => []EvaluationTraceable
  <1>1. PromptInvariant => EvaluationTraceable
    BY DEF PromptInvariant
  <1> QED
    BY <1>1, PromptInvariantHolds, PTL

-----------------------------------------------------------------------------
(* DocAI: what the requests in progress carry, and what is given out of it.  *)

\* The fields a process holds of a request, of the kinds that are changed in place.
JobFields(op) ==
    CASE op = "train"    -> {"op", "type", "todo", "doc"}
      [] op = "verify"   -> {"op", "doc", "text", "confidence"}
      [] op = "activate" -> {"op", "on", "rule", "vers", "body", "target", "stale"}
      [] OTHER           -> {}

JobsShaped ==
    /\ DOMAIN djob = Processes
    /\ \A p \in Processes : djob[p].op \in {"train", "verify", "activate"} => DOMAIN djob[p] = JobFields(djob[p].op)

\* The document d may be a text like this.
Resembles(d, text) == \E s \in sample : s.doc = d /\ Similarity[text][s.text] >= ClassificationThreshold

\* What must not go out in clear does not.
Redacted(F) == \A n \in DOMAIN F \cap SensitiveFields : F[n] = "redacted"

\* What is extracted from was verified, and what is stored was redacted.
VettedOnTheWay ==
    /\ \A p \in Processes :
          /\ djob[p].op \in {"extract", "store"} => Resembles(djob[p].doc, djob[p].text)
          /\ djob[p].op = "store" => Redacted(djob[p].fields)
    /\ DOMAIN parsed = ParseIds
    /\ \A q \in Rows(parsed) : DOMAIN parsed[q] = {"doc", "text", "fields", "status"}

VettingInvariant == JobsShaped /\ VettedOnTheWay /\ PushedIsVetted

\* The steps of a DocAI process.
ParsingStep(p) ==
    TrainTypes(p) \/ EditRules(p) \/ EditMappings(p) \/ ParseFiles(p) \/ Accounts(p) \/ ProcessDies(p)

\* Every step is one of a DocAI process, or leaves DocAI's tables as they are.
LEMMA ParsingSteps == Next => (\E p \in Processes : ParsingStep(p)) \/ UNCHANGED parsingVars
  BY DEF Next, TemplateBuilder, PromptBuilder, DocAI, ParsingStep

\* A request has the fields of its kind.
Shaped(job) == job.op \in {"train", "verify", "activate"} => DOMAIN job = JobFields(job.op)

\* A process goes on with its request; the sessions of others may become stale.
GoesOn(p) ==
    /\ DOMAIN djob' = Processes
    /\ \A o \in Processes : o # p =>
          djob'[o] = djob[o] \/ (djob[o].op = "activate" /\ djob'[o] = [djob[o] EXCEPT !.stale = TRUE])

\* A session that becomes stale changes in nothing else.
LEMMA StaleShaped ==
    ASSUME NEW job, DOMAIN job = JobFields("activate")
    PROVE  /\ DOMAIN [job EXCEPT !.stale = TRUE] = JobFields("activate")
           /\ \A f \in JobFields("activate") : f # "stale" => [job EXCEPT !.stale = TRUE][f] = job[f]
           /\ [job EXCEPT !.stale = TRUE].stale = TRUE
  BY DEF JobFields

\* Requests keep their shapes, and other processes what they are doing.
LEMMA ShapesKept ==
    ASSUME JobsShaped, NEW p \in Processes, GoesOn(p), Shaped(djob'[p])
    PROVE  /\ JobsShaped'
           /\ \A o \in Processes : o # p => djob'[o].op = djob[o].op
  <1>1. \A o \in Processes : djob[o].op = "activate" => DOMAIN djob[o] = JobFields("activate")
    BY DEF JobsShaped
  <1>2. ASSUME NEW o \in Processes, o # p PROVE djob'[o].op = djob[o].op /\ Shaped(djob'[o])
    <2>1. CASE djob'[o] = djob[o]
      BY <2>1 DEF JobsShaped, Shaped
    <2>2. CASE djob[o].op = "activate" /\ djob'[o] = [djob[o] EXCEPT !.stale = TRUE]
      <3>1. "op" \in JobFields("activate")
        BY DEF JobFields
      <3> QED
        BY <1>1, <2>2, <3>1, StaleShaped DEF Shaped
    <2> QED
      BY <1>2, <2>1, <2>2 DEF GoesOn
  <1> QED
    BY <1>2 DEF JobsShaped, GoesOn, Shaped

\* A process replaces its own request.
LEMMA JobPut ==
    ASSUME JobsShaped, NEW p \in Processes, NEW job, djob' = [djob EXCEPT ![p] = job]
    PROVE  GoesOn(p) /\ djob'[p] = job
  BY DEF JobsShaped, GoesOn

\* A change of a rule ends the request that made it.
LEMMA RuleChangedGoesOn ==
    ASSUME NEW p \in Processes, NEW r, RuleChanged(p, r)
    PROVE  GoesOn(p) /\ djob'[p] = NotBusy
  BY DEF RuleChanged, GoesOn

\* Jobs that carry nothing on.
Plain(job) == job.op \in {"none", "rule", "learn", "register"}

\* A process that is not busy carries nothing on.
LEMMA NotBusyPlain == Plain(NotBusy)
  BY DEF Plain, NotBusy

\* Such a request has no fields to keep, and nothing to give out.
LEMMA PlainShaped == ASSUME NEW job, Plain(job) PROVE Shaped(job) /\ job.op \notin {"extract", "store"}
  BY DEF Plain, Shaped

\* Everything but what parsing does leaves what was given out as it was, and
\* gives no process something to extract or to store.
Quiet(p) ==
    /\ GoesOn(p) /\ Shaped(djob'[p]) /\ djob'[p].op \notin {"extract", "store"}
    /\ sample \subseteq sample' /\ UNCHANGED resultVars

\* Training adds samples and gives nothing out.
LEMMA TrainingQuiet ==
    ASSUME JobsShaped, NEW p \in Processes, TrainTypes(p)
    PROVE  Quiet(p)
  <1>1. ASSUME NEW t, soft_delete_document_type(p, t) PROVE Quiet(p)
    BY <1>1, NotBusyPlain, PlainShaped DEF soft_delete_document_type, Quiet, GoesOn, JobsShaped
  <1>2. ASSUME NEW t, NEW th, NEW texts, upsert_document_type(p, t, th, texts) PROVE Quiet(p)
    <2> DEFINE job == [op |-> "train", type |-> t, todo |-> texts, doc |-> 0]
    <2>1. djob' = [djob EXCEPT ![p] = job] /\ UNCHANGED <<sample, resultVars>>
      BY <1>2 DEF upsert_document_type, Begin
    <2>2. Shaped(job) /\ job.op = "train"
      BY DEF Shaped, JobFields
    <2> HIDE DEF job
    <2> QED
      BY <2>1, <2>2, JobPut DEF Quiet
  <1>3. ASSUME NEW d, register(p, d) PROVE Quiet(p)
    <2> DEFINE job == [djob[p] EXCEPT !.doc = d]
    <2>1. djob' = [djob EXCEPT ![p] = job] /\ UNCHANGED <<sample, resultVars>> /\ djob[p].op = "train"
      BY <1>3 DEF register, Go
    <2>2. Shaped(job) /\ job.op = "train"
      BY <2>1 DEF Shaped, JobsShaped
    <2> HIDE DEF job
    <2> QED
      BY <2>1, <2>2, JobPut DEF Quiet
  <1>4. ASSUME register_template(p) PROVE Quiet(p)
    <2> DEFINE job == IF Len(djob[p].todo) = 1 THEN NotBusy ELSE [djob[p] EXCEPT !.todo = Tail(@)]
    <2>1. djob' = [djob EXCEPT ![p] = job] /\ sample \subseteq sample' /\ UNCHANGED resultVars /\ djob[p].op = "train"
      BY <1>4 DEF register_template, Go, Finish
    <2>2. Shaped(job) /\ job.op \notin {"extract", "store"}
      <3>1. CASE Len(djob[p].todo) = 1
        BY <3>1, NotBusyPlain, PlainShaped
      <3>2. CASE Len(djob[p].todo) # 1
        BY <2>1, <3>2 DEF Shaped, JobsShaped
      <3> QED
        BY <3>1, <3>2
    <2> HIDE DEF job
    <2> QED
      BY <2>1, <2>2, JobPut DEF Quiet
  <1>5. ASSUME StoreFails(p) PROVE Quiet(p)
    BY <1>5, JobPut, NotBusyPlain, PlainShaped DEF StoreFails, Finish, Go, Quiet
  <1> QED
    BY <1>1, <1>2, <1>3, <1>4, <1>5 DEF TrainTypes

\* Editing rules and mappings gives nothing out.
LEMMA EditsQuiet ==
    ASSUME JobsShaped, NEW p \in Processes, EditRules(p) \/ EditMappings(p)
    PROVE  Quiet(p)
  <1>1. ASSUME djob' = djob, djob[p] = NotBusy, UNCHANGED <<sample, resultVars>> PROVE Quiet(p)
    BY <1>1, NotBusyPlain, PlainShaped DEF Quiet, GoesOn, JobsShaped
  <1>2. ASSUME NEW r, NEW body, AddVersion(p, r, body) \/ delete_parsing_rule(p, r) PROVE Quiet(p)
    BY <1>1, <1>2 DEF AddVersion, delete_parsing_rule, typeVars
  <1>3. ASSUME NEW t, NEW m, create_field_mapping(p, t, m) \/ delete_field_mapping(p, t, m) PROVE Quiet(p)
    BY <1>1, <1>3 DEF create_field_mapping, delete_field_mapping, typeVars
  <1>4. ASSUME NEW r, NEW t, NEW body, BeginRule(p, r, t, body) PROVE Quiet(p)
    <2> DEFINE job == [op |-> "rule", on |-> r, body |-> body]
    <2>1. djob' = [djob EXCEPT ![p] = job] /\ UNCHANGED <<sample, resultVars>>
      BY <1>4 DEF BeginRule, Begin, typeVars
    <2>2. Plain(job)
      BY DEF Plain
    <2> HIDE DEF job
    <2> QED
      BY <2>1, <2>2, JobPut, PlainShaped DEF Quiet
  <1>5. ASSUME NEW r, NEW body, NEW target,
               djob' = [djob EXCEPT ![p] = Loaded(r, body, target)], UNCHANGED <<sample, resultVars>>
        PROVE  Quiet(p)
    <2>1. Shaped(Loaded(r, body, target)) /\ Loaded(r, body, target).op = "activate"
      BY DEF Loaded, Shaped, JobFields
    <2> QED
      BY <1>5, <2>1, JobPut DEF Quiet
  <1>6. ASSUME NEW r, NEW v, BeginActivate(p, r, v) \/ BeginVersion(p, r, v) PROVE Quiet(p)
    BY <1>5, <1>6 DEF BeginActivate, BeginVersion, Begin, typeVars
  <1>7. ASSUME create_parsing_rule(p) PROVE Quiet(p)
    BY <1>7, RuleChangedGoesOn, NotBusyPlain, PlainShaped DEF create_parsing_rule, Quiet, typeVars
  <1>8. ASSUME activate_parsing_rule_version(p) PROVE Quiet(p)
    <2>1. GoesOn(p) /\ djob'[p] = NotBusy
      BY <1>8, RuleChangedGoesOn, JobPut DEF activate_parsing_rule_version, Finish, Go
    <2> QED
      BY <1>8, <2>1, NotBusyPlain, PlainShaped DEF activate_parsing_rule_version, Quiet, typeVars
  <1> QED
    BY <1>2, <1>3, <1>4, <1>6, <1>7, <1>8 DEF EditRules, EditMappings

\* Neither does registering, logging in and out, or dying.
LEMMA AccountsQuiet ==
    ASSUME JobsShaped, NEW p \in Processes, Accounts(p) \/ ProcessDies(p)
    PROVE  Quiet(p)
  <1>1. ASSUME NEW k, NEW e, login_for_access_token(p, e, k) \/ logout(p, k) PROVE Quiet(p)
    BY <1>1, NotBusyPlain, PlainShaped DEF login_for_access_token, logout, typeVars, Quiet, GoesOn, JobsShaped
  <1>2. ASSUME NEW e, NEW role, NEW admin, BeginRegister(p, e, role, admin) PROVE Quiet(p)
    <2> DEFINE job == [op |-> "register", email |-> e, row |-> [role |-> role, invited |-> admin /\ IsAdmin(p)]]
    <2>1. djob' = [djob EXCEPT ![p] = job] /\ UNCHANGED <<sample, resultVars>>
      BY <1>2 DEF BeginRegister, Begin, typeVars
    <2>2. Plain(job)
      BY DEF Plain
    <2> HIDE DEF job
    <2> QED
      BY <2>1, <2>2, JobPut, PlainShaped DEF Quiet
  <1>3. ASSUME register_user(p) \/ ProcessDies(p) PROVE Quiet(p)
    BY <1>3, JobPut, NotBusyPlain, PlainShaped DEF register_user, ProcessDies, Finish, Go, typeVars, Quiet
  <1> QED
    BY <1>1, <1>2, <1>3 DEF Accounts

-----------------------------------------------------------------------------

\* What is given out resembles a sample of its own, with nothing in clear that
\* calls for redaction.
Vetted(x) == Resembles(x.doc, x.text) /\ Redacted(x.fields)

\* The same of what a request carries.
Carried(job) ==
    /\ job.op \in {"extract", "store"} => Resembles(job.doc, job.text)
    /\ job.op = "store" => Redacted(job.fields)

\* The promise, of the connectors and of each row.
LEMMA PushedVetted ==
    PushedIsVetted <=> (pushed # NoDocRow => Vetted(pushed)) /\ \A q \in Rows(parsed) : Vetted(parsed[q])
  BY DEF PushedIsVetted, Vetted, Resembles, Redacted

\* The same after a step.
LEMMA PushedVettedNext ==
    ASSUME pushed' # NoDocRow => Vetted(pushed)', \A q \in Rows(parsed') : Vetted(parsed[q])'
    PROVE  PushedIsVetted'
  BY DEF PushedIsVetted, Vetted, Resembles, Redacted

\* Samples are only added.
LEMMA SamplesStay ==
    ASSUME sample \subseteq sample'
    PROVE  /\ \A d, text : Resembles(d, text) => Resembles(d, text)'
           /\ \A x : Vetted(x) => Vetted(x)'
           /\ \A job : Carried(job) => Carried(job)'
  BY DEF Resembles, Vetted, Carried, Redacted

\* What other processes carry is still vetted.
LEMMA JobsCarry ==
    ASSUME VettingInvariant, NEW p \in Processes, GoesOn(p), Shaped(djob'[p]), sample \subseteq sample',
           Carried(djob[p])'
    PROVE  JobsShaped' /\ \A o \in Processes : Carried(djob[o])'
  <1>1. JobsShaped' /\ \A o \in Processes : o # p => djob'[o].op = djob[o].op
    BY ShapesKept DEF VettingInvariant
  <1>2. ASSUME NEW o \in Processes, o # p PROVE Carried(djob[o])'
    <2>1. CASE djob'[o] = djob[o]
      BY <2>1, SamplesStay DEF VettingInvariant, VettedOnTheWay, Carried
    <2>2. CASE djob[o].op = "activate"
      BY <1>1, <1>2, <2>2 DEF Carried
    <2> QED
      BY <1>2, <2>1, <2>2 DEF GoesOn
  <1>3. Carried(djob[p])'
    OBVIOUS
  <1> QED
    BY <1>1, <1>2, <1>3

\* A step that gives nothing out keeps what was given out vetted.
LEMMA VettingQuiet ==
    ASSUME VettingInvariant, NEW p \in Processes, Quiet(p)
    PROVE  VettingInvariant'
  <1>1. sample \subseteq sample' /\ pushed' = pushed /\ parsed' = parsed
    BY DEF Quiet, resultVars
  <1>2. Carried(djob[p])'
    BY DEF Quiet, Carried
  <1>3. JobsShaped' /\ \A o \in Processes : Carried(djob[o])'
    BY <1>2, JobsCarry DEF Quiet
  <1>4. PushedIsVetted'
    <2>1. (pushed # NoDocRow => Vetted(pushed)) /\ \A q \in Rows(parsed) : Vetted(parsed[q])
      BY PushedVetted DEF VettingInvariant
    <2>2. pushed' # NoDocRow => Vetted(pushed)'
      BY <1>1, <2>1, SamplesStay DEF Vetted, Resembles, Redacted
    <2>3. ASSUME NEW q \in Rows(parsed') PROVE Vetted(parsed[q])'
      BY <1>1, <2>1, SamplesStay DEF Vetted, Resembles, Redacted
    <2> QED
      BY <2>2, <2>3, PushedVettedNext
  <1> QED
    BY <1>1, <1>3, <1>4 DEF VettingInvariant, VettedOnTheWay, Carried, Rows

\* Names are what the redaction goes by.
LEMMA FieldsRedacted == ASSUME NEW text, NEW t PROVE Redacted(ExtractedFields(text, t))
  <1>1. ASSUME NEW F PROVE Redacted(redact_pii_from_fields(F))
    BY DEF Redacted, redact_pii_from_fields
  <1> QED
    BY <1>1 DEF ExtractedFields

\* Verification comes before extraction, redaction before anything goes out.
LEMMA ParsingKeeps ==
    ASSUME VettingInvariant, NEW p \in Processes, ParseFiles(p)
    PROVE  VettingInvariant'
  <1> USE DEF typeVars
  <1>1. JobsShaped /\ DOMAIN parsed = ParseIds
    BY DEF VettingInvariant, VettedOnTheWay
  <1>2. ASSUME NEW d, NEW f, BeginParse(p, d, f) PROVE VettingInvariant'
    <2> DEFINE out == route_document(f, entry[d])
               job == [op |-> "verify", doc |-> d, text |-> out.text, confidence |-> out.confidence]
    <2>1. djob' = [djob EXCEPT ![p] = job] /\ UNCHANGED <<sample, resultVars>>
      BY <1>2 DEF BeginParse, Begin
    <2>2. Shaped(job) /\ job.op = "verify"
      BY DEF Shaped, JobFields
    <2> HIDE DEF job
    <2> QED
      BY <1>1, <2>1, <2>2, JobPut, VettingQuiet DEF Quiet
  <1>3. ASSUME Reject(p) PROVE VettingInvariant'
    BY <1>1, <1>3, JobPut, NotBusyPlain, PlainShaped, VettingQuiet DEF Reject, Finish, Go, Quiet
  <1>4. ASSUME NEW text, apply_correction_learning(p, text) PROVE VettingInvariant'
    BY <1>1, <1>4, JobPut, NotBusyPlain, PlainShaped, VettingQuiet DEF apply_correction_learning, Finish, Go, Quiet
  <1>5. ASSUME Verify(p) PROVE VettingInvariant'
    <2> DEFINE job == [djob[p] EXCEPT !.op = "extract"]
    <2>1. /\ djob[p].op = "verify" /\ djob' = [djob EXCEPT ![p] = job] /\ UNCHANGED <<sample, resultVars>>
          /\ _verify_document_type(djob[p].text, djob[p].doc) # {}
      BY <1>5 DEF Verify, Go
    <2>2. Resembles(djob[p].doc, djob[p].text)
      BY <2>1 DEF _verify_document_type, lookup, Resembles
    <2>3. DOMAIN djob[p] = {"op", "doc", "text", "confidence"}
      BY <1>1, <2>1 DEF JobsShaped, JobFields
    <2>4. job.op = "extract" /\ job.doc = djob[p].doc /\ job.text = djob[p].text
      BY <2>3
    <2> HIDE DEF job
    <2>5. Shaped(job) /\ Carried(job)
      BY <2>2, <2>4 DEF Shaped, Carried
    <2>6. GoesOn(p) /\ djob'[p] = job /\ sample' = sample /\ pushed' = pushed /\ parsed' = parsed
      BY <1>1, <2>1, JobPut DEF resultVars
    <2>7. JobsShaped' /\ \A o \in Processes : Carried(djob[o])'
      BY <2>5, <2>6, JobsCarry DEF Carried, Resembles, Redacted
    <2>8. PushedIsVetted'
      BY <2>6 DEF VettingInvariant, PushedIsVetted, Rows
    <2> QED
      BY <2>6, <2>7, <2>8 DEF VettingInvariant, VettedOnTheWay, Carried, Rows
  <1>6. ASSUME dispatch(p) PROVE VettingInvariant'
    <2> DEFINE t == entry[djob[p].doc]
               F == ExtractedFields(djob[p].text, t)
               st == IF djob[p].confidence < confidence_threshold_for_doc_type(t) THEN "needs_review" ELSE "completed"
               job == [op |-> "store", doc |-> djob[p].doc, text |-> djob[p].text, fields |-> F, status |-> st]
    <2>1. /\ djob[p].op = "extract" /\ djob' = [djob EXCEPT ![p] = job]
          /\ pushed' = [doc |-> djob[p].doc, text |-> djob[p].text, fields |-> F]
          /\ sample' = sample /\ parsed' = parsed
      BY <1>6 DEF dispatch, Go
    <2>2. Redacted(F)
      BY FieldsRedacted
    <2>3. Resembles(djob[p].doc, djob[p].text)
      BY <2>1 DEF VettingInvariant, VettedOnTheWay
    <2> HIDE DEF F, st
    <2>4. Shaped(job) /\ Carried(job)
      BY <2>2, <2>3 DEF Shaped, Carried
    <2>5. Vetted(pushed')
      BY <2>1, <2>2, <2>3 DEF Vetted
    <2> HIDE DEF job
    <2>6. GoesOn(p) /\ djob'[p] = job
      BY <1>1, <2>1, JobPut
    <2>7. JobsShaped' /\ \A o \in Processes : Carried(djob[o])'
      BY <2>1, <2>4, <2>6, JobsCarry DEF Carried, Resembles, Redacted
    <2>8. PushedIsVetted'
      <3>1. ASSUME NEW q \in Rows(parsed') PROVE Vetted(parsed[q])'
        BY <2>1, PushedVetted DEF VettingInvariant, Vetted, Resembles, Redacted
      <3>2. Vetted(pushed)'
        BY <2>1, <2>5 DEF Vetted, Resembles, Redacted
      <3> QED
        BY <3>1, <3>2, PushedVettedNext
    <2> QED
      BY <2>1, <2>7, <2>8 DEF VettingInvariant, VettedOnTheWay, Carried, Rows
  <1>7. ASSUME NEW q \in ParseIds, store_parse_request(p, q) \/ save_parse_correction(p, q) PROVE VettingInvariant'
    <2>1. \A k \in Rows(parsed) : Vetted(parsed[k]) /\ DOMAIN parsed[k] = {"doc", "text", "fields", "status"}
      BY PushedVetted DEF VettingInvariant, VettedOnTheWay
    <2>2. PICK x : /\ parsed' = [parsed EXCEPT ![q] = x] /\ Vetted(x)
                   /\ DOMAIN x = {"doc", "text", "fields", "status"}
      <3>1. CASE store_parse_request(p, q)
        <4> DEFINE x == [doc |-> djob[p].doc, text |-> djob[p].text, fields |-> djob[p].fields,
                         status |-> djob[p].status]
        <4>1. Vetted(x) /\ DOMAIN x = {"doc", "text", "fields", "status"}
          BY <3>1 DEF store_parse_request, VettingInvariant, VettedOnTheWay, Vetted
        <4>2. parsed' = [parsed EXCEPT ![q] = x]
          BY <3>1 DEF store_parse_request
        <4> HIDE DEF x
        <4> QED
          BY <4>1, <4>2
      <3>2. CASE save_parse_correction(p, q)
        <4> DEFINE x == [parsed[q] EXCEPT !.status = "reviewed"]
        <4>1. q \in Rows(parsed) /\ parsed' = [parsed EXCEPT ![q] = x]
          BY <3>2 DEF save_parse_correction
        <4>2. DOMAIN parsed[q] = {"doc", "text", "fields", "status"} /\ Vetted(parsed[q])
          BY <2>1, <4>1
        <4>3. /\ DOMAIN x = {"doc", "text", "fields", "status"}
              /\ x.doc = parsed[q].doc /\ x.text = parsed[q].text /\ x.fields = parsed[q].fields
          BY <4>2
        <4> HIDE DEF x
        <4> QED
          BY <4>1, <4>2, <4>3 DEF Vetted
      <3> QED
        BY <1>7, <3>1, <3>2
    <2>3. PICK job : djob' = [djob EXCEPT ![p] = job] /\ Plain(job)
      <3>1. CASE store_parse_request(p, q)
        BY <3>1, NotBusyPlain DEF store_parse_request, Finish, Go
      <3>2. CASE save_parse_correction(p, q)
        <4> DEFINE job == [op |-> "learn", on |-> q]
        <4>1. djob' = [djob EXCEPT ![p] = job] /\ Plain(job)
          BY <3>2 DEF save_parse_correction, Begin, Plain
        <4> HIDE DEF job
        <4> QED
          BY <4>1
      <3> QED
        BY <1>7, <3>1, <3>2
    <2>4. sample' = sample /\ pushed' = pushed
      BY <1>7 DEF store_parse_request, save_parse_correction
    <2>5. GoesOn(p) /\ djob'[p] = job
      BY <1>1, <2>3, JobPut
    <2>6. Shaped(job) /\ job.op \notin {"extract", "store"}
      BY <2>3, PlainShaped
    <2>7. JobsShaped' /\ \A o \in Processes : Carried(djob[o])'
      BY <2>4, <2>5, <2>6, JobsCarry DEF Carried
    <2>8. DOMAIN parsed' = ParseIds /\ \A k \in Rows(parsed') : parsed'[k] = x \/ (k \in Rows(parsed) /\ parsed'[k] = parsed[k])
      BY <1>1, <2>2 DEF Rows
    <2>9. \A k \in Rows(parsed') : Vetted(parsed'[k]) /\ DOMAIN parsed'[k] = {"doc", "text", "fields", "status"}
      BY <2>1, <2>2, <2>8
    <2>10. PushedIsVetted'
      <3>1. ASSUME NEW k \in Rows(parsed') PROVE Vetted(parsed[k])'
        BY <2>4, <2>9 DEF Vetted, Resembles, Redacted
      <3>2. pushed' # NoDocRow => Vetted(pushed)'
        BY <2>4, PushedVetted DEF VettingInvariant, Vetted, Resembles, Redacted
      <3> QED
        BY <3>1, <3>2, PushedVettedNext
    <2> QED
      BY <2>7, <2>8, <2>9, <2>10 DEF VettingInvariant, VettedOnTheWay, Carried, Rows
  <1> QED
    BY <1>2, <1>3, <1>4, <1>5, <1>6, <1>7 DEF ParseFiles

\* What is on its way to the connectors and the table was verified and redacted.
THEOREM VettingInvariantHolds == Spec => []VettingInvariant
  <1>1. Init => VettingInvariant
    <2> SUFFICES ASSUME ParsingInit PROVE VettingInvariant
      BY DEF Init
    <2>1. JobsShaped
      BY DEF ParsingInit, JobsShaped, NotBusy
    <2>2. Rows(parsed) = {} /\ pushed = NoDocRow /\ DOMAIN parsed = ParseIds
      BY DEF ParsingInit, Rows
    <2> QED
      BY <2>1, <2>2, PushedVetted DEF VettingInvariant, VettedOnTheWay, ParsingInit, NotBusy
  <1>2. VettingInvariant /\ [Next]_documentVars => VettingInvariant'
    <2>1. ASSUME VettingInvariant, NEW p \in Processes, ParsingStep(p) PROVE VettingInvariant'
      <3>1. JobsShaped
        BY <2>1 DEF VettingInvariant
      <3> QED
        BY <2>1, <3>1, TrainingQuiet, EditsQuiet, AccountsQuiet, VettingQuiet, ParsingKeeps DEF ParsingStep
    <2>2. ASSUME VettingInvariant, UNCHANGED parsingVars PROVE VettingInvariant'
      <3>1. djob' = djob /\ sample' = sample /\ pushed' = pushed /\ parsed' = parsed
        BY <2>2 DEF parsingVars
      <3>2. JobsShaped' /\ VettedOnTheWay'
        BY <2>2, <3>1 DEF VettingInvariant, JobsShaped, VettedOnTheWay, Rows, Resembles, Redacted
      <3>3. PushedIsVetted'
        BY <2>2, <3>1 DEF VettingInvariant, PushedIsVetted, Rows
      <3> QED
        BY <3>2, <3>3 DEF VettingInvariant
    <2> QED
      BY <2>1, <2>2, ParsingSteps DEF documentVars
  <1> QED
    BY <1>1, <1>2, PTL DEF Spec

\* Nothing goes to the connectors or into the table that was not checked to be
\* of its type, nor in clear under a name that calls for redaction.
THEOREM PushedIsVettedHolds == Spec => []PushedIsVetted
  <1>1. VettingInvariant => PushedIsVetted
    BY DEF VettingInvariant
  <1> QED
    BY <1>1, VettingInvariantHolds, PTL

-----------------------------------------------------------------------------
(* DocAI: parsing rules, their versions, and sessions that overlap.          *)

VersionRows == [body : RuleBodies, active : BOOLEAN]

\* A session is about a rule that was made.
RulesTyped ==
    /\ prule \in [PRules -> RuleRows \cup {NoDocRow}]
    /\ \A p \in Processes : djob[p].op \in {"rule", "activate"} =>
          djob[p].on \in PRules /\ djob[p].body \in RuleBodies /\ prule[djob[p].on] \in RuleRows

\* A session that nothing came between knows every version of its rule that is
\* active, and the body of the one it is to activate.
Knows(j, x) ==
    /\ j.target = 0 \/ (j.target \in DOMAIN j.vers /\ j.vers[j.target].body = j.body)
    /\ ~j.stale /\ ~x.gone =>
          /\ j.rule = x.body
          /\ \A v \in DOMAIN j.vers : v \in DOMAIN x.vers /\ j.vers[v] = x.vers[v]
          /\ \A v \in DOMAIN x.vers \ DOMAIN j.vers : ~x.vers[v].active

\* A rule that has no version yet is as the request that makes it wrote it.
AsMade(j, x) == x.vers = <<>> /\ ~x.gone /\ j.on \notin overtaken => x.body = j.body

\* What sessions know, and what a rule is before its first version.
RulesKnown ==
    \A p \in Processes :
        /\ djob[p].op = "activate" => Knows(djob[p], prule[djob[p].on])
        /\ djob[p].op = "rule" => AsMade(djob[p], prule[djob[p].on])
        /\ djob[p].op = "rule" =>
              \A o \in Processes : djob[o].op = "rule" /\ djob[o].on = djob[p].on => o = p

RuleInvariant == RulesTyped /\ RulesKnown /\ RuleServesActiveVersion

\* The row x of a rule serves its one active version.
Serves(x) ==
    \E v \in DOMAIN x.vers :
        /\ x.vers[v].active /\ x.vers[v].body = x.body
        /\ \A w \in DOMAIN x.vers \ {v} : ~x.vers[w].active

\* Some process still owes rule r its first version.
BeingMade(r) == \E p \in Processes : djob[p].op = "rule" /\ djob[p].on = r

\* The promise, of each row.
LEMMA RulesServe ==
    RuleServesActiveVersion <=>
        \A r \in DOMAIN prule : prule[r] # NoDocRow /\ ~prule[r].gone /\ r \notin overtaken /\ ~BeingMade(r) => Serves(prule[r])
  BY DEF RuleServesActiveVersion, Serves, BeingMade, LiveRules, Rows

\* The same after a step.
LEMMA RulesServeNext ==
    ASSUME \A r \in DOMAIN prule' :
              prule'[r] # NoDocRow /\ ~prule'[r].gone /\ r \notin overtaken' /\ ~BeingMade(r)' => Serves(prule'[r])
    PROVE  RuleServesActiveVersion'
  BY DEF RuleServesActiveVersion, Serves, BeingMade, LiveRules, Rows

\* A session that another one makes stale keeps what it has loaded.
LEMMA StaleKnows ==
    ASSUME JobsShaped, NEW o \in Processes, djob[o].op = "activate", djob'[o] = [djob[o] EXCEPT !.stale = TRUE], NEW x,
           djob[o].target = 0 \/ (djob[o].target \in DOMAIN djob[o].vers /\ djob[o].vers[djob[o].target].body = djob[o].body)
    PROVE  djob'[o].on = djob[o].on /\ djob'[o].body = djob[o].body /\ djob'[o].op = "activate" /\ Knows(djob'[o], x)
  <1>1. DOMAIN djob[o] = JobFields("activate")
    BY DEF JobsShaped
  <1>2. {"op", "on", "body", "target", "vers"} \subseteq JobFields("activate")
    BY DEF JobFields
  <1>3. /\ \A f \in JobFields("activate") : f # "stale" => djob'[o][f] = djob[o][f]
        /\ djob'[o].stale = TRUE
    BY <1>1, StaleShaped
  <1> QED
    BY <1>2, <1>3 DEF Knows

\* Other processes go on with the rule and the body they have.
LEMMA OthersOn ==
    ASSUME JobsShaped, RulesKnown, NEW p \in Processes, GoesOn(p), NEW o \in Processes, o # p
    PROVE  /\ djob'[o].op = djob[o].op
           /\ djob[o].op \in {"rule", "activate"} => djob'[o].on = djob[o].on /\ djob'[o].body = djob[o].body
           /\ djob[o].op # "activate" => djob'[o] = djob[o]
           /\ \A x : djob[o].op = "activate" /\ Knows(djob[o], x) => Knows(djob'[o], x)
  <1>1. CASE djob'[o] = djob[o]
    BY <1>1
  <1>2. CASE djob[o].op = "activate" /\ djob'[o] = [djob[o] EXCEPT !.stale = TRUE]
    BY <1>2, StaleKnows DEF RulesKnown, Knows
  <1> QED
    BY <1>1, <1>2 DEF GoesOn

\* What a step of process p may do that writes the row x of the rule r.
RuleWritten(p, r, x) ==
    /\ GoesOn(p) /\ prule' = [prule EXCEPT ![r] = x] /\ overtaken \ {r} \subseteq overtaken'
    /\ djob[p].op = "rule" => djob[p].on = r
    /\ djob'[p].op \in {"rule", "activate"} => djob'[p].on = r /\ djob'[p].body \in RuleBodies
    /\ djob'[p].op = "activate" => Knows(djob'[p], x)
    /\ djob'[p].op = "rule" =>
          x.body = djob'[p].body /\ \A o \in Processes : o # p => ~(djob[o].op = "rule" /\ djob[o].on = r)
    /\ \A o \in Processes : o # p /\ djob[o].op = "activate" /\ djob[o].on = r => Knows(djob'[o], x)
    /\ \A o \in Processes : o # p /\ djob[o].op = "rule" /\ djob[o].on = r =>
          (x.vers = <<>> /\ ~x.gone /\ r \notin overtaken' => x.body = djob[o].body)
    /\ ~x.gone /\ r \notin overtaken' /\ ~BeingMade(r)' => Serves(x)

\* Such a step keeps the invariant.
LEMMA RuleMoves ==
    ASSUME RuleInvariant, JobsShaped, NEW p \in Processes, NEW r \in PRules, NEW x \in RuleRows, RuleWritten(p, r, x)
    PROVE  RuleInvariant'
  <1> USE DEF RuleWritten
  <1>1. /\ prule' \in [PRules -> RuleRows \cup {NoDocRow}] /\ prule'[r] = x
        /\ \A s \in PRules : s # r => prule'[s] = prule[s]
    BY DEF RuleInvariant, RulesTyped
  <1>2. ASSUME NEW o \in Processes, o # p
        PROVE  /\ djob'[o].op = djob[o].op
               /\ djob[o].op \in {"rule", "activate"} => djob'[o].on = djob[o].on /\ djob'[o].body = djob[o].body
               /\ djob[o].op # "activate" => djob'[o] = djob[o]
               /\ \A y : djob[o].op = "activate" /\ Knows(djob[o], y) => Knows(djob'[o], y)
    BY <1>2, OthersOn DEF RuleInvariant
  <1>3. RulesTyped'
    <2>1. ASSUME NEW o \in Processes, djob'[o].op \in {"rule", "activate"}
          PROVE  djob'[o].on \in PRules /\ djob'[o].body \in RuleBodies /\ prule'[djob'[o].on] \in RuleRows
      <3>1. CASE o = p
        BY <1>1, <2>1, <3>1
      <3>2. CASE o # p
        <4>1. djob[o].on \in PRules /\ djob[o].body \in RuleBodies /\ prule[djob[o].on] \in RuleRows
          BY <1>2, <2>1, <3>2 DEF RuleInvariant, RulesTyped
        <4>2. djob'[o].on = djob[o].on /\ djob'[o].body = djob[o].body
          BY <1>2, <2>1, <3>2
        <4> QED
          BY <1>1, <4>1, <4>2
      <3> QED
        BY <3>1, <3>2
    <2> QED
      BY <1>1, <2>1 DEF RulesTyped
  <1>4. RulesKnown'
    <2>1. ASSUME NEW o \in Processes, djob'[o].op = "activate" PROVE Knows(djob'[o], prule'[djob'[o].on])
      <3>1. CASE o = p
        BY <1>1, <2>1, <3>1
      <3>2. CASE o # p
        <4>1. /\ djob[o].op = "activate" /\ djob'[o].on = djob[o].on /\ djob[o].on \in PRules
              /\ Knows(djob[o], prule[djob[o].on])
          BY <1>2, <2>1, <3>2 DEF RuleInvariant, RulesTyped, RulesKnown
        <4> QED
          BY <1>1, <1>2, <3>2, <4>1
      <3> QED
        BY <3>1, <3>2
    <2>2. ASSUME NEW o \in Processes, djob'[o].op = "rule" PROVE AsMade(djob[o], prule[djob[o].on])'
      <3>1. CASE o = p
        BY <1>1, <2>2, <3>1 DEF AsMade
      <3>2. CASE o # p
        <4>1. /\ djob[o].op = "rule" /\ djob'[o] = djob[o] /\ djob[o].on \in PRules
              /\ AsMade(djob[o], prule[djob[o].on])
          BY <1>2, <2>2, <3>2 DEF RuleInvariant, RulesTyped, RulesKnown
        <4>2. CASE djob[o].on = r
          BY <1>1, <3>2, <4>1, <4>2 DEF AsMade
        <4>3. CASE djob[o].on # r
          <5>1. djob[o].on \in overtaken => djob[o].on \in overtaken'
            BY <4>3
          <5> QED
            BY <1>1, <4>1, <4>3, <5>1 DEF AsMade
        <4> QED
          BY <4>2, <4>3
      <3> QED
        BY <3>1, <3>2
    <2>3. ASSUME NEW o \in Processes, djob'[o].op = "rule",
                 NEW q \in Processes, djob'[q].op = "rule", djob'[q].on = djob'[o].on
          PROVE  q = o
      <3>1. \A k \in Processes : k # p /\ djob'[k].op = "rule" => djob[k].op = "rule" /\ djob'[k].on = djob[k].on
        BY <1>2
      <3> QED
        BY <2>3, <3>1 DEF RuleInvariant, RulesKnown
    <2> QED
      BY <2>1, <2>2, <2>3 DEF RulesKnown
  <1>5. RuleServesActiveVersion'
    <2>1. ASSUME NEW s \in PRules, prule'[s] # NoDocRow, ~prule'[s].gone, s \notin overtaken', ~BeingMade(s)'
          PROVE  Serves(prule'[s])
      <3>1. CASE s = r
        BY <1>1, <2>1, <3>1
      <3>2. CASE s # r
        <4>1. prule'[s] = prule[s] /\ s \notin overtaken
          BY <1>1, <2>1, <3>2
        <4>2. ~BeingMade(s)
          <5>1. ASSUME NEW o \in Processes, djob[o].op = "rule", djob[o].on = s PROVE FALSE
            <6>1. o # p
              BY <3>2, <5>1
            <6>2. djob'[o] = djob[o]
              BY <1>2, <5>1, <6>1
            <6> QED
              BY <2>1, <5>1, <6>2 DEF BeingMade
          <5> QED
            BY <5>1 DEF BeingMade
        <4>3. s \in DOMAIN prule
          BY DEF RuleInvariant, RulesTyped
        <4> QED
          BY <2>1, <4>1, <4>2, <4>3, RulesServe DEF RuleInvariant
      <3> QED
        BY <3>1, <3>2
    <2> QED
      BY <1>1, <2>1, RulesServeNext
  <1> QED
    BY <1>3, <1>4, <1>5 DEF RuleInvariant

\* A step that has nothing to do with rules.
Aside(p) ==
    /\ \A o \in Processes : o # p => djob'[o] = djob[o]
    /\ djob[p].op # "rule" /\ djob'[p].op \notin {"rule", "activate"}
    /\ prule' = prule /\ overtaken' = overtaken

\* A step that is aside of the rules keeps them as they fit.
LEMMA RulesAside ==
    ASSUME RuleInvariant, NEW p \in Processes, Aside(p)
    PROVE  RuleInvariant'
  <1>1. ASSUME NEW o \in Processes, djob'[o].op \in {"rule", "activate"}
        PROVE  djob'[o] = djob[o]
    BY <1>1 DEF Aside
  <1>2. RulesTyped'
    BY <1>1 DEF RuleInvariant, RulesTyped, Aside
  <1>3. RulesKnown'
    BY <1>1 DEF RuleInvariant, RulesKnown, AsMade, Aside
  <1>4. \A r : BeingMade(r) => BeingMade(r)'
    BY DEF BeingMade, Aside
  <1>5. RuleServesActiveVersion'
    BY <1>4, RulesServe, RulesServeNext DEF RuleInvariant, Aside
  <1> QED
    BY <1>2, <1>3, <1>5 DEF RuleInvariant

-----------------------------------------------------------------------------

\* Requests that do not touch rules step aside of them.
LEMMA OtherStepsAside ==
    ASSUME JobsShaped, NEW p \in Processes, TrainTypes(p) \/ EditMappings(p) \/ ParseFiles(p) \/ Accounts(p)
    PROVE  Aside(p)
  <1> USE DEF ruleVars
  <1>1. DOMAIN djob = Processes
    BY DEF JobsShaped
  <1>2. ASSUME NEW job, djob' = [djob EXCEPT ![p] = job], job.op \notin {"rule", "activate"}, djob[p].op # "rule",
               UNCHANGED ruleVars \/ UNCHANGED <<prule, overtaken>>
        PROVE  Aside(p)
    BY <1>1, <1>2 DEF Aside
  <1>3. NotBusy.op = "none"
    BY DEF NotBusy
  <1>4. CASE TrainTypes(p)
    <2>1. ASSUME NEW t, soft_delete_document_type(p, t) PROVE Aside(p)
      BY <1>3, <2>1 DEF soft_delete_document_type, Aside
    <2>2. ASSUME NEW t, NEW th, NEW texts, upsert_document_type(p, t, th, texts) PROVE Aside(p)
      <3> DEFINE job == [op |-> "train", type |-> t, todo |-> texts, doc |-> 0]
      <3>1. job.op = "train" /\ djob' = [djob EXCEPT ![p] = job] /\ djob[p] = NotBusy /\ UNCHANGED <<prule, overtaken>>
        BY <2>2 DEF upsert_document_type, Begin
      <3> HIDE DEF job
      <3> QED
        BY <1>2, <1>3, <3>1
    <2>3. ASSUME NEW d, register(p, d) PROVE Aside(p)
      <3>1. [djob[p] EXCEPT !.doc = d].op = "train" /\ djob[p].op = "train"
        BY <2>3 DEF register, JobsShaped, JobFields
      <3> QED
        BY <1>2, <2>3, <3>1 DEF register, Go
    <2>4. ASSUME register_template(p) PROVE Aside(p)
      <3>1. [djob[p] EXCEPT !.todo = Tail(@)].op = "train" /\ djob[p].op = "train"
        BY <2>4 DEF register_template, JobsShaped, JobFields
      <3> QED
        BY <1>2, <1>3, <2>4, <3>1 DEF register_template, Go, Finish
    <2>5. ASSUME StoreFails(p) PROVE Aside(p)
      BY <1>2, <1>3, <2>5 DEF StoreFails, UsesStore, Go, Finish
    <2> QED
      BY <1>4, <2>1, <2>2, <2>3, <2>4, <2>5 DEF TrainTypes
  <1>5. CASE EditMappings(p)
    <2>1. ASSUME NEW t, NEW m, create_field_mapping(p, t, m) \/ delete_field_mapping(p, t, m) PROVE Aside(p)
      BY <1>3, <2>1 DEF create_field_mapping, delete_field_mapping, Aside
    <2> QED
      BY <1>5, <2>1 DEF EditMappings
  <1>6. CASE ParseFiles(p)
    <2>1. ASSUME NEW d, NEW f, BeginParse(p, d, f) PROVE Aside(p)
      <3> DEFINE out == route_document(f, entry[d])
                 job == [op |-> "verify", doc |-> d, text |-> out.text, confidence |-> out.confidence]
      <3>1. job.op = "verify" /\ djob' = [djob EXCEPT ![p] = job] /\ djob[p] = NotBusy /\ UNCHANGED <<prule, overtaken>>
        BY <2>1 DEF BeginParse, Begin
      <3> HIDE DEF job
      <3> QED
        BY <1>2, <1>3, <3>1
    <2>2. ASSUME Reject(p) PROVE Aside(p)
      BY <1>2, <1>3, <2>2 DEF Reject, Go, Finish
    <2>3. ASSUME Verify(p) PROVE Aside(p)
      <3>1. [djob[p] EXCEPT !.op = "extract"].op = "extract" /\ djob[p].op = "verify"
        BY <2>3 DEF Verify, JobsShaped, JobFields
      <3> QED
        BY <1>2, <2>3, <3>1 DEF Verify, Go
    <2>4. ASSUME dispatch(p) PROVE Aside(p)
      <3>1. PICK job : /\ job.op = "store" /\ djob' = [djob EXCEPT ![p] = job]
                       /\ djob[p].op = "extract" /\ UNCHANGED <<prule, overtaken>>
        <4> DEFINE F == ExtractedFields(djob[p].text, entry[djob[p].doc])
                   st == IF djob[p].confidence < confidence_threshold_for_doc_type(entry[djob[p].doc])
                         THEN "needs_review" ELSE "completed"
                   job == [op |-> "store", doc |-> djob[p].doc, text |-> djob[p].text, fields |-> F, status |-> st]
        <4>1. djob' = [djob EXCEPT ![p] = job] /\ djob[p].op = "extract" /\ UNCHANGED <<prule, overtaken>>
          BY <2>4 DEF dispatch, Go
        <4> HIDE DEF F, st
        <4>2. job.op = "store"
          OBVIOUS
        <4> HIDE DEF job
        <4> QED
          BY <4>1, <4>2
      <3> QED
        BY <1>2, <3>1
    <2>5. ASSUME NEW q, store_parse_request(p, q) PROVE Aside(p)
      BY <1>2, <1>3, <2>5 DEF store_parse_request, Go, Finish
    <2>6. ASSUME NEW q, save_parse_correction(p, q) PROVE Aside(p)
      <3> DEFINE job == [op |-> "learn", on |-> q]
      <3>1. job.op = "learn" /\ djob' = [djob EXCEPT ![p] = job] /\ djob[p] = NotBusy /\ UNCHANGED <<prule, overtaken>>
        BY <2>6 DEF save_parse_correction, Begin
      <3> HIDE DEF job
      <3> QED
        BY <1>2, <1>3, <3>1
    <2>7. ASSUME NEW text, apply_correction_learning(p, text) PROVE Aside(p)
      BY <1>2, <1>3, <2>7 DEF apply_correction_learning, Go, Finish
    <2> QED
      BY <1>6, <2>1, <2>2, <2>3, <2>4, <2>5, <2>6, <2>7 DEF ParseFiles
  <1>7. CASE Accounts(p)
    <2>1. ASSUME NEW e, NEW k, login_for_access_token(p, e, k) \/ logout(p, k) PROVE Aside(p)
      BY <1>3, <2>1 DEF login_for_access_token, logout, Aside
    <2>2. ASSUME NEW e, NEW role, NEW admin, BeginRegister(p, e, role, admin) PROVE Aside(p)
      <3> DEFINE job == [op |-> "register", email |-> e, row |-> [role |-> role, invited |-> admin /\ IsAdmin(p)]]
      <3>1. job.op = "register" /\ djob' = [djob EXCEPT ![p] = job] /\ djob[p] = NotBusy /\ UNCHANGED <<prule, overtaken>>
        BY <2>2 DEF BeginRegister, Begin
      <3> HIDE DEF job
      <3> QED
        BY <1>2, <1>3, <3>1
    <2>3. ASSUME register_user(p) PROVE Aside(p)
      BY <1>2, <1>3, <2>3 DEF register_user, Go, Finish
    <2> QED
      BY <1>7, <2>1, <2>2, <2>3 DEF Accounts
  <1> QED
    BY <1>4, <1>5, <1>6, <1>7

-----------------------------------------------------------------------------

\* The set of rows with the sequences left unexpanded.
RuleRowsOf(S) == [on : DocTypes, body : RuleBodies, vers : S, gone : BOOLEAN]

\* The rows are those of all sequences of versions.
LEMMA RuleRowsAre == RuleRows = RuleRowsOf(Seq(VersionRows)) /\ <<>> \in Seq(VersionRows)
  BY DEF RuleRows, RuleRowsOf, VersionRows

\* The fields of a row.
LEMMA RuleFields ==
    ASSUME NEW x \in RuleRows
    PROVE  x.vers \in Seq(VersionRows) /\ x.body \in RuleBodies /\ x.gone \in BOOLEAN
  <1> DEFINE S == Seq(VersionRows)
  <1> HIDE DEF S
  <1>1. x \in RuleRowsOf(S)
    BY RuleRowsAre DEF S
  <1>2. x.vers \in S /\ x.body \in RuleBodies /\ x.gone \in BOOLEAN
    BY <1>1 DEF RuleRowsOf
  <1> QED
    BY <1>2 DEF S

\* What the requests make of a row.
Rewritten(x, b, V) == [x EXCEPT !.body = b, !.vers = V]

\* A row with another body and other versions is a row.
LEMMA RuleRewritten ==
    ASSUME NEW x \in RuleRows, NEW b \in RuleBodies, NEW V \in Seq(VersionRows)
    PROVE  /\ Rewritten(x, b, V) \in RuleRows /\ Rewritten(x, b, V).body = b
           /\ Rewritten(x, b, V).vers = V /\ Rewritten(x, b, V).gone = x.gone
  <1> DEFINE S == Seq(VersionRows)
             y == Rewritten(x, b, V)
  <1> HIDE DEF S
  <1>1. x \in RuleRowsOf(S) /\ V \in S
    BY RuleRowsAre DEF S
  <1>2. y \in RuleRowsOf(S) /\ y.body = b /\ y.vers = V /\ y.gone = x.gone
    BY <1>1 DEF RuleRowsOf, Rewritten
  <1> QED
    BY <1>2, RuleRowsAre DEF S

\* A row with other versions is a row.
LEMMA RuleVersioned ==
    ASSUME NEW x \in RuleRows, NEW V \in Seq(VersionRows), NEW y, y = [x EXCEPT !.vers = V]
    PROVE  y \in RuleRows /\ y.body = x.body /\ y.vers = V /\ y.gone = x.gone
  <1> DEFINE S == Seq(VersionRows)
  <1> HIDE DEF S
  <1>1. x \in RuleRowsOf(S) /\ V \in S
    BY RuleRowsAre DEF S
  <1>2. y \in RuleRowsOf(S) /\ y.body = x.body /\ y.vers = V /\ y.gone = x.gone
    BY <1>1 DEF RuleRowsOf
  <1> QED
    BY <1>2, RuleRowsAre DEF S

\* A deleted rule is a row without versions.
LEMMA RuleRemoved ==
    ASSUME NEW x \in RuleRows, NEW y, y = [x EXCEPT !.gone = TRUE, !.vers = <<>>]
    PROVE  y \in RuleRows /\ y.gone = TRUE
  <1> DEFINE S == Seq(VersionRows)
  <1> HIDE DEF S
  <1>1. x \in RuleRowsOf(S) /\ <<>> \in S
    BY RuleRowsAre DEF S
  <1>2. y \in RuleRowsOf(S) /\ y.gone = TRUE
    BY <1>1 DEF RuleRowsOf
  <1> QED
    BY <1>2, RuleRowsAre DEF S

\* A version that is added comes last and leaves the others alone.
LEMMA VersionAppended ==
    ASSUME NEW V \in Seq(VersionRows), NEW v \in VersionRows
    PROVE  /\ Append(V, v) \in Seq(VersionRows) /\ Append(V, v) # <<>>
           /\ DOMAIN Append(V, v) = DOMAIN V \cup {Len(V) + 1}
           /\ Len(V) + 1 \notin DOMAIN V
           /\ \A i \in DOMAIN V : Append(V, v)[i] = V[i]
           /\ Append(V, v)[Len(V) + 1] = v
           /\ V = <<>> <=> DOMAIN V = {}
  <1>1. Append(V, v) \in Seq(VersionRows) /\ Len(Append(V, v)) = Len(V) + 1 /\ Len(V) \in Nat
    OBVIOUS
  <1>2. DOMAIN Append(V, v) = 1..(Len(V) + 1) /\ DOMAIN V = 1..Len(V)
    BY <1>1
  <1>3. Append(V, v) # <<>>
    BY <1>1
  <1>4. \A i \in 1..Len(V) : Append(V, v)[i] = V[i]
    BY <1>1
  <1>5. Append(V, v)[Len(V) + 1] = v
    BY <1>1
  <1>6. V = <<>> <=> DOMAIN V = {}
    OBVIOUS
  <1> QED
    BY <1>1, <1>2, <1>3, <1>4, <1>5, <1>6

\* A body and a flag are a version.
LEMMA VersionMade ==
    ASSUME NEW b \in RuleBodies, NEW a \in BOOLEAN
    PROVE  [body |-> b, active |-> a] \in VersionRows
  BY DEF VersionRows

\* A rule and its first version are made by one request, in two steps.
LEMMA RuleCreated ==
    ASSUME RuleInvariant, JobsShaped, NEW p \in Processes,
           \/ \E r \in PRules, body \in RuleBodies, t \in DocTypes : BeginRule(p, r, t, body)
           \/ create_parsing_rule(p)
    PROVE  RuleInvariant'
  <1>1. ASSUME NEW r \in PRules, NEW body \in RuleBodies, NEW t \in DocTypes, BeginRule(p, r, t, body)
        PROVE  RuleInvariant'
    <2> DEFINE job == [op |-> "rule", on |-> r, body |-> body]
               x == [on |-> t, body |-> body, vers |-> <<>>, gone |-> FALSE]
    <2>1. /\ djob[p] = NotBusy /\ djob' = [djob EXCEPT ![p] = job] /\ prule[r] = NoDocRow
          /\ prule' = [prule EXCEPT ![r] = x] /\ overtaken' = overtaken
      BY <1>1 DEF BeginRule, Begin, NewRow
    <2>2. job.op = "rule" /\ job.on = r /\ job.body = body
      OBVIOUS
    <2>3. x.body = body /\ x \in RuleRows
      BY DEF RuleRows
    <2>4. djob[p].op = "none"
      BY <2>1 DEF NotBusy
    <2>5. \A o \in Processes : ~(djob[o].op \in {"rule", "activate"} /\ djob[o].on = r)
      BY <2>1, ParsingAssumption DEF RuleInvariant, RulesTyped
    <2> HIDE DEF job, x
    <2>6. GoesOn(p) /\ djob'[p] = job
      BY <2>1, JobPut
    <2>7. BeingMade(r)'
      BY <2>2, <2>6 DEF BeingMade
    <2>8. /\ djob'[p].op = "rule" /\ djob'[p].on = r /\ djob'[p].body \in RuleBodies
          /\ x.body = djob'[p].body /\ overtaken \ {r} \subseteq overtaken' /\ djob[p].op # "rule"
      BY <2>1, <2>2, <2>3, <2>4, <2>6
    <2>9. RuleWritten(p, r, x)
      BY <2>1, <2>5, <2>6, <2>7, <2>8 DEF RuleWritten
    <2> QED
      BY <2>3, <2>9, RuleMoves
  <1>2. ASSUME create_parsing_rule(p) PROVE RuleInvariant'
    <2> DEFINE r == djob[p].on
               v == [body |-> djob[p].body, active |-> TRUE]
               x == IF prule[r].gone THEN prule[r] ELSE [prule[r] EXCEPT !.vers = Append(prule[r].vers, v)]
    <2>1. /\ djob[p].op = "rule" /\ RuleChanged(p, r)
          /\ prule' = IF prule[r].gone THEN prule ELSE [prule EXCEPT ![r].vers = Append(@, v)]
          /\ overtaken' = IF prule[r].vers = <<>> THEN overtaken ELSE overtaken \cup {r}
      BY <1>2 DEF create_parsing_rule
    <2>2. r \in PRules /\ djob[p].body \in RuleBodies /\ prule[r] \in RuleRows
      BY <2>1 DEF RuleInvariant, RulesTyped
    <2>3. v \in VersionRows /\ v.active /\ v.body = djob[p].body
      BY <2>2, VersionMade
    <2>4. prule' = [prule EXCEPT ![r] = x]
      BY <2>1, <2>2 DEF RuleInvariant, RulesTyped
    <2>5. AsMade(djob[p], prule[r])
      BY <2>1 DEF RuleInvariant, RulesKnown
    <2>6. \A o \in Processes : o # p => ~(djob[o].op = "rule" /\ djob[o].on = r)
      BY <2>1 DEF RuleInvariant, RulesKnown
    <2> HIDE DEF v
    <2>7. prule[r].vers \in Seq(VersionRows) /\ Append(prule[r].vers, v) \in Seq(VersionRows)
      BY <2>2, <2>3, RuleFields, VersionAppended
    <2>8. x \in RuleRows /\ x.gone = prule[r].gone /\ x.body = prule[r].body
      <3>1. CASE prule[r].gone
        BY <2>2, <3>1
      <3>2. CASE ~prule[r].gone
        <4> DEFINE y == prule[r]
                   V == Append(y.vers, v)
        <4>1. x = [y EXCEPT !.vers = V]
          BY <3>2
        <4>2. y \in RuleRows /\ V \in Seq(VersionRows)
          BY <2>2, <2>7
        <4> HIDE DEF x, V, y
        <4>3. x \in RuleRows /\ x.gone = y.gone /\ x.body = y.body
          BY <4>1, <4>2, RuleVersioned
        <4> QED
          BY <4>3 DEF y
      <3> QED
        BY <3>1, <3>2
    <2>9. ~x.gone => x.vers = Append(prule[r].vers, v)
      <3>1. ~prule[r].gone => x = [prule[r] EXCEPT !.vers = Append(prule[r].vers, v)]
        OBVIOUS
      <3> HIDE DEF x
      <3> QED
        BY <2>2, <2>7, <2>8, <3>1, RuleVersioned
    <2>10. ~x.gone /\ r \notin overtaken' => Serves(x)
      <3> SUFFICES ASSUME ~x.gone, r \notin overtaken' PROVE Serves(x)
        OBVIOUS
      <3>1. prule[r].vers = <<>> /\ r \notin overtaken
        BY <2>1
      <3>2. x.body = djob[p].body
        BY <2>5, <2>8, <3>1 DEF AsMade
      <3>3. DOMAIN x.vers = {Len(prule[r].vers) + 1} /\ x.vers[Len(prule[r].vers) + 1] = v
        BY <2>3, <2>7, <2>9, <3>1, VersionAppended
      <3> QED
        BY <2>3, <3>2, <3>3 DEF Serves
    <2>11. GoesOn(p) /\ djob'[p] = NotBusy /\ NotBusy.op = "none"
      BY <2>1, RuleChangedGoesOn DEF NotBusy
    <2>12. ASSUME NEW o \in Processes, o # p, djob[o].op = "activate", djob[o].on = r PROVE Knows(djob'[o], x)
      <3>1. djob'[o] = [djob[o] EXCEPT !.stale = TRUE]
        BY <2>1, <2>12 DEF RuleChanged
      <3>2. djob[o].target = 0 \/ (djob[o].target \in DOMAIN djob[o].vers /\ djob[o].vers[djob[o].target].body = djob[o].body)
        BY <2>12 DEF RuleInvariant, RulesKnown, Knows
      <3> QED
        BY <2>12, <3>1, <3>2, StaleKnows
    <2> HIDE DEF x
    <2>13. overtaken \ {r} \subseteq overtaken'
      BY <2>1
    <2>14. djob'[p].op \notin {"rule", "activate"}
      BY <2>11
    <2>15. \A o \in Processes : o # p /\ djob[o].op = "rule" => djob[o].on # r
      BY <2>6
    <2>16. RuleWritten(p, r, x)
      BY <2>4, <2>10, <2>11, <2>12, <2>13, <2>14, <2>15 DEF RuleWritten
    <2> HIDE DEF r
    <2> QED
      BY <2>2, <2>8, <2>16, RuleMoves
  <1> QED
    BY <1>1, <1>2

-----------------------------------------------------------------------------

\* A deleted rule promises nothing any more.
LEMMA RuleDeleted ==
    ASSUME RuleInvariant, JobsShaped, NEW p \in Processes, NEW r \in PRules, delete_parsing_rule(p, r)
    PROVE  RuleInvariant'
  <1> DEFINE x == [prule[r] EXCEPT !.gone = TRUE, !.vers = <<>>]
  <1>1. /\ djob[p] = NotBusy /\ djob' = djob /\ overtaken' = overtaken /\ r \in LiveRules
        /\ prule' = [prule EXCEPT ![r].gone = TRUE, ![r].vers = <<>>]
    BY DEF delete_parsing_rule
  <1>2. prule[r] \in RuleRows /\ r \in DOMAIN prule
    BY <1>1 DEF LiveRules, Rows, RuleInvariant, RulesTyped
  <1>3. prule' = [prule EXCEPT ![r] = x]
    BY <1>1, <1>2
  <1> HIDE DEF x
  <1>4. x \in RuleRows /\ x.gone = TRUE
    BY <1>2, RuleRemoved DEF x
  <1>5. GoesOn(p) /\ djob'[p].op = "none"
    BY <1>1 DEF GoesOn, JobsShaped, NotBusy
  <1>6. ASSUME NEW o \in Processes, djob[o].op = "activate" PROVE Knows(djob'[o], x)
    BY <1>1, <1>4, <1>6 DEF Knows, RuleInvariant, RulesKnown
  <1>7. RuleWritten(p, r, x)
    BY <1>1, <1>3, <1>4, <1>5, <1>6 DEF RuleWritten
  <1> QED
    BY <1>4, <1>7, RuleMoves

\* A version that is not active changes nothing that a session has to know.
LEMMA VersionAdded ==
    ASSUME RuleInvariant, JobsShaped, NEW p \in Processes, NEW r \in PRules, NEW body \in RuleBodies,
           AddVersion(p, r, body)
    PROVE  RuleInvariant'
  <1> DEFINE y == prule[r]
             v == [body |-> body, active |-> FALSE]
             V == Append(y.vers, v)
             x == [y EXCEPT !.vers = V]
  <1>1. /\ djob[p] = NotBusy /\ djob' = djob /\ overtaken' = overtaken /\ r \in LiveRules
        /\ prule' = [prule EXCEPT ![r].vers = Append(@, v)]
    BY DEF AddVersion
  <1>2. y \in RuleRows /\ r \in DOMAIN prule /\ y # NoDocRow /\ ~y.gone
    BY <1>1 DEF LiveRules, Rows, RuleInvariant, RulesTyped
  <1>3. prule' = [prule EXCEPT ![r] = x]
    BY <1>1, <1>2
  <1>4. v \in VersionRows /\ v.active = FALSE
    BY VersionMade
  <1> HIDE DEF v
  <1>5. /\ V \in Seq(VersionRows) /\ V # <<>>
        /\ DOMAIN V = DOMAIN y.vers \cup {Len(y.vers) + 1} /\ V[Len(y.vers) + 1] = v
        /\ \A i \in DOMAIN y.vers : V[i] = y.vers[i]
    BY <1>2, <1>4, RuleFields, VersionAppended
  <1> HIDE DEF V
  <1>6. x = [y EXCEPT !.vers = V]
    OBVIOUS
  <1> HIDE DEF x, y
  <1>7. x \in RuleRows /\ x.body = y.body /\ x.vers = V /\ x.gone = y.gone
    BY <1>2, <1>5, <1>6, RuleVersioned
  <1>8. GoesOn(p) /\ djob'[p].op = "none" /\ djob[p].op = "none"
    BY <1>1 DEF GoesOn, JobsShaped, NotBusy
  <1>9. ASSUME NEW o \in Processes, djob[o].op = "activate", djob[o].on = r PROVE Knows(djob'[o], x)
    <2>1. Knows(djob[o], y)
      BY <1>9 DEF RuleInvariant, RulesKnown, y
    <2> QED
      BY <1>1, <1>4, <1>5, <1>7, <2>1 DEF Knows
  <1>10. ASSUME r \notin overtaken, ~BeingMade(r)' PROVE Serves(x)
    <2>1. ~BeingMade(r)
      BY <1>1, <1>10 DEF BeingMade
    <2>2. Serves(y)
      BY <1>2, <1>10, <2>1, RulesServe DEF RuleInvariant, y
    <2> QED
      BY <1>4, <1>5, <1>7, <2>2 DEF Serves
  <1>11. RuleWritten(p, r, x)
    BY <1>1, <1>3, <1>5, <1>7, <1>8, <1>9, <1>10 DEF RuleWritten
  <1> QED
    BY <1>7, <1>11, RuleMoves

\* A process begins a session, or dies in one: the rows stay as they are.
LEMMA RowsStay ==
    ASSUME RuleInvariant, JobsShaped, NEW p \in Processes, NEW r \in PRules, prule[r] \in RuleRows,
           GoesOn(p), \A o \in Processes : o # p => djob'[o] = djob[o],
           prule' = prule, overtaken \ {r} \subseteq overtaken',
           djob[p].op = "rule" => djob[p].on = r /\ r \in overtaken',
           r \notin overtaken' => r \notin overtaken,
           djob'[p].op # "rule",
           djob'[p].op = "activate" => djob'[p].on = r /\ djob'[p].body \in RuleBodies /\ Knows(djob'[p], prule[r])
    PROVE  RuleInvariant'
  <1>1. prule' = [prule EXCEPT ![r] = prule[r]]
    BY DEF RuleInvariant, RulesTyped
  <1>2. ASSUME NEW o \in Processes, o # p, djob[o].op = "activate", djob[o].on = r PROVE Knows(djob'[o], prule[r])
    BY <1>2 DEF RuleInvariant, RulesKnown
  <1>3. ASSUME NEW o \in Processes, o # p, djob[o].op = "rule", djob[o].on = r, prule[r].vers = <<>>,
               ~prule[r].gone, r \notin overtaken'
        PROVE  prule[r].body = djob[o].body
    BY <1>3 DEF RuleInvariant, RulesKnown, AsMade
  <1>4. ASSUME ~prule[r].gone, r \notin overtaken', ~BeingMade(r)' PROVE Serves(prule[r])
    <2>1. ~BeingMade(r)
      BY <1>4 DEF BeingMade
    <2> QED
      BY <1>4, <2>1, RulesServe, ParsingAssumption DEF RuleInvariant, RulesTyped
  <1>5. RuleWritten(p, r, prule[r])
    BY <1>1, <1>2, <1>3, <1>4 DEF RuleWritten
  <1> QED
    BY <1>5, RuleMoves

\* A session begins with what the rows say.
LEMMA SessionBegun ==
    ASSUME RuleInvariant, JobsShaped, NEW p \in Processes, NEW r \in PRules,
           \/ \E v \in 1..MaxRuleVersions + 1 : BeginActivate(p, r, v)
           \/ \E body \in RuleBodies : BeginVersion(p, r, body)
    PROVE  RuleInvariant'
  <1>1. PICK body, target :
            /\ djob[p] = NotBusy /\ djob' = [djob EXCEPT ![p] = Loaded(r, body, target)]
            /\ r \in LiveRules /\ UNCHANGED <<prule, overtaken>>
            /\ body \in RuleBodies
            /\ target = 0 \/ (target \in DOMAIN prule[r].vers /\ prule[r].vers[target].body = body)
    <2>1. ASSUME NEW v \in 1..MaxRuleVersions + 1, BeginActivate(p, r, v)
          PROVE  /\ djob[p] = NotBusy /\ djob' = [djob EXCEPT ![p] = Loaded(r, prule[r].vers[v].body, v)]
                 /\ r \in LiveRules /\ UNCHANGED <<prule, overtaken>>
                 /\ prule[r].vers[v].body \in RuleBodies /\ v \in DOMAIN prule[r].vers
      <3>1. r \in LiveRules /\ v \in DOMAIN prule[r].vers
        BY <2>1 DEF BeginActivate
      <3>2. prule[r] \in RuleRows
        BY <3>1 DEF LiveRules, Rows, RuleInvariant, RulesTyped
      <3>3. prule[r].vers[v] \in VersionRows
        BY <3>1, <3>2, RuleFields
      <3> QED
        BY <2>1, <3>1, <3>3 DEF BeginActivate, Begin, ruleVars, VersionRows
    <2>2. ASSUME NEW body \in RuleBodies, BeginVersion(p, r, body)
          PROVE  /\ djob[p] = NotBusy /\ djob' = [djob EXCEPT ![p] = Loaded(r, body, 0)]
                 /\ r \in LiveRules /\ UNCHANGED <<prule, overtaken>>
      BY <2>2 DEF BeginVersion, Begin, ruleVars
    <2> QED
      BY <2>1, <2>2
  <1>2. prule[r] \in RuleRows
    BY <1>1 DEF LiveRules, Rows, RuleInvariant, RulesTyped
  <1>3. GoesOn(p) /\ djob'[p] = Loaded(r, body, target)
    BY <1>1, JobPut
  <1>4. /\ djob'[p].op = "activate" /\ djob'[p].on = r /\ djob'[p].body = body /\ djob'[p].target = target
        /\ djob'[p].rule = prule[r].body /\ djob'[p].vers = prule[r].vers
    BY <1>3 DEF Loaded
  <1>5. Knows(djob'[p], prule[r])
    BY <1>1, <1>4 DEF Knows
  <1>6. djob[p].op = "none" /\ \A o \in Processes : o # p => djob'[o] = djob[o]
    BY <1>1 DEF NotBusy
  <1> QED
    BY <1>1, <1>2, <1>3, <1>4, <1>5, <1>6, RowsStay

-----------------------------------------------------------------------------

\* What an activation makes of a row, whatever the session knows.
LEMMA ActivatedRow ==
    ASSUME NEW x \in RuleRows, NEW j, j.body \in RuleBodies, NEW y, y = Activated(x, j)
    PROVE  /\ y \in RuleRows /\ y.gone = x.gone
           /\ y.body = IF j.body # j.rule THEN j.body ELSE x.body
           /\ \A v \in DOMAIN x.vers :
                 /\ v \in DOMAIN y.vers /\ y.vers[v].body = x.vers[v].body
                 /\ y.vers[v].active = IF v \in DOMAIN j.vers /\ j.vers[v].active # (v = j.target)
                                       THEN v = j.target ELSE x.vers[v].active
           /\ j.target = 0 =>
                 /\ DOMAIN y.vers = DOMAIN x.vers \cup {Len(x.vers) + 1} /\ Len(x.vers) + 1 \notin DOMAIN x.vers
                 /\ y.vers[Len(x.vers) + 1] = [body |-> j.body, active |-> TRUE]
           /\ j.target # 0 => DOMAIN y.vers = DOMAIN x.vers
           /\ y.vers = <<>> => j.target # 0 /\ x.vers = <<>>
  <1> DEFINE n == Len(x.vers)
             Flag(v) == IF v \in DOMAIN j.vers /\ j.vers[v].active # (v = j.target) THEN v = j.target ELSE x.vers[v].active
             W == [v \in DOMAIN x.vers |-> [x.vers[v] EXCEPT !.active = Flag(v)]]
             V == IF j.target = 0 THEN Append(W, [body |-> j.body, active |-> TRUE]) ELSE W
             b == IF j.body # j.rule THEN j.body ELSE x.body
  <1>1. y = Rewritten(x, b, V)
    BY DEF Activated, Rewritten
  <1>2. x.vers \in Seq(VersionRows) /\ b \in RuleBodies /\ n \in Nat /\ DOMAIN x.vers = 1..n
    BY RuleFields
  <1>3. ASSUME NEW v \in DOMAIN x.vers
        PROVE  W[v] \in VersionRows /\ W[v].body = x.vers[v].body /\ W[v].active = Flag(v)
    <2>1. x.vers[v] \in VersionRows
      BY <1>2
    <2>2. Flag(v) \in BOOLEAN
      BY <2>1 DEF VersionRows
    <2>3. W[v] = [x.vers[v] EXCEPT !.active = Flag(v)]
      OBVIOUS
    <2> HIDE DEF W, Flag
    <2> QED
      BY <2>1, <2>2, <2>3 DEF VersionRows
  <1>4. DOMAIN W = 1..n
    BY <1>2
  <1>5. W \in [1..n -> VersionRows]
    BY <1>2, <1>3
  <1> HIDE DEF W, Flag
  <1>6. W \in Seq(VersionRows) /\ Len(W) = n
    BY <1>2, <1>4, <1>5
  <1>7. [body |-> j.body, active |-> TRUE] \in VersionRows
    BY VersionMade
  <1>8. CASE j.target = 0
    <2>1. V = Append(W, [body |-> j.body, active |-> TRUE])
      BY <1>8
    <2> DEFINE last == [body |-> j.body, active |-> TRUE]
    <2> HIDE DEF last, V, b
    <2>2. /\ V \in Seq(VersionRows) /\ V # <<>> /\ DOMAIN V = DOMAIN W \cup {n + 1} /\ n + 1 \notin DOMAIN W
          /\ \A i \in DOMAIN W : V[i] = W[i]
          /\ V[n + 1] = last
      BY <1>6, <1>7, <2>1, VersionAppended DEF last
    <2>4. b \in RuleBodies /\ V \in Seq(VersionRows) /\ y = Rewritten(x, b, V)
      BY <1>1, <1>2, <2>2
    <2>3. y \in RuleRows /\ y.body = b /\ y.vers = V /\ y.gone = x.gone
      BY <2>4, RuleRewritten
    <2> QED
      BY <1>2, <1>3, <1>4, <1>8, <2>2, <2>3 DEF last, b, Flag
  <1>9. CASE j.target # 0
    <2>1. V = W
      BY <1>9
    <2> HIDE DEF V, b
    <2>4. b \in RuleBodies /\ W \in Seq(VersionRows) /\ y = Rewritten(x, b, W)
      BY <1>1, <1>2, <1>6, <2>1
    <2>2. y \in RuleRows /\ y.body = b /\ y.vers = W /\ y.gone = x.gone
      BY <2>4, RuleRewritten
    <2>3. W = <<>> => x.vers = <<>>
      BY <1>2, <1>6
    <2> QED
      BY <1>2, <1>3, <1>4, <1>9, <2>2, <2>3 DEF b, Flag
  <1> QED
    BY <1>8, <1>9

\* An activation by a session that nothing came between leaves the rule serving
\* the version it made active.
LEMMA ActivatedServes ==
    ASSUME NEW x \in RuleRows, ~x.gone, NEW j, j.body \in RuleBodies, Knows(j, x), ~j.stale
    PROVE  Serves(Activated(x, j))
  <1> DEFINE y == Activated(x, j)
  <1>1. /\ y.body = IF j.body # j.rule THEN j.body ELSE x.body
        /\ \A v \in DOMAIN x.vers :
              /\ v \in DOMAIN y.vers /\ y.vers[v].body = x.vers[v].body
              /\ y.vers[v].active = IF v \in DOMAIN j.vers /\ j.vers[v].active # (v = j.target)
                                    THEN v = j.target ELSE x.vers[v].active
        /\ j.target = 0 =>
              /\ DOMAIN y.vers = DOMAIN x.vers \cup {Len(x.vers) + 1} /\ Len(x.vers) + 1 \notin DOMAIN x.vers
              /\ y.vers[Len(x.vers) + 1] = [body |-> j.body, active |-> TRUE]
        /\ j.target # 0 => DOMAIN y.vers = DOMAIN x.vers
    BY ActivatedRow
  <1>2. /\ j.rule = x.body
        /\ \A v \in DOMAIN j.vers : v \in DOMAIN x.vers /\ j.vers[v] = x.vers[v]
        /\ \A v \in DOMAIN x.vers \ DOMAIN j.vers : ~x.vers[v].active
        /\ j.target = 0 \/ (j.target \in DOMAIN j.vers /\ j.vers[j.target].body = j.body)
    BY DEF Knows
  <1>9. x.vers \in Seq(VersionRows)
    BY RuleFields
  <1>3. x.vers \in Seq(VersionRows) /\ 0 \notin DOMAIN x.vers
    BY <1>9
  <1>4. ASSUME NEW v \in DOMAIN x.vers PROVE x.vers[v].active \in BOOLEAN
    <2>1. x.vers[v] \in VersionRows
      BY <1>3
    <2> QED
      BY <2>1 DEF VersionRows
  <1> HIDE DEF y
  <1>5. y.body = j.body
    BY <1>1, <1>2
  <1>6. ASSUME NEW v \in DOMAIN x.vers PROVE y.vers[v].active <=> v = j.target
    <2>1. y.vers[v].active = IF v \in DOMAIN j.vers /\ j.vers[v].active # (v = j.target)
                             THEN v = j.target ELSE x.vers[v].active
      BY <1>1
    <2>2. x.vers[v].active \in BOOLEAN
      BY <1>4
    <2>3. CASE v \in DOMAIN j.vers
      <3>1. j.vers[v].active = x.vers[v].active
        BY <1>2, <2>3
      <3>2. CASE x.vers[v].active = (v = j.target)
        BY <2>1, <3>1, <3>2
      <3>3. CASE x.vers[v].active # (v = j.target)
        BY <2>1, <2>3, <3>1, <3>3
      <3> QED
        BY <3>2, <3>3
    <2>4. CASE v \notin DOMAIN j.vers
      <3>1. ~x.vers[v].active /\ v # j.target
        BY <1>2, <1>3, <2>4
      <3> QED
        BY <2>1, <2>4, <3>1
    <2> QED
      BY <2>3, <2>4
  <1>7. CASE j.target = 0
    <2> DEFINE n == Len(x.vers) + 1
    <2>1. n \in DOMAIN y.vers /\ y.vers[n].active /\ y.vers[n].body = y.body
      BY <1>1, <1>5, <1>7
    <2>2. \A w \in DOMAIN y.vers \ {n} : ~y.vers[w].active
      BY <1>1, <1>3, <1>6, <1>7
    <2> HIDE DEF n
    <2> QED
      BY <2>1, <2>2 DEF Serves, y
  <1>8. CASE j.target # 0
    <2>1. j.target \in DOMAIN x.vers /\ x.vers[j.target].body = j.body
      BY <1>2, <1>8
    <2>2. j.target \in DOMAIN y.vers /\ y.vers[j.target].active /\ y.vers[j.target].body = y.body
      BY <1>1, <1>5, <1>6, <2>1
    <2>3. \A w \in DOMAIN y.vers \ {j.target} : ~y.vers[w].active
      BY <1>1, <1>6, <1>8
    <2> QED
      BY <2>2, <2>3 DEF Serves, y
  <1> QED
    BY <1>7, <1>8

\* Only a session that something came between may leave a rule otherwise.
LEMMA RuleActivated ==
    ASSUME RuleInvariant, JobsShaped, NEW p \in Processes, activate_parsing_rule_version(p)
    PROVE  RuleInvariant'
  <1> DEFINE r == djob[p].on
             j == djob[p]
             x == Activated(prule[r], j)
  <1>1. djob[p].op = "activate" /\ NotBusy.op = "none"
    BY DEF activate_parsing_rule_version, NotBusy
  <1>2. r \in PRules /\ j.body \in RuleBodies /\ prule[r] \in RuleRows /\ Knows(j, prule[r])
    BY <1>1 DEF RuleInvariant, RulesTyped, RulesKnown
  <1>3. CASE prule[r].gone
    <2>1. djob' = [djob EXCEPT ![p] = NotBusy] /\ prule' = prule /\ overtaken' = overtaken
      BY <1>3 DEF activate_parsing_rule_version, Finish, Go
    <2>2. Aside(p)
      BY <1>1, <2>1 DEF Aside, JobsShaped
    <2> QED
      BY <2>2, RulesAside
  <1>4. CASE ~prule[r].gone
    <2>1. /\ prule' = [prule EXCEPT ![r] = x] /\ RuleChanged(p, r)
          /\ overtaken' = IF j.stale \/ \E o \in Processes : djob[o].op = "rule" /\ djob[o].on = r
                          THEN overtaken \cup {r} ELSE overtaken \ {r}
      BY <1>2, <1>4 DEF activate_parsing_rule_version, RuleInvariant, RulesTyped
    <2>2. GoesOn(p) /\ djob'[p].op = "none"
      <3>1. RuleChanged(p, r)
        BY <2>1
      <3>2. GoesOn(p) /\ djob'[p] = NotBusy
        BY <3>1, RuleChangedGoesOn
      <3> QED
        BY <1>1, <3>2
    <2>3. x \in RuleRows /\ x.gone = prule[r].gone
      <3> DEFINE y == prule[r]
      <3>1. y \in RuleRows /\ j.body \in RuleBodies
        BY <1>2
      <3> HIDE DEF j, y
      <3>2. Activated(y, j) \in RuleRows /\ Activated(y, j).gone = y.gone
        BY <3>1, ActivatedRow
      <3> QED
        BY <3>2 DEF y
    <2>4. r \notin overtaken' => Serves(x)
      <3>1. r \notin overtaken' => ~j.stale
        BY <2>1
      <3> QED
        BY <1>2, <1>4, <3>1, ActivatedServes
    <2>5. ASSUME NEW o \in Processes, o # p, djob[o].op = "activate", djob[o].on = r PROVE Knows(djob'[o], x)
      <3>1. djob'[o] = [djob[o] EXCEPT !.stale = TRUE]
        BY <2>1, <2>5 DEF RuleChanged
      <3>2. djob[o].target = 0 \/ (djob[o].target \in DOMAIN djob[o].vers /\ djob[o].vers[djob[o].target].body = djob[o].body)
        BY <2>5 DEF RuleInvariant, RulesKnown, Knows
      <3> HIDE DEF x
      <3> QED
        BY <2>5, <3>1, <3>2, StaleKnows
    <2>6. ASSUME NEW o \in Processes, djob[o].op = "rule", djob[o].on = r PROVE r \in overtaken'
      BY <2>1, <2>6
    <2>7. overtaken \ {r} \subseteq overtaken'
      BY <2>1
    <2> HIDE DEF x, j
    <2>8. RuleWritten(p, r, x)
      BY <1>1, <2>1, <2>2, <2>4, <2>5, <2>6, <2>7 DEF RuleWritten
    <2> HIDE DEF r
    <2> QED
      BY <1>2, <2>3, <2>8, RuleMoves
  <1> QED
    BY <1>3, <1>4

\* A process that dies before the first version leaves the rule half made.
LEMMA DeathKeepsRules ==
    ASSUME RuleInvariant, JobsShaped, NEW p \in Processes, ProcessDies(p)
    PROVE  RuleInvariant'
  <1>1. /\ djob' = [djob EXCEPT ![p] = NotBusy] /\ prule' = prule
        /\ overtaken' = IF djob[p].op = "rule" THEN overtaken \cup {djob[p].on} ELSE overtaken
    BY DEF ProcessDies
  <1>2. GoesOn(p) /\ djob'[p].op = "none" /\ \A o \in Processes : o # p => djob'[o] = djob[o]
    <2>1. GoesOn(p) /\ djob'[p] = NotBusy
      BY <1>1, JobPut
    <2>2. NotBusy.op = "none"
      BY DEF NotBusy
    <2> QED
      BY <1>1, <2>1, <2>2
  <1>3. CASE djob[p].op = "rule"
    <2>1. djob[p].on \in PRules /\ prule[djob[p].on] \in RuleRows
      BY <1>3 DEF RuleInvariant, RulesTyped
    <2> QED
      BY <1>1, <1>2, <1>3, <2>1, RowsStay
  <1>4. CASE djob[p].op # "rule"
    BY <1>1, <1>2, <1>4, RulesAside DEF Aside
  <1> QED
    BY <1>3, <1>4

\* Rows, versions and sessions of the parsing rules fit together.
THEOREM RuleInvariantHolds == Spec => []RuleInvariant
  <1>1. Init => RuleInvariant
    <2> SUFFICES ASSUME ParsingInit PROVE RuleInvariant
      BY DEF Init
    <2>1. \A p \in Processes : djob[p].op = "none"
      BY DEF ParsingInit, NotBusy
    <2> QED
      BY <2>1 DEF ParsingInit, RuleInvariant, RulesTyped, RulesKnown, RuleServesActiveVersion, LiveRules, Rows
  <1>2. RuleInvariant /\ JobsShaped /\ [Next]_documentVars => RuleInvariant'
    <2>1. ASSUME RuleInvariant, JobsShaped, NEW p \in Processes, ParsingStep(p) PROVE RuleInvariant'
      <3>1. ASSUME EditRules(p) PROVE RuleInvariant'
        BY <2>1, <3>1, RuleCreated, RuleDeleted, VersionAdded, SessionBegun, RuleActivated DEF EditRules
      <3> QED
        BY <2>1, <3>1, OtherStepsAside, RulesAside, DeathKeepsRules DEF ParsingStep
    <2>2. ASSUME RuleInvariant, UNCHANGED parsingVars PROVE RuleInvariant'
      <3>1. djob' = djob /\ prule' = prule /\ overtaken' = overtaken
        BY <2>2 DEF parsingVars
      <3> QED
        BY <2>2, <3>1 DEF RuleInvariant, RulesTyped, RulesKnown, AsMade, RuleServesActiveVersion, LiveRules, Rows
    <2> QED
      BY <2>1, <2>2, ParsingSteps DEF documentVars
  <1>3. VettingInvariant => JobsShaped
    BY DEF VettingInvariant
  <1> QED
    BY <1>1, <1>2, <1>3, VettingInvariantHolds, PTL DEF Spec

\* A rule serves its one active version, but where sessions overlapped.
THEOREM RuleServesActiveVersionHolds == Spec => []RuleServesActiveVersion
  <1>1. RuleInvariant => RuleServesActiveVersion
    BY DEF RuleInvariant
  <1> QED
    BY <1>1, RuleInvariantHolds, PTL

-----------------------------------------------------------------------------
(* DocAI: who may come in.                                                   *)

\* Who came in without an invitation, and who is about to.
Uninvited == {e \in Rows(account) : ~account[e].invited}
Entering  == {p \in Processes : djob[p].op = "register" /\ ~djob[p].row.invited}

\* The types of the accounts and of those that are being made.
AccountsTyped ==
    /\ account \in [Emails -> UserRows \cup {NoDocRow}]
    /\ \A p \in Processes : djob[p].op = "register" => djob[p].email \in Emails /\ djob[p].row \in UserRows

\* Requests and users without an invitation are no more than the processes.
RegistrationInvariant ==
    /\ AccountsTyped
    /\ IsFiniteSet(Uninvited)
    /\ Cardinality(Uninvited) + Cardinality(Entering) <= Cardinality(Processes)

\* A step that has nothing to do with registering users.
Unregistering(p) == account' = account /\ GoesOn(p) /\ djob'[p].op # "register"

\* Training, editing, parsing and dying register nobody.
LEMMA OtherStepsRegisterNobody ==
    ASSUME JobsShaped, NEW p \in Processes,
           TrainTypes(p) \/ EditRules(p) \/ EditMappings(p) \/ ParseFiles(p) \/ ProcessDies(p)
    PROVE  Unregistering(p)
  <1> USE DEF accountVars
  <1>1. ASSUME NEW job, djob' = [djob EXCEPT ![p] = job], job.op # "register", account' = account
        PROVE  Unregistering(p)
    BY <1>1, JobPut DEF Unregistering
  <1>2. ASSUME djob' = djob, djob[p] = NotBusy, account' = account PROVE Unregistering(p)
    BY <1>2 DEF Unregistering, GoesOn, JobsShaped, NotBusy
  <1>3. NotBusy.op = "none"
    BY DEF NotBusy
  <1>4. CASE TrainTypes(p)
    <2>1. ASSUME NEW t, soft_delete_document_type(p, t) PROVE Unregistering(p)
      BY <1>2, <2>1 DEF soft_delete_document_type
    <2>2. ASSUME NEW t, NEW th, NEW texts, upsert_document_type(p, t, th, texts) PROVE Unregistering(p)
      <3> DEFINE job == [op |-> "train", type |-> t, todo |-> texts, doc |-> 0]
      <3>1. job.op = "train" /\ djob' = [djob EXCEPT ![p] = job] /\ account' = account
        BY <2>2 DEF upsert_document_type, Begin
      <3> HIDE DEF job
      <3> QED
        BY <1>1, <3>1
    <2>3. ASSUME NEW d, register(p, d) PROVE Unregistering(p)
      <3>1. [djob[p] EXCEPT !.doc = d].op = "train"
        BY <2>3 DEF register, JobsShaped, JobFields
      <3> QED
        BY <1>1, <2>3, <3>1 DEF register, Go
    <2>4. ASSUME register_template(p) PROVE Unregistering(p)
      <3>1. [djob[p] EXCEPT !.todo = Tail(@)].op = "train"
        BY <2>4 DEF register_template, JobsShaped, JobFields
      <3> QED
        BY <1>1, <1>3, <2>4, <3>1 DEF register_template, Go, Finish
    <2>5. ASSUME StoreFails(p) PROVE Unregistering(p)
      BY <1>1, <1>3, <2>5 DEF StoreFails, Go, Finish
    <2> QED
      BY <1>4, <2>1, <2>2, <2>3, <2>4, <2>5 DEF TrainTypes
  <1>5. CASE EditRules(p)
    <2>1. ASSUME NEW r, NEW body, AddVersion(p, r, body) \/ delete_parsing_rule(p, r) PROVE Unregistering(p)
      BY <1>2, <2>1 DEF AddVersion, delete_parsing_rule
    <2>2. ASSUME NEW r, NEW t, NEW body, BeginRule(p, r, t, body) PROVE Unregistering(p)
      <3> DEFINE job == [op |-> "rule", on |-> r, body |-> body]
      <3>1. job.op = "rule" /\ djob' = [djob EXCEPT ![p] = job] /\ account' = account
        BY <2>2 DEF BeginRule, Begin
      <3> HIDE DEF job
      <3> QED
        BY <1>1, <3>1
    <2>3. ASSUME NEW r, NEW v, BeginActivate(p, r, v) \/ BeginVersion(p, r, v) PROVE Unregistering(p)
      <3>1. \A body, target : Loaded(r, body, target).op = "activate"
        BY DEF Loaded
      <3> QED
        BY <1>1, <2>3, <3>1 DEF BeginActivate, BeginVersion, Begin
    <2>4. ASSUME create_parsing_rule(p) \/ activate_parsing_rule_version(p) PROVE Unregistering(p)
      <3>1. account' = account
        BY <2>4 DEF create_parsing_rule, activate_parsing_rule_version
      <3>2. RuleChanged(p, djob[p].on) \/ djob' = [djob EXCEPT ![p] = NotBusy]
        BY <2>4 DEF create_parsing_rule, activate_parsing_rule_version, Finish, Go
      <3> QED
        BY <1>1, <1>3, <3>1, <3>2, RuleChangedGoesOn DEF Unregistering
    <2> QED
      BY <1>5, <2>1, <2>2, <2>3, <2>4 DEF EditRules
  <1>6. CASE EditMappings(p)
    <2>1. ASSUME NEW t, NEW m, create_field_mapping(p, t, m) \/ delete_field_mapping(p, t, m) PROVE Unregistering(p)
      BY <1>2, <2>1 DEF create_field_mapping, delete_field_mapping
    <2> QED
      BY <1>6, <2>1 DEF EditMappings
  <1>7. CASE ParseFiles(p)
    <2>1. ASSUME NEW d, NEW f, BeginParse(p, d, f) PROVE Unregistering(p)
      <3> DEFINE out == route_document(f, entry[d])
                 job == [op |-> "verify", doc |-> d, text |-> out.text, confidence |-> out.confidence]
      <3>1. job.op = "verify" /\ djob' = [djob EXCEPT ![p] = job] /\ account' = account
        BY <2>1 DEF BeginParse, Begin
      <3> HIDE DEF job
      <3> QED
        BY <1>1, <3>1
    <2>2. ASSUME NEW q, NEW text, Reject(p) \/ store_parse_request(p, q) \/ apply_correction_learning(p, text)
          PROVE  Unregistering(p)
      BY <1>1, <1>3, <2>2 DEF Reject, store_parse_request, apply_correction_learning, Go, Finish
    <2>3. ASSUME Verify(p) PROVE Unregistering(p)
      <3>1. [djob[p] EXCEPT !.op = "extract"].op = "extract"
        BY <2>3 DEF Verify, JobsShaped, JobFields
      <3> QED
        BY <1>1, <2>3, <3>1 DEF Verify, Go
    <2>4. ASSUME dispatch(p) PROVE Unregistering(p)
      <3> DEFINE F == ExtractedFields(djob[p].text, entry[djob[p].doc])
                 st == IF djob[p].confidence < confidence_threshold_for_doc_type(entry[djob[p].doc])
                       THEN "needs_review" ELSE "completed"
                 job == [op |-> "store", doc |-> djob[p].doc, text |-> djob[p].text, fields |-> F, status |-> st]
      <3>1. djob' = [djob EXCEPT ![p] = job] /\ account' = account
        BY <2>4 DEF dispatch, Go
      <3> HIDE DEF F, st
      <3>2. job.op = "store"
        OBVIOUS
      <3> HIDE DEF job
      <3> QED
        BY <1>1, <3>1, <3>2
    <2>5. ASSUME NEW q, save_parse_correction(p, q) PROVE Unregistering(p)
      <3> DEFINE job == [op |-> "learn", on |-> q]
      <3>1. job.op = "learn" /\ djob' = [djob EXCEPT ![p] = job] /\ account' = account
        BY <2>5 DEF save_parse_correction, Begin
      <3> HIDE DEF job
      <3> QED
        BY <1>1, <3>1
    <2> QED
      BY <1>7, <2>1, <2>2, <2>3, <2>4, <2>5 DEF ParseFiles
  <1>8. CASE ProcessDies(p)
    BY <1>1, <1>3, <1>8 DEF ProcessDies
  <1> QED
    BY <1>4, <1>5, <1>6, <1>7, <1>8

\* No more are entering than there are processes.
LEMMA EnteringFinite ==
    IsFiniteSet(Processes) /\ IsFiniteSet(Entering) /\ Cardinality(Entering) \in Nat
        /\ Cardinality(Processes) \in Nat /\ Cardinality(Entering) <= Cardinality(Processes)
  <1>1. Entering \subseteq Processes
    BY DEF Entering
  <1> QED
    BY <1>1, ParsingAssumption, FS_Subset, FS_CardinalityType

\* The same after a step.
LEMMA EnteringFiniteNext ==
    IsFiniteSet(Entering') /\ Cardinality(Entering') \in Nat /\ Cardinality(Entering') <= Cardinality(Processes)
  <1>1. Entering' \subseteq Processes
    BY DEF Entering
  <1> QED
    BY <1>1, ParsingAssumption, FS_Subset, FS_CardinalityType

\* Whoever was entering enters no longer, or still does.
LEMMA EnteringShrinks ==
    ASSUME NEW p \in Processes, GoesOn(p), JobsShaped, djob'[p].op # "register"
    PROVE  Entering' = Entering \ {p}
  <1>1. ASSUME NEW o \in Processes, o # p
        PROVE  djob'[o] = djob[o] \/ (djob[o].op # "register" /\ djob'[o].op # "register")
    <2>1. CASE djob[o].op = "activate" /\ djob'[o] = [djob[o] EXCEPT !.stale = TRUE]
      <3>1. DOMAIN djob[o] = {"op", "on", "rule", "vers", "body", "target", "stale"}
        BY <2>1 DEF JobsShaped, JobFields
      <3>2. djob'[o].op = "activate"
        BY <2>1, <3>1
      <3> QED
        BY <2>1, <3>2
    <2> QED
      BY <1>1, <2>1 DEF GoesOn
  <1> QED
    BY <1>1 DEF Entering

\* A step that registers nobody keeps the count.
LEMMA NobodyEnters ==
    ASSUME RegistrationInvariant, NEW p \in Processes, JobsShaped, Unregistering(p), AccountsTyped'
    PROVE  RegistrationInvariant'
  <1>1. Uninvited' = Uninvited
    BY DEF Unregistering, Uninvited, Rows
  <1>2. Entering' \subseteq Entering
    BY EnteringShrinks DEF Unregistering
  <1>3. Cardinality(Entering') <= Cardinality(Entering)
    BY <1>2, EnteringFinite, FS_Subset
  <1>4. Cardinality(Uninvited) \in Nat
    BY FS_CardinalityType DEF RegistrationInvariant
  <1> QED
    BY <1>1, <1>3, <1>4, EnteringFinite, EnteringFiniteNext DEF RegistrationInvariant

-----------------------------------------------------------------------------

\* Accounts stay typed, and the requests that make them.
LEMMA AccountsTypedNext ==
    ASSUME AccountsTyped, JobsShaped, NEW p \in Processes, GoesOn(p),
           account' \in [Emails -> UserRows \cup {NoDocRow}],
           djob'[p].op = "register" => djob'[p].email \in Emails /\ djob'[p].row \in UserRows
    PROVE  AccountsTyped'
  <1>1. ASSUME NEW o \in Processes, o # p, djob'[o].op = "register" PROVE djob'[o] = djob[o]
    <2>1. CASE djob[o].op = "activate" /\ djob'[o] = [djob[o] EXCEPT !.stale = TRUE]
      <3>1. DOMAIN djob[o] = {"op", "on", "rule", "vers", "body", "target", "stale"}
        BY <2>1 DEF JobsShaped, JobFields
      <3>2. djob'[o].op = "activate"
        BY <2>1, <3>1
      <3> QED
        BY <1>1, <3>2
    <2> QED
      BY <1>1, <2>1 DEF GoesOn
  <1> QED
    BY <1>1 DEF AccountsTyped

\* Whoever registers without an invitation does so while there is no user.
LEMMA RegistrationBegun ==
    ASSUME RegistrationInvariant, JobsShaped, NEW p \in Processes, NEW e \in Emails, NEW role \in {"admin", "viewer"},
           NEW admin \in BOOLEAN, BeginRegister(p, e, role, admin)
    PROVE  RegistrationInvariant'
  <1> DEFINE invited == admin /\ IsAdmin(p)
             row == [role |-> role, invited |-> invited]
             job == [op |-> "register", email |-> e, row |-> row]
  <1>1. /\ MayRegister(p, admin) /\ djob[p] = NotBusy /\ djob' = [djob EXCEPT ![p] = job] /\ account' = account
    BY DEF BeginRegister, Begin, accountVars
  <1>2. invited \in BOOLEAN
    BY DEF IsAdmin
  <1>3. ~invited => Rows(account) = {}
    BY <1>1 DEF MayRegister
  <1> HIDE DEF invited
  <1>4. row \in UserRows /\ row.invited = invited
    BY <1>2 DEF UserRows
  <1> HIDE DEF row
  <1>5. job.op = "register" /\ job.email = e /\ job.row = row
    OBVIOUS
  <1> HIDE DEF job
  <1>6. GoesOn(p) /\ djob'[p] = job
    BY <1>1, JobPut
  <1>7. AccountsTyped'
    BY <1>1, <1>4, <1>5, <1>6, AccountsTypedNext DEF RegistrationInvariant, AccountsTyped
  <1>8. Uninvited' = Uninvited
    BY <1>1 DEF Uninvited, Rows
  <1>9. CASE invited
    <2>1. \A o \in Processes : o # p => djob'[o] = djob[o]
      BY <1>1
    <2>2. Entering' \subseteq Entering
      BY <1>4, <1>5, <1>6, <1>9, <2>1 DEF Entering
    <2>3. Cardinality(Entering') <= Cardinality(Entering)
      BY <2>2, EnteringFinite, FS_Subset
    <2>4. Cardinality(Uninvited) \in Nat
      BY FS_CardinalityType DEF RegistrationInvariant
    <2> QED
      BY <1>7, <1>8, <2>3, <2>4, EnteringFinite, EnteringFiniteNext DEF RegistrationInvariant
  <1>10. CASE ~invited
    <2>1. Uninvited = {}
      BY <1>3, <1>10 DEF Uninvited
    <2>2. Cardinality(Uninvited') = 0 /\ IsFiniteSet(Uninvited')
      BY <1>8, <2>1, FS_EmptySet
    <2> QED
      BY <1>7, <2>2, EnteringFinite, EnteringFiniteNext DEF RegistrationInvariant
  <1> QED
    BY <1>9, <1>10

\* Who was entering has come in, or found the email taken.
LEMMA UserRegistered ==
    ASSUME RegistrationInvariant, JobsShaped, NEW p \in Processes, register_user(p)
    PROVE  RegistrationInvariant'
  <1> DEFINE e == djob[p].email
             row == djob[p].row
  <1>1. /\ djob[p].op = "register" /\ djob' = [djob EXCEPT ![p] = NotBusy]
        /\ account' = IF account[e] = NoDocRow THEN [account EXCEPT ![e] = row] ELSE account
    BY DEF register_user, Finish, Go
  <1>2. e \in Emails /\ row \in UserRows
    BY <1>1 DEF RegistrationInvariant, AccountsTyped
  <1>3. NotBusy.op = "none"
    BY DEF NotBusy
  <1>4. GoesOn(p) /\ djob'[p] = NotBusy
    BY <1>1, JobPut
  <1>5. account' \in [Emails -> UserRows \cup {NoDocRow}]
    BY <1>1, <1>2 DEF RegistrationInvariant, AccountsTyped
  <1>6. AccountsTyped'
    BY <1>3, <1>4, <1>5, AccountsTypedNext DEF RegistrationInvariant
  <1>7. Entering' = Entering \ {p}
    BY <1>3, <1>4, EnteringShrinks
  <1>8. IsFiniteSet(Uninvited) /\ Cardinality(Uninvited) \in Nat
    BY FS_CardinalityType DEF RegistrationInvariant
  <1>9. CASE row.invited \/ account[e] # NoDocRow
    <2>1. Uninvited' = Uninvited
      <3>1. DOMAIN account' = DOMAIN account
        BY <1>1
      <3>2. ASSUME NEW k \in DOMAIN account
            PROVE  (account'[k] # NoDocRow /\ ~account'[k].invited) <=> (account[k] # NoDocRow /\ ~account[k].invited)
        BY <1>1, <1>9
      <3> QED
        BY <3>1, <3>2 DEF Uninvited, Rows
    <2>2. Cardinality(Entering') <= Cardinality(Entering)
      BY <1>7, EnteringFinite, FS_Subset
    <2> QED
      BY <1>6, <1>8, <2>1, <2>2, EnteringFinite, EnteringFiniteNext DEF RegistrationInvariant
  <1>10. CASE ~row.invited /\ account[e] = NoDocRow
    <2>1. p \in Entering
      BY <1>1, <1>10 DEF Entering
    <2>2. Cardinality(Entering') = Cardinality(Entering) - 1
      BY <1>7, <2>1, EnteringFinite, FS_RemoveElement
    <2>3. Uninvited' \subseteq Uninvited \cup {e}
      <3>1. \A k \in DOMAIN account' : k \in DOMAIN account /\ (k # e => account'[k] = account[k])
        BY <1>1
      <3> QED
        BY <3>1 DEF Uninvited, Rows
    <2>4. e \notin Uninvited
      BY <1>10 DEF Uninvited, Rows
    <2>5. IsFiniteSet(Uninvited \cup {e}) /\ Cardinality(Uninvited \cup {e}) = Cardinality(Uninvited) + 1
      BY <1>8, <2>4, FS_AddElement
    <2>6. IsFiniteSet(Uninvited') /\ Cardinality(Uninvited') <= Cardinality(Uninvited) + 1
      BY <2>3, <2>5, FS_Subset
    <2>7. Cardinality(Uninvited') \in Nat
      BY <2>6, FS_CardinalityType
    <2> QED
      BY <1>6, <1>8, <2>2, <2>6, <2>7, EnteringFinite, EnteringFiniteNext DEF RegistrationInvariant
  <1> QED
    BY <1>9, <1>10

\* Only so many are in without an invitation as requests of that kind could be
\* under way.
THEOREM RegistrationInvariantHolds == Spec => []RegistrationInvariant
  <1>1. Init => RegistrationInvariant
    <2> SUFFICES ASSUME ParsingInit PROVE RegistrationInvariant
      BY DEF Init
    <2>1. Uninvited = {} /\ Entering = {}
      BY DEF ParsingInit, Uninvited, Entering, Rows, NotBusy
    <2>2. AccountsTyped
      BY DEF ParsingInit, AccountsTyped, NotBusy
    <2> QED
      BY <2>1, <2>2, FS_EmptySet, EnteringFinite DEF RegistrationInvariant
  <1>2. RegistrationInvariant /\ JobsShaped /\ [Next]_documentVars => RegistrationInvariant'
    <2>1. ASSUME RegistrationInvariant, JobsShaped, NEW p \in Processes, Unregistering(p) PROVE RegistrationInvariant'
      <3>1. AccountsTyped'
        BY <2>1, AccountsTypedNext DEF Unregistering, RegistrationInvariant, AccountsTyped
      <3> QED
        BY <2>1, <3>1, NobodyEnters
    <2>2. ASSUME RegistrationInvariant, JobsShaped, NEW p \in Processes, Accounts(p) PROVE RegistrationInvariant'
      <3>1. ASSUME NEW e, NEW k, login_for_access_token(p, e, k) \/ logout(p, k) PROVE Unregistering(p)
        BY <2>2, <3>1 DEF login_for_access_token, logout, Unregistering, GoesOn, JobsShaped, NotBusy
      <3> QED
        BY <2>1, <2>2, <3>1, RegistrationBegun, UserRegistered DEF Accounts
    <2>3. ASSUME RegistrationInvariant, JobsShaped, NEW p \in Processes, ParsingStep(p) PROVE RegistrationInvariant'
      BY <2>1, <2>2, <2>3, OtherStepsRegisterNobody DEF ParsingStep
    <2>4. ASSUME RegistrationInvariant, UNCHANGED parsingVars PROVE RegistrationInvariant'
      <3>1. djob' = djob /\ account' = account
        BY <2>4 DEF parsingVars
      <3> QED
        BY <2>4, <3>1 DEF RegistrationInvariant, AccountsTyped, Uninvited, Entering, Rows
    <2> QED
      BY <2>3, <2>4, ParsingSteps DEF documentVars
  <1>3. VettingInvariant => JobsShaped
    BY DEF VettingInvariant
  <1> QED
    BY <1>1, <1>2, <1>3, VettingInvariantHolds, PTL DEF Spec

\* No more users than there are processes come in without an invitation.
THEOREM RegistrationClosesHolds == Spec => []RegistrationCloses
  <1>1. ASSUME RegistrationInvariant PROVE RegistrationCloses
    <2>1. Cardinality(Uninvited) \in Nat
      BY <1>1, FS_CardinalityType DEF RegistrationInvariant
    <2>2. Cardinality(Uninvited) <= Cardinality(Processes)
      BY <1>1, <2>1, EnteringFinite DEF RegistrationInvariant
    <2> QED
      BY <2>2 DEF RegistrationCloses, Uninvited
  <1> QED
    BY <1>1, RegistrationInvariantHolds, PTL

=============================================================================
