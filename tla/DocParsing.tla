------------------------------ MODULE DocParsing ------------------------------
(***************************************************************************)
(* DocAI: training document types, the parsing rules and field mappings of *)
(* a type, parsing files, corrections and user accounts.  The service runs *)
(* several processes on one database; a handler has no await in it, so a   *)
(* process does one request at a time, and requests of two processes come  *)
(* between each other's transactions.  `djob' holds what a process is      *)
(* doing.  A model entry is never changed or deleted, which makes the copy *)
(* each process keeps of it (ModelRegistry.registry) as good as the row.   *)
(* The audit log is only ever added to and is left out.                    *)
(***************************************************************************)
EXTENDS Naturals, Sequences, FiniteSets, SequencesExt

CONSTANTS
    DocTypes, ScientificTypes,      \* names of document types
    DocIds, PRules, ParseIds,       \* ids given out in order
    Texts,          \* contents of files, training samples
    Files,          \* [ext, text, tools, invoice]: tools get text out of the file
    Similarity,     \* of a content and a sample, in hundredths
    SensitiveFields,
    BuiltInFields,  \* what the extractors written into the service find in a text
    RuleBodies,     \* [field, on]: on are the texts the pattern matches
    MappingRows,    \* [source, target, active]
    Thresholds, MaxRuleVersions, MaxFieldMappings,
    Processes, Emails, Tokens, NoDocRow

\* The rows of a parsing rule with its versions, and of a user.
RuleRows == [on : DocTypes, body : RuleBodies, vers : Seq([body : RuleBodies, active : BOOLEAN]), gone : BOOLEAN]
UserRows == [role : {"admin", "viewer"}, invited : BOOLEAN]

ASSUME ParsingAssumption ==
    /\ IsFiniteSet(Processes)
    /\ NoDocRow \notin RuleRows \cup UserRows

VARIABLES
    dtype,      \* document_types by name
    entry,      \* model_registry_entries: the type of a doc_id
    sample,     \* templates: pairs of doc_id and text
    prule,      \* parsing_rules by id, with their versions
    mapping,    \* field_mappings of a type, oldest first
    parsed,     \* parse_requests by id
    pushed,     \* what the connectors were given last
    account,    \* users by email
    session,    \* tokens given out
    blocked,    \* TOKEN_BLOCKLIST of each process
    djob,       \* the request each process is in
    broken,     \* processes whose vector store connection is in a failed transaction
    overtaken   \* ghost: rules changed by requests that overlapped, or left half made

parsingVars == <<dtype, entry, sample, prule, mapping, parsed, pushed, account, session, blocked,
                 djob, broken, overtaken>>
typeVars    == <<dtype, entry, sample, broken>>
ruleVars    == <<prule, mapping, overtaken>>
accountVars == <<account, session, blocked>>
resultVars  == <<parsed, pushed>>

NotBusy == [op |-> "none"]

ParsingInit ==
    /\ dtype = [t \in DocTypes |-> NoDocRow] /\ entry = [d \in DocIds |-> NoDocRow] /\ sample = {}
    /\ prule = [r \in PRules |-> NoDocRow] /\ mapping = [t \in DocTypes |-> <<>>]
    /\ parsed = [q \in ParseIds |-> NoDocRow] /\ pushed = NoDocRow
    /\ account = [e \in Emails |-> NoDocRow] /\ session = [k \in Tokens |-> NoDocRow]
    /\ blocked = [p \in Processes |-> {}]
    /\ djob = [p \in Processes |-> NotBusy] /\ broken = {} /\ overtaken = {}

Rows(f)       == {k \in DOMAIN f : f[k] # NoDocRow}
NewRow(f, k)  == f[k] = NoDocRow /\ \A o \in DOMAIN f : o < k => f[o] # NoDocRow
Begin(p, job) == djob[p] = NotBusy /\ djob' = [djob EXCEPT ![p] = job]
Go(p, job)    == djob' = [djob EXCEPT ![p] = job]
Finish(p)     == Go(p, NotBusy)

-----------------------------------------------------------------------------
(* Training: the type, its model entry, the samples one by one, each in a    *)
(* transaction of its own.  A new doc_id every time; the samples of earlier  *)
(* ones stay.                                                                *)

upsert_document_type(p, t, th, texts) ==
    /\ texts # <<>>
    /\ Begin(p, [op |-> "train", type |-> t, todo |-> texts, doc |-> 0])
    /\ dtype' = [dtype EXCEPT ![t] = [threshold |-> th, active |-> TRUE]]
    /\ UNCHANGED <<entry, sample, broken, ruleVars, resultVars, accountVars>>

register(p, d) ==
    /\ djob[p].op = "train" /\ djob[p].doc = 0 /\ NewRow(entry, d)
    /\ entry' = [entry EXCEPT ![d] = djob[p].type]
    /\ Go(p, [djob[p] EXCEPT !.doc = d])
    /\ UNCHANGED <<dtype, sample, broken, ruleVars, resultVars, accountVars>>

\* After the last one the model goes to MLflow, whose failure is ignored.
register_template(p) ==
    /\ djob[p].op = "train" /\ djob[p].doc # 0 /\ p \notin broken
    /\ sample' = sample \cup {[doc |-> djob[p].doc, text |-> Head(djob[p].todo)]}
    /\ IF Len(djob[p].todo) = 1 THEN Finish(p) ELSE Go(p, [djob[p] EXCEPT !.todo = Tail(@)])
    /\ UNCHANGED <<dtype, entry, broken, ruleVars, resultVars, accountVars>>

UsesStore(p) ==
    \/ djob[p].op = "train" /\ djob[p].doc # 0
    \/ djob[p].op = "verify"

\* The process has one connection and never rolls it back: a statement that
\* fails makes all the later ones fail.  The request ends with an error.
StoreFails(p) ==
    /\ UsesStore(p)
    /\ broken' = broken \cup {p} /\ Finish(p)
    /\ UNCHANGED <<dtype, entry, sample, ruleVars, resultVars, accountVars>>

\* The type can still be parsed, and training makes it active again.
soft_delete_document_type(p, t) ==
    /\ djob[p] = NotBusy /\ t \in Rows(dtype) /\ dtype[t].active
    /\ dtype' = [dtype EXCEPT ![t].active = FALSE]
    /\ UNCHANGED <<entry, sample, broken, djob, ruleVars, resultVars, accountVars>>

-----------------------------------------------------------------------------
(* Parsing rules.  A rule serves what its row says; the versions are kept    *)
(* beside it.                                                                *)

\* Process p is done; whoever has loaded rule r knows an old one.
RuleChanged(p, r) ==
    djob' = [o \in Processes |->
               CASE o = p -> NotBusy
                 [] o # p /\ djob[o].op = "activate" /\ djob[o].on = r -> [djob[o] EXCEPT !.stale = TRUE]
                 [] OTHER -> djob[o]]

\* The rule is committed first, its version 1 after it.
BeginRule(p, r, t, body) ==
    /\ t \in Rows(dtype) /\ NewRow(prule, r)
    /\ Begin(p, [op |-> "rule", on |-> r, body |-> body])
    /\ prule' = [prule EXCEPT ![r] = [on |-> t, body |-> body, vers |-> <<>>, gone |-> FALSE]]
    /\ UNCHANGED <<mapping, overtaken, typeVars, resultVars, accountVars>>

\* The rule is visible meanwhile, and can be given versions or deleted: then the
\* foreign key refuses the version.
create_parsing_rule(p) ==
    /\ djob[p].op = "rule" /\ RuleChanged(p, djob[p].on)
    /\ LET r == djob[p].on
       IN  /\ prule' = IF prule[r].gone THEN prule
                       ELSE [prule EXCEPT ![r].vers = Append(@, [body |-> djob[p].body, active |-> TRUE])]
           /\ overtaken' = IF prule[r].vers = <<>> THEN overtaken ELSE overtaken \cup {r}
    /\ UNCHANGED <<mapping, typeVars, resultVars, accountVars>>

LiveRules == {r \in Rows(prule) : ~prule[r].gone}

delete_parsing_rule(p, r) ==
    /\ djob[p] = NotBusy /\ r \in LiveRules
    /\ prule' = [prule EXCEPT ![r].gone = TRUE, ![r].vers = <<>>]
    /\ UNCHANGED <<djob, mapping, overtaken, typeVars, resultVars, accountVars>>

\* What the session loads of a rule; stale once somebody else commits a change.
Loaded(r, body, target) ==
    [op |-> "activate", on |-> r, rule |-> prule[r].body, vers |-> prule[r].vers,
     body |-> body, target |-> target, stale |-> FALSE]

BeginActivate(p, r, v) ==
    /\ r \in LiveRules /\ v \in DOMAIN prule[r].vers
    /\ Begin(p, Loaded(r, prule[r].vers[v].body, v))
    /\ UNCHANGED <<typeVars, ruleVars, resultVars, accountVars>>

BeginVersion(p, r, body) ==
    /\ r \in LiveRules /\ Len(prule[r].vers) < MaxRuleVersions
    /\ Begin(p, Loaded(r, body, 0))
    /\ UNCHANGED <<typeVars, ruleVars, resultVars, accountVars>>

\* A version that is not to be activated is only added.
AddVersion(p, r, body) ==
    /\ djob[p] = NotBusy /\ r \in LiveRules /\ Len(prule[r].vers) < MaxRuleVersions
    /\ prule' = [prule EXCEPT ![r].vers = Append(@, [body |-> body, active |-> FALSE])]
    /\ UNCHANGED <<djob, mapping, overtaken, typeVars, resultVars, accountVars>>

\* Mutant: the other versions stay active.
ActivatedOnly(x, j) ==
    LET vers == [v \in DOMAIN x.vers |-> [x.vers[v] EXCEPT !.active = @ \/ v = j.target]]
    IN  [x EXCEPT !.body = j.body,
                  !.vers = IF j.target = 0 THEN Append(vers, [body |-> j.body, active |-> TRUE]) ELSE vers]

\* The session writes the attributes it changed, compared with what it loaded.
Activated(x, j) ==
    LET Known(v)   == v \in DOMAIN j.vers
        Changed(v) == Known(v) /\ j.vers[v].active # (v = j.target)
        vers       == [v \in DOMAIN x.vers |->
                          [x.vers[v] EXCEPT !.active = IF Changed(v) THEN v = j.target ELSE @]]
    IN  [x EXCEPT !.body = IF j.body # j.rule THEN j.body ELSE @,
                  !.vers = IF j.target = 0 THEN Append(vers, [body |-> j.body, active |-> TRUE]) ELSE vers]

\* Also create_parsing_rule_version with activate; a rule deleted meanwhile makes
\* the writes fail.
activate_parsing_rule_version(p) ==
    /\ djob[p].op = "activate"
    /\ LET r == djob[p].on
       IN  IF prule[r].gone
           THEN Finish(p) /\ UNCHANGED <<prule, overtaken>>
           ELSE /\ prule' = [prule EXCEPT ![r] = Activated(@, djob[p])]
                /\ overtaken' = IF djob[p].stale \/ \E o \in Processes : djob[o].op = "rule" /\ djob[o].on = r
                                THEN overtaken \cup {r} ELSE overtaken \ {r}
                /\ RuleChanged(p, r)
    /\ UNCHANGED <<mapping, typeVars, resultVars, accountVars>>

create_field_mapping(p, t, m) ==
    /\ djob[p] = NotBusy /\ t \in Rows(dtype) /\ Len(mapping[t]) < MaxFieldMappings
    /\ mapping' = [mapping EXCEPT ![t] = Append(@, m)]
    /\ UNCHANGED <<djob, prule, overtaken, typeVars, resultVars, accountVars>>

delete_field_mapping(p, t, i) ==
    /\ djob[p] = NotBusy /\ i \in DOMAIN mapping[t]
    /\ mapping' = [mapping EXCEPT ![t] = RemoveAt(@, i)]
    /\ UNCHANGED <<djob, prule, overtaken, typeVars, resultVars, accountVars>>

-----------------------------------------------------------------------------
(* Reading a file.  The tools are tried in order; each has its confidence,   *)
(* some a higher one for invoices.                                           *)

Unread == [text |-> "", confidence |-> 0]

Read(f, confidence) == [text |-> f.text, confidence |-> confidence]

DoclingParser(f)      == IF "docling" \in f.tools THEN Read(f, 85) ELSE Unread
UnstructuredParser(f) == IF "unstructured" \in f.tools THEN Read(f, 75) ELSE Unread
GrobidParser(f)       == IF "grobid" \in f.tools THEN Read(f, 80)
                         ELSE IF "grobid_body" \in f.tools THEN Read(f, 60)    \* neither title nor abstract
                         ELSE Unread

PdfTools == <<[tool |-> "easyocr",  plain |-> 82, invoice |-> 88],
              [tool |-> "pdfminer", plain |-> 90, invoice |-> 93],
              [tool |-> "pypdf",    plain |-> 88, invoice |-> 92],
              [tool |-> "pdf_text", plain |-> 85, invoice |-> 90],
              [tool |-> "tesseract", plain |-> 70, invoice |-> 70]>>

OCRParser(f) ==
    LET able == SelectSeq(PdfTools, LAMBDA x : x.tool \in f.tools)
    IN  IF f.ext # "pdf"   THEN (IF "tesseract" \in f.tools THEN Read(f, 70) ELSE Unread)
        ELSE IF able = <<>> THEN Unread
        ELSE Read(f, IF f.invoice THEN able[1].invoice ELSE able[1].plain)

route_document(f, t) ==
    CASE f.ext = "pdf" /\ t \in ScientificTypes -> GrobidParser(f)
      [] f.ext = "pdf" /\ t \notin ScientificTypes ->
            IF DoclingParser(f).text # "" THEN DoclingParser(f) ELSE OCRParser(f)
      [] f.ext = "image" -> OCRParser(f)
      [] OTHER           -> UnstructuredParser(f)

ClassificationThreshold == 75

\* The doc_id of a sample nothing is closer to, if that is close enough.
lookup(text) ==
    LET Near(s) == Similarity[text][s.text]
    IN  {s.doc : s \in {x \in sample : Near(x) >= ClassificationThreshold /\ \A y \in sample : Near(y) <= Near(x)}}

\* Mutant: any trained type will do.
VerifiedAsAny(text, d) == IF text = "" THEN {} ELSE lookup(text)

\* The doc_ids it may be taken for that let it pass as d.
_verify_document_type(text, d) == IF text = "" THEN {} ELSE lookup(text) \cap {d}

-----------------------------------------------------------------------------
(* Fields: a function from their names to "clear" or "redacted" values.      *)

_apply_parsing_rules(text, t) ==
    {prule[r].body.field : r \in {x \in LiveRules : prule[x].on = t /\ text \in prule[x].body.on}}

_apply_field_mappings(F, maps) ==
    FoldLeft(LAMBDA G, m :
                IF ~m.active \/ m.source \notin DOMAIN G THEN G
                ELSE [n \in (DOMAIN G \ {m.source}) \cup {m.target} |->
                        IF n = m.target THEN G[m.source] ELSE G[n]],
             F, maps)

\* A value is looked through when the name of its field, as mapped, says so.
redact_pii_from_fields(F) == [n \in DOMAIN F |-> IF n \in SensitiveFields THEN "redacted" ELSE F[n]]

ExtractedFields(text, t) ==
    LET found == BuiltInFields[text] \cup _apply_parsing_rules(text, t)
    IN  redact_pii_from_fields(_apply_field_mappings([n \in found |-> "clear"], mapping[t]))

\* No threshold, or zero, is 0.80.
confidence_threshold_for_doc_type(t) == IF dtype[t].threshold = 0 THEN 80 ELSE dtype[t].threshold

-----------------------------------------------------------------------------
(* Parsing. *)

\* An unknown doc_id is a 404.
BeginParse(p, d, f) ==
    /\ d \in Rows(entry)
    /\ LET out == route_document(f, entry[d])
       IN  Begin(p, [op |-> "verify", doc |-> d, text |-> out.text, confidence |-> out.confidence])
    /\ UNCHANGED <<typeVars, ruleVars, resultVars, accountVars>>

\* 422 or 409: only the audit log knows of it.
Reject(p) ==
    /\ djob[p].op = "verify" /\ p \notin broken
    /\ \/ djob[p].text = "" \/ lookup(djob[p].text) = {}
       \/ lookup(djob[p].text) \ _verify_document_type(djob[p].text, djob[p].doc) # {}
    /\ Finish(p)
    /\ UNCHANGED <<typeVars, ruleVars, resultVars, accountVars>>

Verify(p) ==
    /\ djob[p].op = "verify" /\ p \notin broken
    /\ _verify_document_type(djob[p].text, djob[p].doc) # {}
    /\ Go(p, [djob[p] EXCEPT !.op = "extract"])
    /\ UNCHANGED <<typeVars, ruleVars, resultVars, accountVars>>

\* The rules, the mappings and the type as they are now, then the connectors:
\* each may refuse, and none of it is known to the database yet.
dispatch(p) ==
    /\ djob[p].op = "extract"
    /\ LET j == djob[p]
           t == entry[j.doc]
           F == ExtractedFields(j.text, t)
       IN  /\ pushed' = [doc |-> j.doc, text |-> j.text, fields |-> F]
           /\ Go(p, [op |-> "store", doc |-> j.doc, text |-> j.text, fields |-> F,
                     status |-> IF j.confidence < confidence_threshold_for_doc_type(t)
                                THEN "needs_review" ELSE "completed"])
    /\ UNCHANGED <<parsed, typeVars, ruleVars, accountVars>>

store_parse_request(p, q) ==
    /\ djob[p].op = "store" /\ NewRow(parsed, q)
    /\ parsed' = [parsed EXCEPT ![q] = [doc |-> djob[p].doc, text |-> djob[p].text, fields |-> djob[p].fields,
                                        status |-> djob[p].status]]
    /\ Finish(p)
    /\ UNCHANGED <<pushed, typeVars, ruleVars, accountVars>>

\* A reviewer's fields replace those there are, whatever the status is; nothing
\* goes to the connectors.
save_parse_correction(p, q) ==
    /\ q \in Rows(parsed)
    /\ parsed' = [parsed EXCEPT ![q].status = "reviewed"]
    /\ Begin(p, [op |-> "learn", on |-> q])
    /\ UNCHANGED <<pushed, typeVars, ruleVars, accountVars>>

\* The corrected fields become a sample; that this fails is only noted.
apply_correction_learning(p, text) ==
    /\ djob[p].op = "learn"
    /\ \/ p \notin broken /\ sample' = sample \cup {[doc |-> parsed[djob[p].on].doc, text |-> text]} /\ UNCHANGED broken
       \/ broken' = broken \cup {p} /\ UNCHANGED sample
    /\ Finish(p)
    /\ UNCHANGED <<dtype, entry, ruleVars, resultVars, accountVars>>

-----------------------------------------------------------------------------
(* Accounts.  A token names its user; logging out is remembered by the       *)
(* process that was asked.                                                   *)

get_current_user(p, k) == IF session[k] = NoDocRow \/ k \in blocked[p] THEN NoDocRow ELSE account[session[k]]

IsAdmin(p) == \E k \in Tokens : get_current_user(p, k) # NoDocRow /\ get_current_user(p, k).role = "admin"

\* Mutant: anybody may register.
MayRegisterAlways(p, admin) == TRUE

\* Users are counted first: there are none, or an administrator asks.
MayRegister(p, admin) == Rows(account) = {} \/ (admin /\ IsAdmin(p))

BeginRegister(p, e, role, admin) ==
    /\ MayRegister(p, admin) /\ account[e] = NoDocRow
    /\ Begin(p, [op |-> "register", email |-> e, row |-> [role |-> role, invited |-> admin /\ IsAdmin(p)]])
    /\ UNCHANGED <<typeVars, ruleVars, resultVars, accountVars>>

\* The email is unique: the second of two inserts fails.
register_user(p) ==
    /\ djob[p].op = "register" /\ Finish(p)
    /\ account' = IF account[djob[p].email] = NoDocRow
                  THEN [account EXCEPT ![djob[p].email] = djob[p].row] ELSE account
    /\ UNCHANGED <<session, blocked, typeVars, ruleVars, resultVars>>

login_for_access_token(p, e, k) ==
    /\ djob[p] = NotBusy /\ e \in Rows(account) /\ session[k] = NoDocRow
    /\ session' = [session EXCEPT ![k] = e]
    /\ UNCHANGED <<djob, account, blocked, typeVars, ruleVars, resultVars>>

logout(p, k) ==
    /\ djob[p] = NotBusy /\ get_current_user(p, k) # NoDocRow
    /\ blocked' = [blocked EXCEPT ![p] = @ \cup {k}]
    /\ UNCHANGED <<djob, account, session, typeVars, ruleVars, resultVars>>

\* A process dies and is replaced: what it was doing stays half done, and what
\* it had in memory is gone.
ProcessDies(p) ==
    /\ djob' = [djob EXCEPT ![p] = NotBusy]
    /\ broken' = broken \ {p} /\ blocked' = [blocked EXCEPT ![p] = {}]
    /\ overtaken' = IF djob[p].op = "rule" THEN overtaken \cup {djob[p].on} ELSE overtaken
    /\ UNCHANGED <<dtype, entry, sample, prule, mapping, account, session, resultVars>>

-----------------------------------------------------------------------------

TrainTypes(p) ==
    \/ \E t \in DocTypes : \/ soft_delete_document_type(p, t)
                           \/ \E th \in Thresholds, s1, s2 \in Texts :
                                 upsert_document_type(p, t, th, IF s1 = s2 THEN <<s1>> ELSE <<s1, s2>>)
    \/ \E d \in DocIds : register(p, d)
    \/ register_template(p) \/ StoreFails(p)

EditRules(p) ==
    \/ \E r \in PRules :
          \/ \E body \in RuleBodies :
                \/ AddVersion(p, r, body) \/ BeginVersion(p, r, body)
                \/ \E t \in DocTypes : BeginRule(p, r, t, body)
          \/ \E v \in 1..MaxRuleVersions + 1 : BeginActivate(p, r, v)
          \/ delete_parsing_rule(p, r)
    \/ create_parsing_rule(p) \/ activate_parsing_rule_version(p)

EditMappings(p) ==
    \E t \in DocTypes :
        \/ \E m \in MappingRows : create_field_mapping(p, t, m)
        \/ \E i \in 1..MaxFieldMappings : delete_field_mapping(p, t, i)

ParseFiles(p) ==
    \/ \E d \in DocIds, f \in Files : BeginParse(p, d, f)
    \/ Reject(p) \/ Verify(p) \/ dispatch(p)
    \/ \E q \in ParseIds : store_parse_request(p, q) \/ save_parse_correction(p, q)
    \/ \E text \in Texts : apply_correction_learning(p, text)

Accounts(p) ==
    \/ \E e \in Emails :
          \/ \E role \in {"admin", "viewer"}, admin \in BOOLEAN : BeginRegister(p, e, role, admin)
          \/ \E k \in Tokens : login_for_access_token(p, e, k)
    \/ register_user(p) \/ \E k \in Tokens : logout(p, k)

-----------------------------------------------------------------------------
(* What DocAI promises. *)

\* A rule extracts what its active version says, and one version is active:
\* every activation that nothing else was changing the rule at the same time
\* of leaves it so, also after two that overlapped left it otherwise, or a
\* process died before giving a new rule its first version.
RuleServesActiveVersion ==
    \A r \in LiveRules \ overtaken :
        (\A p \in Processes : ~(djob[p].op = "rule" /\ djob[p].on = r)) =>
            \E v \in DOMAIN prule[r].vers :
                /\ prule[r].vers[v].active /\ prule[r].vers[v].body = prule[r].body
                /\ \A w \in DOMAIN prule[r].vers \ {v} : ~prule[r].vers[w].active

\* What the connectors are given, and what is stored, was read from a file that
\* resembles a sample its own doc_id was trained with or corrected to, and no
\* value goes out in clear under a name that calls for redaction: whatever the
\* mappings call the field that was found.
PushedIsVetted ==
    \A x \in ({pushed} \ {NoDocRow}) \cup {parsed[q] : q \in Rows(parsed)} :
        /\ \E s \in sample : s.doc = x.doc /\ Similarity[x.text][s.text] >= ClassificationThreshold
        /\ \A n \in DOMAIN x.fields \cap SensitiveFields : x.fields[n] = "redacted"

\* Only as many users as there are processes can come in without an invitation:
\* registration is open while there is no user, and whoever is not let in then
\* needs an administrator.
RegistrationCloses ==
    Cardinality({e \in Rows(account) : ~account[e].invited}) <= Cardinality(Processes)

=============================================================================
