------------------------------ MODULE RenderJobs ------------------------------
(***************************************************************************)
(* Making documents from templates: the generate endpoint, which renders   *)
(* in the request, and the worker, which claims queued jobs; the job rows  *)
(* they share, the files they write and the deletion of both.  A document  *)
(* is the template it was made from and, for each token of its layout,     *)
(* where the value came from: the language model, a query, a runtime       *)
(* parameter, the sample value, or nowhere (the token stays in the text).  *)
(***************************************************************************)
EXTENDS TemplateStore

CONSTANTS
    DocJobs,        \* render_jobs, ids given out in order
    DocLocales, Workers,
    NoJob, NoDoc

VARIABLES
    rjob,       \* template_builder.render_jobs by id
    file,       \* RESULTS_DIR: the documents by file name
    made,       \* requests and worker tasks between two of their steps
    marred      \* ghost: jobs whose deletion got as far as the file

renderVars == <<rjob, file, made, marred>>

Makers == DocJobs \cup Workers          \* a generate request is known by its job

JobFile(d)       == <<"job", d>>
WorkerFile(t, l) == <<l, t>>            \* named after the template and the locale
FileNames        == {JobFile(d) : d \in DocJobs} \cup {WorkerFile(t, l) : t \in TplIds, l \in DocLocales}

Idle == [pc |-> "none"]

\* The rows, and the documents in the files.
JobRows == [status : {"queued", "running", "success", "error", "deleted"}, on : TplIds, at : FileNames \cup {NoDoc}]
Origins == {"webhook", "sql", "sample", "param", "nowhere"}
DocRows == [on : TplIds, values : UNION {[S -> Origins] : S \in SUBSET Names}]

\* A worker's file has an underscore in its name and a job's has none; a request
\* is no worker task; no row is no row, and no document is neither a document nor
\* a name.
ASSUME RenderAssumption ==
    /\ "job" \notin DocLocales
    /\ DocJobs \cap Workers = {}
    /\ NoJob \notin JobRows /\ NoDoc \notin DocRows \cup FileNames

RenderInit ==
    /\ rjob = [d \in DocJobs |-> NoJob] /\ file = [f \in FileNames |-> NoDoc]
    /\ made = [m \in Makers |-> Idle] /\ marred = {}

Jobs(st) == {d \in DocJobs : rjob[d] # NoJob /\ rjob[d].status \in st}
Kept     == Jobs({"queued", "running", "success", "error"})
Fresh(d) == rjob[d] = NoJob /\ \A o \in DocJobs : o < d => rjob[o] # NoJob

-----------------------------------------------------------------------------
(* Values.  `up' are the sources that answer: "webhook", "sql".              *)

Active == {r \in Stored(reg) : reg[r].form.active}

\* The prompt: the caller's for this placeholder, the caller's for all, the
\* saved one.
_resolve_prompt_via_webhook(r, params, up) ==
    "webhook" \in up /\ (reg[r].name \in params \/ "prompt" \in params \/ reg[r].form.saved)

\* A query is run with the parameters it names replaced; one that is left in the
\* text makes the query fail.
inject_params(r, params) == reg[r].form.params \ params

resolve_batch(r, params, up) == "sql" \in up /\ inject_params(r, params) = {}

PlaceholderOrigin(r, params, up) ==
    CASE reg[r].form.mode = "llm_prompt" ->
            IF _resolve_prompt_via_webhook(r, params, up) THEN "webhook" ELSE "sample"
      [] reg[r].form.mode = "manual_sql" /\ reg[r].form.sql ->
            IF resolve_batch(r, params, up) THEN "sql" ELSE "sample"
      [] OTHER -> "sample"

\* Parameters that are placeholders do not go into the text themselves.
_build_context(params, up) ==
    [n \in Names |->
        LET R == {r \in Active : reg[r].name = n}
        IN  IF R # {} THEN PlaceholderOrigin(CHOOSE r \in R : TRUE, params, up)
            ELSE IF n \in params THEN "param" ELSE "nowhere"]

_build_sample_context(overrides) ==
    [n \in Names |->
        IF ActiveNamed(n) = {} THEN "nowhere" ELSE IF n \in overrides THEN "param" ELSE "sample"]

\* The worker knows only the placeholders bound to the template, and takes their
\* values from the parameters as they are.
resolve_placeholders(t, params) ==
    [n \in Names |->
        IF \E r \in Stored(reg) : <<t, r>> \in bound /\ reg[r].name = n
        THEN IF n \in params THEN "param" ELSE "sample"
        ELSE "nowhere"]

Document(t, layout, context) ==
    [on |-> t, values |-> [n \in layout.text \cup layout.images |-> context[n]]]

\* GET /templates/{id}/placeholders: also those in image addresses.
list_template_placeholders(t) ==
    {n \in tpl[t].layout.text \cup tpl[t].layout.images : ActiveNamed(n) # {}}

\* Mutant: the inputs of placeholders that have a saved prompt only.
InputsOfSaved(r) ==
    IF reg[r].form.mode = "llm_prompt"
    THEN (IF reg[r].form.saved THEN {reg[r].name} ELSE {}) ELSE reg[r].form.params

InputsOf(r) ==
    IF reg[r].form.mode = "llm_prompt" THEN {reg[r].name} ELSE reg[r].form.params

\* GET /templates/{id}/inputs: what to pass, and the tokens nobody knows.
get_template_inputs(t) ==
    [inputs     |-> UNION {InputsOf(r) : r \in {q \in Active : reg[q].name \in tpl[t].layout.text}},
     unresolved |-> {n \in tpl[t].layout.text : ActiveNamed(n) = {}}]

-----------------------------------------------------------------------------
(* POST /documents/generate: the template is read in one transaction, the    *)
(* job inserted as running in the next; then come the context, the file and  *)
(* the transaction that says success.                                        *)

BeginGenerate(d, t, params) ==
    /\ Fresh(d) /\ t \in Stored(tpl)
    /\ rjob' = [rjob EXCEPT ![d] = [status |-> "running", on |-> t, at |-> NoDoc]]
    /\ made' = [made EXCEPT ![d] = [pc |-> "render", on |-> t, layout |-> tpl[t].layout, params |-> params]]
    /\ UNCHANGED <<templateVars, file, marred>>

\* Mutant: the document is made and not saved.
RenderUnsaved(d, up) ==
    /\ made[d].pc = "render"
    /\ made' = [made EXCEPT ![d] = [pc |-> "finish"]]
    /\ UNCHANGED <<templateVars, rjob, file, marred>>

RenderGenerated(d, up) ==
    /\ made[d].pc = "render"
    /\ file' = [file EXCEPT ![JobFile(d)] =
                  Document(made[d].on, made[d].layout, _build_context(made[d].params, up))]
    /\ made' = [made EXCEPT ![d] = [pc |-> "finish"]]
    /\ UNCHANGED <<templateVars, rjob, marred>>

SetJob(d, st, at) ==
    rjob' = IF d \in Kept THEN [rjob EXCEPT ![d].status = st, ![d].at = at] ELSE rjob

\* The answer is "success" either way.
generate_document(d) ==
    /\ made[d].pc = "finish"
    /\ SetJob(d, "success", JobFile(d))
    /\ made' = [made EXCEPT ![d] = Idle]
    /\ UNCHANGED <<templateVars, file, marred>>

\* An exception while resolving, rendering or saving.
GenerateFails(d) ==
    /\ made[d].pc \in {"render", "finish"}
    /\ SetJob(d, "error", NoDoc)
    /\ made' = [made EXCEPT ![d] = Idle]
    /\ UNCHANGED <<templateVars, file, marred>>

\* The service stops: the job stays as it is, running.
GenerateCrashes(d) ==
    /\ made[d].pc \in {"render", "finish"}
    /\ made' = [made EXCEPT ![d] = Idle]
    /\ UNCHANGED <<templateVars, rjob, file, marred>>

-----------------------------------------------------------------------------
(* The worker (worker.py).  A claim, the rendering and the outcome are one   *)
(* transaction: others see the job queued until it commits and cannot claim  *)
(* it meanwhile.  Nothing in the repository queues jobs: clients of the      *)
(* table do.                                                                 *)

QueueJob(d, t) ==
    /\ Fresh(d) /\ t \in Stored(tpl)
    /\ rjob' = [rjob EXCEPT ![d] = [status |-> "queued", on |-> t, at |-> NoDoc]]
    /\ UNCHANGED <<templateVars, file, made, marred>>

Claimed == {made[w].job : w \in {v \in Workers : made[v].pc # "none"}}

\* The oldest that nobody has locked.
process_one(w, params) ==
    /\ made[w] = Idle
    /\ LET Q == Jobs({"queued"}) \ Claimed
       IN \E d \in Q :
            /\ \A o \in Q : d <= o
            /\ made' = [made EXCEPT ![w] = [pc |-> "render", job |-> d, on |-> rjob[d].on,
                                            layout |-> tpl[rjob[d].on].layout, params |-> params]]
    /\ UNCHANGED <<templateVars, rjob, file, marred>>

\* The file is named after the template and the locale.
RenderClaimed(w, l) ==
    /\ made[w].pc = "render"
    /\ file' = [file EXCEPT ![WorkerFile(made[w].on, l)] =
                  Document(made[w].on, made[w].layout, resolve_placeholders(made[w].on, made[w].params))]
    /\ made' = [made EXCEPT ![w] = [pc |-> "finish", job |-> made[w].job, at |-> WorkerFile(made[w].on, l)]]
    /\ UNCHANGED <<templateVars, rjob, marred>>

_render_job(w) ==
    /\ made[w].pc = "finish"
    /\ SetJob(made[w].job, "success", made[w].at)
    /\ made' = [made EXCEPT ![w] = Idle]
    /\ UNCHANGED <<templateVars, file, marred>>

\* The template is gone, the format unknown, the parameters malformed.
RenderFails(w) ==
    /\ made[w].pc = "render"
    /\ SetJob(made[w].job, "error", NoDoc)
    /\ made' = [made EXCEPT ![w] = Idle]
    /\ UNCHANGED <<templateVars, file, marred>>

\* A database error leaves the transaction aborted, so that recording the error
\* fails too; and a shutdown cancels the task.  Both roll back: the job is
\* queued again, a file that was written stays.
WorkerStops(w) ==
    /\ made[w].pc \in {"render", "finish"}
    /\ made' = [made EXCEPT ![w] = Idle]
    /\ UNCHANGED <<templateVars, rjob, file, marred>>

-----------------------------------------------------------------------------
(* DELETE /documents/jobs/{id}: the file goes first; the row is deleted in   *)
(* the same transaction, which has to wait for a worker that has locked it   *)
(* and may fail.                                                             *)

\* Jobs whose worker has written this file and not committed yet.
Saving(at) == {made[w].job : w \in {v \in Workers : made[v].pc = "finish" /\ made[v].at = at}}

UnlinkFile(d) ==
    /\ d \in Kept
    /\ file' = IF rjob[d].at # NoDoc THEN [file EXCEPT ![rjob[d].at] = NoDoc] ELSE file
    /\ marred' = marred \cup (IF rjob[d].at = NoDoc THEN {}
                              ELSE {o \in Jobs({"success"}) : rjob[o].at = rjob[d].at} \cup Saving(rjob[d].at))
    /\ UNCHANGED <<templateVars, made>>

delete_job(d) ==
    /\ d \notin Claimed
    /\ UnlinkFile(d)
    /\ rjob' = [rjob EXCEPT ![d].status = "deleted"]

DeleteJobFails(d) == UnlinkFile(d) /\ UNCHANGED rjob

RenderNext ==
    \/ \E d \in DocJobs :
          \/ \E t \in TplIds : QueueJob(d, t) \/ \E params \in SUBSET Names : BeginGenerate(d, t, params)
          \/ \E up \in SUBSET {"webhook", "sql"} : RenderGenerated(d, up)
          \/ generate_document(d) \/ GenerateFails(d) \/ GenerateCrashes(d)
          \/ delete_job(d) \/ DeleteJobFails(d)
    \/ \E w \in Workers :
          \/ \E params \in SUBSET Names : process_one(w, params)
          \/ \E l \in DocLocales : RenderClaimed(w, l)
          \/ _render_job(w) \/ RenderFails(w) \/ WorkerStops(w)

-----------------------------------------------------------------------------
(* What document generation promises. *)

\* A job that says success has a file made from its template: the download
\* finds it.  A deletion that got as far as the file is the one exception, also
\* for other jobs of the same template and locale that share the worker's file.
SuccessHasDocument ==
    \A d \in Jobs({"success"}) \ marred :
        file[rjob[d].at] # NoDoc /\ file[rjob[d].at].on = rjob[d].on

\* GET /templates/{id}/inputs "Tells external systems exactly what runtime params
\* this template needs": passing them all, with every source answering, no
\* text token the registry knows is left to its sample value, except those of
\* placeholders with no query to run.  And the placeholders the template is said
\* to use are those that both the preview and the document fill.
InputsSufficient ==
    \A t \in Stored(tpl) :
        LET asked   == get_template_inputs(t)
            context == _build_context(asked.inputs, {"webhook", "sql"})
            tokens  == tpl[t].layout.text \cup tpl[t].layout.images
            Filled(c) == {n \in tokens : c[n] # "nowhere"}
        IN  /\ \A n \in tpl[t].layout.text \ asked.unresolved :
                  \/ context[n] \in {"webhook", "sql"}
                  \/ \E r \in ActiveNamed(n) : reg[r].form.mode = "manual_sql" /\ ~reg[r].form.sql
            /\ list_template_placeholders(t) = Filled(_build_sample_context({}))
            /\ list_template_placeholders(t) = Filled(_build_context({}, {}))

=============================================================================
