----------------------------- MODULE PlanCatalog ------------------------------
(***************************************************************************)
(* The plans an administrator of the orchestration service keeps           *)
(* (plan_repository.py and the /admin routes of main.py): plan rows and    *)
(* their steps, saved versions, domain packs and the mappings from an      *)
(* intent to a plan.  Handlers read and write PostgreSQL at READ COMMITTED *)
(* with one transaction per request.  One that uses what it read before    *)
(* its write is taken in steps (`job`); one whose writes do not depend on  *)
(* its reads is one action, taken at its commit.  A handler that raises    *)
(* leaves no trace (db.get_db rolls back) and is not a step.               *)
(***************************************************************************)
EXTENDS Naturals, Sequences, FiniteSets

CONSTANTS
    PlanIds, PlanNames, Bodies,     \* a body is entity type, description, policy, concurrency
    StepSets,                       \* the sets of steps a client sends
    Packs, PackPlans,               \* the plan names of a pack, in their order
    PlanTenants, PackTenants, MapIntents, Channels, Locales, Ranks,
    Jobs, MaxVersion, MaxMappings,
    NoPlan

SharedPlan == "shared"      \* a plan whose tenant_id is NULL, 'global' or ''

\* The steps a plan can have: those a client sends, and what a saved version
\* gives back of them.  The columns of a plan's row.
StepKeys == {s.key : s \in UNION StepSets}
StepRows == (UNION StepSets) \cup [key : StepKeys, detail : BOOLEAN]
PlanRows == [name : PlanNames, tenant : PlanTenants \cup {SharedPlan}, body : Bodies,
             steps : SUBSET StepRows, active : BOOLEAN, ver : Nat]

ASSUME CatalogAssumption ==
    /\ NoPlan \notin PlanRows
    /\ PackPlans \in [Packs -> Seq(PlanNames)]
    /\ Ranks \subseteq Nat

VARIABLES
    plans,      \* orchestration.plans with plan_steps, by id
    versions,   \* orchestration.plan_versions: snapshots by plan and number
    installs,   \* orchestration.domain_pack_installations
    mappings,   \* orchestration.intent_plan_mappings
    job,        \* the requests being handled
    planIds     \* the ids given out

catalogVars == <<plans, versions, installs, mappings, job, planIds>>

NoJob  == [op |-> "none", pc |-> "none"]

CatalogInit ==
    /\ plans = [i \in PlanIds |-> NoPlan]
    /\ versions = [i \in PlanIds |-> {}]
    /\ installs = {} /\ mappings = {} /\ planIds = {}
    /\ job = [j \in Jobs |-> NoJob]

StoredPlans   == {i \in PlanIds : plans[i] # NoPlan}
TakenNames    == {plans[i].name : i \in StoredPlans}
PlanContent(p) == [name |-> p.name, body |-> p.body]

-----------------------------------------------------------------------------
(* POST, PUT, DELETE and PATCH /admin/plans. *)

\* Ids are random: it is enough to give them out in one order.
NextId(i) == i \notin planIds /\ \A k \in PlanIds : k < i => k \in planIds

\* The INSERT of a plan and its steps: plans.name is UNIQUE.
InsertPlan(i, n, t, b, S) ==
    /\ NextId(i) /\ n \notin TakenNames
    /\ plans' = [plans EXCEPT ![i] = [name |-> n, tenant |-> t, body |-> b, steps |-> S,
                                      active |-> TRUE, ver |-> 1]]
    /\ planIds' = planIds \cup {i}

create_plan(i, n, t, b, S) ==
    /\ InsertPlan(i, n, t, b, S)
    /\ UNCHANGED <<versions, installs, mappings, job>>

\* Fields that are not given stay; the number is raised in the UPDATE itself.
update_plan(i, n, b, S) ==
    /\ i \in StoredPlans /\ plans[i].ver < MaxVersion
    /\ n \notin {plans[k].name : k \in StoredPlans \ {i}}
    /\ plans' = [plans EXCEPT ![i] = [@ EXCEPT !.name = n, !.body = b, !.steps = S,
                                               !.ver = plans[i].ver + 1]]
    /\ UNCHANGED <<versions, installs, mappings, job, planIds>>

\* plan_steps and plan_versions go with the plan (ON DELETE CASCADE).
delete_plan(i) ==
    /\ i \in StoredPlans
    /\ plans' = [plans EXCEPT ![i] = NoPlan]
    /\ versions' = [versions EXCEPT ![i] = {}]
    /\ UNCHANGED <<installs, mappings, job, planIds>>

\* Neither raises the version.
SetActive(i, on) ==
    /\ i \in StoredPlans
    /\ plans' = [plans EXCEPT ![i].active = on]
    /\ UNCHANGED <<versions, installs, mappings, job, planIds>>

activate_plan(i)   == SetActive(i, TRUE)
deactivate_plan(i) == SetActive(i, FALSE)

-----------------------------------------------------------------------------
(* get_plan_by_id is two SELECTs: the plan and then its steps. *)

JobAt(j, op, pc) == job[j].op = op /\ job[j].pc = pc
EndJob(j) == job' = [job EXCEPT ![j] = NoJob]

\* What the handlers below use of a plan's row.
Read(p) == [name |-> p.name, tenant |-> p.tenant, body |-> p.body, steps |-> p.steps, ver |-> p.ver]

BeginOnPlan(j, op, i, arg) ==
    /\ job[j] = NoJob /\ i \in StoredPlans
    /\ job' = [job EXCEPT ![j] = [op |-> op, pc |-> "steps", plan |-> i, arg |-> arg,
                                  row |-> Read(plans[i])]]
    /\ UNCHANGED <<plans, versions, installs, mappings, planIds>>

\* The steps as they are now, under the row as it was.
ReadSteps(j) ==
    /\ job[j].pc = "steps"
    /\ job' = [job EXCEPT ![j].pc = "write",
                          ![j].row.steps = IF job[j].plan \in StoredPlans
                                           THEN plans[job[j].plan].steps ELSE {}]
    /\ UNCHANGED <<plans, versions, installs, mappings, planIds>>

clone_plan(j, i) ==
    /\ JobAt(j, "clone", "write")
    /\ LET p == job[j].row IN InsertPlan(i, job[j].arg, p.tenant, p.body, p.steps)
    /\ EndJob(j)
    /\ UNCHANGED <<versions, installs, mappings>>

-----------------------------------------------------------------------------
(* Saved versions. *)

\* The columns of plan_steps in schema.sql, and those a snapshot asks of a row:
\* it asks for one the table does not have, so only a plan without steps is
\* saved (the others end in a KeyError).
StepColumns    == {"step_key", "kind", "depends_on", "sql_template", "input_bindings_json"}
SnapshotFields == {"step_key", "kind", "depends_on", "output_mode"}
CanSnapshot(p) == p.steps = {} \/ SnapshotFields \subseteq StepColumns

\* (plan_id, version) is UNIQUE, and the plan must still exist.
InsertVersion(i, p) ==
    /\ CanSnapshot(p) /\ i \in StoredPlans
    /\ \A s \in versions[i] : s.ver # p.ver
    /\ versions' = [versions EXCEPT ![i] = @ \cup {[ver |-> p.ver, row |-> PlanContent(p),
                                                   steps |-> p.steps]}]

save_plan_version(j) ==
    /\ JobAt(j, "save", "write")
    /\ InsertVersion(job[j].plan, job[j].row)
    /\ EndJob(j)
    /\ UNCHANGED <<plans, installs, mappings, planIds>>

\* Steps come back with their key, kind, order and dependencies only.
BareSteps(S) == {[key |-> s.key, detail |-> FALSE] : s \in S}

\* Mutant: the restored plan keeps the version number it had.
RestoredSameNumber(p, s) == [p EXCEPT !.name = s.row.name, !.body = s.row.body,
                                      !.steps = IF s.steps = {} THEN @ ELSE BareSteps(s.steps)]

\* A version without steps leaves the plan's steps alone; tenant and is_active
\* are not restored.
Restored(p, s) == [p EXCEPT !.name = s.row.name, !.body = s.row.body, !.ver = @ + 1,
                            !.steps = IF s.steps = {} THEN @ ELSE BareSteps(s.steps)]

\* The state before is saved under the number that was read, then the plan is
\* overwritten; all of it or nothing.
restore_plan_version(j) ==
    /\ JobAt(j, "restore", "write")
    /\ LET i == job[j].plan
           s == job[j].arg
       IN  /\ InsertVersion(i, job[j].row)
           /\ plans[i].ver < MaxVersion
           /\ s.row.name \notin {plans[k].name : k \in StoredPlans \ {i}}
           /\ plans' = [plans EXCEPT ![i] = Restored(@, s)]
    /\ EndJob(j)
    /\ UNCHANGED <<installs, mappings, planIds>>

\* A handler that raises: a row it needs is gone or a UNIQUE key is taken.
AbandonJob(j) ==
    /\ job[j].pc = "write" /\ job[j].op # "install"
    /\ EndJob(j)
    /\ UNCHANGED <<plans, versions, installs, mappings, planIds>>

VersionJobs(j) ==
    \/ \E i \in PlanIds :
         \/ BeginOnPlan(j, "save", i, NoPlan)
         \/ \E s \in versions[i] : BeginOnPlan(j, "restore", i, s)
         \/ \E n \in PlanNames : BeginOnPlan(j, "clone", i, n)
         \/ clone_plan(j, i)
    \/ ReadSteps(j) \/ save_plan_version(j) \/ restore_plan_version(j) \/ AbandonJob(j)

-----------------------------------------------------------------------------
(* Domain packs.  The installation is inserted first, but what commits it is *)
(* the first plan created, whose commit ends the transaction; the rest of    *)
(* the plans follow in transactions of their own.                            *)

BeginInstall(j, k, t) ==
    /\ job[j] = NoJob /\ <<k, t>> \notin installs
    /\ job' = [job EXCEPT ![j] = [op |-> "install", pc |-> "plan", pack |-> k, tenant |-> t,
                                  left |-> PackPlans[k], inserted |-> FALSE]]
    /\ UNCHANGED <<plans, versions, installs, mappings, planIds>>

\* A plan name that exists already is passed over, whoever made it.
SkipPackPlan(j) ==
    /\ JobAt(j, "install", "plan") /\ job[j].left # <<>>
    /\ Head(job[j].left) \in TakenNames
    /\ job' = [job EXCEPT ![j].left = Tail(@)]
    /\ UNCHANGED <<plans, versions, installs, mappings, planIds>>

CommitInstall(j) == installs' = installs \cup {<<job[j].pack, job[j].tenant>>}
InstallTaken(j)  == ~job[j].inserted /\ <<job[j].pack, job[j].tenant>> \in installs

CreatePackPlan(j, i, b, S) ==
    /\ JobAt(j, "install", "plan") /\ job[j].left # <<>> /\ ~InstallTaken(j)
    /\ InsertPlan(i, Head(job[j].left), SharedPlan, b, S)
    /\ CommitInstall(j)
    /\ job' = [job EXCEPT ![j].left = Tail(@), ![j].inserted = TRUE]
    /\ UNCHANGED <<versions, mappings>>

InstallDone(j) ==
    /\ JobAt(j, "install", "plan") /\ job[j].left = <<>> /\ ~InstallTaken(j)
    /\ IF job[j].inserted THEN UNCHANGED installs ELSE CommitInstall(j)
    /\ EndJob(j)
    /\ UNCHANGED <<plans, versions, mappings, planIds>>

\* Another install of the pack committed first, or the service stopped: what
\* was committed stays.
InstallFails(j) ==
    /\ job[j].op = "install"
    /\ EndJob(j)
    /\ UNCHANGED <<plans, versions, installs, mappings, planIds>>

\* The plans stay.
uninstall_domain_pack(k, t) ==
    /\ <<k, t>> \in installs
    /\ installs' = installs \ {<<k, t>>}
    /\ UNCHANGED <<plans, versions, mappings, job, planIds>>

install_domain_pack(j) ==
    \/ \E k \in Packs, t \in PackTenants : BeginInstall(j, k, t)
    \/ SkipPackPlan(j)
    \/ \E i \in PlanIds, b \in Bodies, S \in StepSets : CreatePackPlan(j, i, b, S)
    \/ InstallDone(j) \/ InstallFails(j)

-----------------------------------------------------------------------------
(* Intent to plan.  plan_name is no foreign key: it may name no plan. *)

MappingKey(m) == <<m.intent, m.channel, m.locale, m.rank>>

PutMapping(old, m) ==
    /\ \A o \in mappings \ old : MappingKey(o) # MappingKey(m)
    /\ mappings' = (mappings \ old) \cup {m}
    /\ Cardinality(mappings') <= MaxMappings
    /\ UNCHANGED <<plans, versions, installs, job, planIds>>

MappingRows == [intent : MapIntents, channel : Channels, locale : Locales, rank : Ranks,
             plan : PlanNames, active : BOOLEAN]

create_intent_plan_mapping(m) == PutMapping({}, m)
update_intent_plan_mapping(o, m) ==
    o \in mappings /\ m.intent = o.intent /\ m # o /\ PutMapping({o}, m)
delete_intent_plan_mapping(o) ==
    /\ o \in mappings
    /\ mappings' = mappings \ {o}
    /\ UNCHANGED <<plans, versions, installs, job, planIds>>

LowestRank(M) == {m \in M : \A o \in M : m.rank <= o.rank}

\* Mutant: the locale fallback forgets the channel.
ResolveAnyChannel(x, c, l) ==
    LET on == {m \in mappings : m.intent = x /\ m.active}
        E  == {m \in on : m.channel = c /\ m.locale = l}
        U  == {m \in on : m.locale = "multi"}
    IN  LowestRank(IF E # {} THEN E ELSE IF U # {} THEN U ELSE on)

\* The rows the query may return: exactly as asked, else for every locale of
\* the channel, else any of the intent, each time by rank.
resolve_plan_for_intent(x, c, l) ==
    LET on == {m \in mappings : m.intent = x /\ m.active}
        E  == {m \in on : m.channel = c /\ m.locale = l}
        U  == {m \in on : m.channel = c /\ m.locale = "multi"}
    IN  LowestRank(IF E # {} THEN E ELSE IF U # {} THEN U ELSE on)

\* The active plan of that name that tenant t may run.
get_plan(n, t) ==
    {i \in StoredPlans : plans[i].name = n /\ plans[i].active /\ plans[i].tenant \in {t, SharedPlan}}

-----------------------------------------------------------------------------

PlanRoutes ==
    \E i \in PlanIds :
        \/ \E n \in PlanNames, b \in Bodies, S \in StepSets :
             \/ \E t \in PlanTenants : create_plan(i, n, t, b, S)
             \/ update_plan(i, n, b, S)
        \/ delete_plan(i) \/ activate_plan(i) \/ deactivate_plan(i)

MappingRoutes ==
    \/ \E m \in MappingRows : \/ create_intent_plan_mapping(m)
                           \/ \E o \in mappings : update_intent_plan_mapping(o, m)
    \/ \E o \in mappings : delete_intent_plan_mapping(o)

CatalogNext ==
    \/ PlanRoutes
    \/ \E j \in Jobs : VersionJobs(j) \/ install_domain_pack(j)
    \/ \E k \in Packs, t \in PackTenants : uninstall_domain_pack(k, t)

-----------------------------------------------------------------------------
(* What the catalog promises. *)

\* A saved version is never newer than its plan, and the version that carries
\* the plan's own number is the plan as it stands: a version number never
\* stands for two contents, although save_plan_version and
\* restore_plan_version write under a number they read earlier, while
\* update_plan may be raising it.
SavedIsCurrent ==
    \A i \in StoredPlans : \A s \in versions[i] :
        /\ s.ver <= plans[i].ver
        /\ s.ver = plans[i].ver => s.row = PlanContent(plans[i])

\* How closely a mapping answers a request for channel c and locale l.
Closeness(m, c, l) == IF m.channel = c /\ m.locale = l THEN 2
                      ELSE IF m.channel = c /\ m.locale = "multi" THEN 1 ELSE 0

\* resolve_plan_for_intent answers whenever the intent has an active mapping,
\* and with one than which no active mapping of the intent is closer to the
\* channel and locale asked for, or as close and of a lower rank.
ResolvedIsBest ==
    \A x \in MapIntents, c \in Channels, l \in Locales :
        LET R  == resolve_plan_for_intent(x, c, l)
            on == {m \in mappings : m.intent = x /\ m.active}
        IN  /\ R = {} <=> on = {}
            /\ \A m \in R, o \in on :
                 \/ Closeness(m, c, l) > Closeness(o, c, l)
                 \/ Closeness(m, c, l) = Closeness(o, c, l) /\ m.rank <= o.rank

=============================================================================
