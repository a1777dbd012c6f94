--------------------------- MODULE PlatformModules ----------------------------
(***************************************************************************)
(* The modules FlowEngine sells and the platform's administrators          *)
(* (backend/modules/platforms_modules and admins).  A module is a row of   *)
(* auth.modules and, when it has a plan, an entry of the Kill Bill         *)
(* gateway's plans file under its name.  A request changes the row first,  *)
(* then tells the gateway, and takes the row back when the gateway refuses *)
(* or cannot be reached.  Names hold no space, so that the gateway's names *)
(* are FlowEngine's.  One catalog request runs at a time; assignments to a *)
(* tenant overlap.                                                         *)
(***************************************************************************)
EXTENDS Naturals, FiniteSets

CONSTANTS
    ModIds, ModNames,
    Admins,         \* ids of administrators in Keycloak
    Seeded,         \* the id the seeder gives the superadmin
    AssignJobs,     \* requests to assign or remove a module of one tenant
    NoMod

\* The columns of auth.modules.
ModRows == [name : ModNames, status : {"active", "inactive"}, free : BOOLEAN]

ASSUME SeededAssumption == Seeded \in Admins
ASSUME NoModAssumption == NoMod \notin ModRows

VARIABLES
    mods,           \* auth.modules by id
    plan,           \* plans of a name in the gateway's file: none, active or inactive
    mreq,           \* the catalog request in progress
    unanswered,     \* ghost: the gateway did something FlowEngine was not told of
    assigned,       \* the modules attribute of the tenant's administrator in Keycloak
    asg,            \* assignment requests
    admins,         \* administrators in Keycloak
    seeder          \* where the startup seeder is

platformVars == <<mods, plan, mreq, unanswered, assigned, asg, admins, seeder>>

Idle      == [op |-> "none"]
NoAssign  == [op |-> "none"]
NoAdmin   == [type |-> "none", roles |-> {}, on |-> FALSE]

PlatformInit ==
    /\ mods = [i \in ModIds |-> NoMod] /\ plan = [n \in ModNames |-> "none"]
    /\ mreq = Idle /\ unanswered = FALSE
    /\ assigned = {} /\ asg = [j \in AssignJobs |-> NoAssign]
    /\ admins = [a \in Admins |-> NoAdmin] /\ seeder = "start"

catalogOnly == <<assigned, asg, admins, seeder>>

Live          == {i \in ModIds : mods[i] # NoMod}
Taken(n, i)   == \E o \in Live \ {i} : mods[o].name = n

-----------------------------------------------------------------------------
(* The gateway's plans file.  A free plan is pushed to Kill Bill, which can    *)
(* refuse the catalog; then the file keeps its old contents.                   *)

Gateway == {"done", "refused", "unreachable", "lost"}

\* POST /api/products/sync: a name that has plans, active or not, gets no new one.
Synced(n, free) ==
    [plan EXCEPT ![n] = IF free /\ @ = "none" THEN "active" ELSE @]

\* POST /api/products/update: plans move to the new name; without a free plan
\* all of them, paid ones too, are made inactive.
Renamed(old, n, free) ==
    LET had == plan[old] # "none" \/ plan[n] # "none"
    IN  [m \in ModNames |->
            IF m = n THEN (IF free THEN "active" ELSE IF had THEN "inactive" ELSE "none")
            ELSE IF m = old THEN "none" ELSE plan[m]]

\* What FlowEngine sees (ok) and what the gateway did with a request that would
\* leave the file as after.
Told(after, out, ok) ==
    /\ ok = (out = "done")
    /\ plan' = IF out \in {"done", "lost"} THEN after ELSE plan
    /\ unanswered' = (unanswered \/ out = "lost")

\* GET /api/plans/modules lists active plans of active modules; no answer counts as none.
has_plan(n, reached) == reached /\ plan[n] = "active"

\* An administrator adds a paid plan in the gateway.
AddPlan(n) ==
    /\ plan[n] # "active"
    /\ plan' = [plan EXCEPT ![n] = "active"]
    /\ UNCHANGED <<mods, mreq, unanswered>> /\ UNCHANGED catalogOnly

-----------------------------------------------------------------------------
(* create_module *)

create_module(i, n, st, free) ==
    /\ mreq = Idle /\ mods[i] = NoMod /\ (\A k \in ModIds : k < i => k \in Live)
    /\ ~Taken(n, i)
    /\ mods' = [mods EXCEPT ![i] = [name |-> n, status |-> st, free |-> free]]
    /\ mreq' = [op |-> "create", id |-> i]
    /\ UNCHANGED <<plan, unanswered>> /\ UNCHANGED catalogOnly

\* Mutant: the row stays when the gateway could not be told.
CreateSyncKept(out, reached) ==
    /\ mreq.op = "create"
    /\ LET i == mreq.id row == mods[i]
       IN  /\ out = "refused" => row.free
           /\ \E ok \in BOOLEAN : Told(Synced(row.name, row.free), out, ok)
           /\ mods' = [mods EXCEPT ![i].status =
                         IF @ = "active" /\ ~row.free /\ ~has_plan(row.name, reached)
                         THEN "inactive" ELSE @]
           /\ mreq' = Idle
    /\ UNCHANGED catalogOnly

\* The compensating delete on refusal or error; an active module that has
\* neither a free nor another plan is made inactive.
CreateSync(out, reached) ==
    /\ mreq.op = "create"
    /\ LET i == mreq.id row == mods[i]
       IN  /\ out = "refused" => row.free
           /\ \E ok \in BOOLEAN :
                /\ Told(Synced(row.name, row.free), out, ok)
                /\ mods' = [mods EXCEPT ![i] =
                     IF ~ok THEN NoMod
                     ELSE IF row.status = "active" /\ ~row.free /\ ~has_plan(row.name, reached)
                     THEN [row EXCEPT !.status = "inactive"] ELSE row]
           /\ mreq' = Idle
    /\ UNCHANGED catalogOnly

-----------------------------------------------------------------------------
(* update_module *)

update_module(i, n, st, free) ==
    /\ mreq = Idle /\ i \in Live /\ ~Taken(n, i)
    /\ mods' = [mods EXCEPT ![i] = [name |-> n, status |-> st, free |-> free]]
    /\ mreq' = [op |-> "update", id |-> i, old |-> mods[i]]
    /\ UNCHANGED <<plan, unanswered>> /\ UNCHANGED catalogOnly

\* Refused, the billing fields are put back and the request ends there: the new
\* status stays, and is not checked.  Otherwise an activation without a plan is
\* taken back.
UpdateSync(out, reached) ==
    /\ mreq.op = "update"
    /\ LET i == mreq.id row == mods[i] old == mreq.old
           changed == old.name # row.name \/ old.free # row.free
       IN  /\ out = "refused" => row.free
           /\ ~changed => out = "done"
           /\ \E ok \in BOOLEAN :
                /\ Told(IF changed THEN Renamed(old.name, row.name, row.free) ELSE plan, out, ok)
                /\ mods' = [mods EXCEPT ![i] =
                     IF ~ok THEN [row EXCEPT !.name = old.name, !.free = old.free]
                     ELSE IF /\ row.status = "active" /\ old.status # "active" /\ ~row.free
                             /\ ~(reached /\ plan'[row.name] = "active")
                     THEN [row EXCEPT !.status = old.status] ELSE row]
           /\ mreq' = Idle
    /\ UNCHANGED catalogOnly

-----------------------------------------------------------------------------
(* delete_module: the gateway first, which refuses while there are active     *)
(* subscribers and makes the plans inactive; the row only when it agreed.     *)

delete_module(i, out) ==
    /\ mreq = Idle /\ i \in Live
    /\ \E ok \in BOOLEAN :
         /\ Told([plan EXCEPT ![mods[i].name] = IF @ = "none" THEN @ ELSE "inactive"], out, ok)
         /\ mods' = IF ok THEN [mods EXCEPT ![i] = NoMod] ELSE mods
    /\ UNCHANGED mreq /\ UNCHANGED catalogOnly

-----------------------------------------------------------------------------
(* assign_modules_to_tenant and remove_module_from_tenant: the attribute is    *)
(* read, changed and written back whole; the answer to the PUT is not looked at. *)

ReadAttribute(j, op, i) ==
    /\ asg[j] = NoAssign /\ i \in Live
    /\ op = "remove" => mods[i].name \in assigned
    /\ asg' = [asg EXCEPT ![j] = [op |-> op, name |-> mods[i].name, seen |-> assigned]]
    /\ UNCHANGED <<mods, plan, mreq, unanswered, assigned, admins, seeder>>

PutAttribute(j, ok) ==
    /\ asg[j] # NoAssign
    /\ assigned' = IF ~ok THEN assigned
                   ELSE IF asg[j].op = "assign" THEN asg[j].seen \cup {asg[j].name}
                   ELSE asg[j].seen \ {asg[j].name}
    /\ asg' = [asg EXCEPT ![j] = NoAssign]
    /\ UNCHANGED <<mods, plan, mreq, unanswered, admins, seeder>>

-----------------------------------------------------------------------------
(* The seeder and the /admin/admins routes.                                    *)

adminOnly == <<mods, plan, mreq, unanswered, assigned, asg>>

\* seed_super_admin runs when the application starts and does nothing when the
\* user is there: one whose role was never assigned stays without it.
SeedCheck ==
    /\ seeder = "start"
    /\ seeder' = IF admins[Seeded] # NoAdmin THEN "done" ELSE "create"
    /\ UNCHANGED admins /\ UNCHANGED adminOnly

SeedCreate(ok) ==
    /\ seeder = "create"
    /\ admins' = IF ok THEN [admins EXCEPT ![Seeded] = [type |-> "superadmin", roles |-> {}, on |-> TRUE]]
                 ELSE admins
    /\ seeder' = IF ok THEN "role" ELSE "done"
    /\ UNCHANGED adminOnly

SeedRole(ok) ==
    /\ seeder = "role"
    /\ admins' = IF ok THEN [admins EXCEPT ![Seeded].roles = {"superadmin"}] ELSE admins
    /\ seeder' = "done"
    /\ UNCHANGED adminOnly

\* The application stops, anywhere in the seeder, and starts again.
RestartApp ==
    /\ seeder' = "start"
    /\ UNCHANGED admins /\ UNCHANGED adminOnly

\* A session is good while Keycloak vouches for its user, who has one of the roles.
verify_admin_token(a, role) ==
    /\ admins[a].on
    /\ role = IF "superadmin" \in admins[a].roles THEN "superadmin"
              ELSE IF "admin" \in admins[a].roles THEN "admin" ELSE "none"

require_superadmin(a) == verify_admin_token(a, "superadmin")

\* The user is made first and the role given to it after; without the role the
\* account is listed as an administrator and cannot sign in.
create_admin(a, b, ok) ==
    /\ require_superadmin(a) /\ admins[b] = NoAdmin /\ b # Seeded
    /\ admins' = [admins EXCEPT ![b] = [type |-> "admin", roles |-> IF ok THEN {"admin"} ELSE {}, on |-> TRUE]]
    /\ UNCHANGED seeder /\ UNCHANGED adminOnly

\* Keycloak's own console can make an administrator a second superadmin.
GrantSuperadmin(b) ==
    /\ admins[b].type = "admin"
    /\ admins' = [admins EXCEPT ![b].roles = @ \cup {"superadmin"}]
    /\ UNCHANGED seeder /\ UNCHANGED adminOnly

\* get_admin_by_id takes the role from the realm roles, not from user_type.
MayChange(a, b) ==
    /\ require_superadmin(a) /\ a # b
    /\ admins[b].type \in {"admin", "superadmin"}
    /\ "superadmin" \notin admins[b].roles

update_admin(a, b, on) ==
    /\ MayChange(a, b)
    /\ admins' = [admins EXCEPT ![b].on = on]
    /\ UNCHANGED seeder /\ UNCHANGED adminOnly

delete_admin(a, b) ==
    /\ MayChange(a, b)
    /\ admins' = [admins EXCEPT ![b] = NoAdmin]
    /\ UNCHANGED seeder /\ UNCHANGED adminOnly

-----------------------------------------------------------------------------

ModuleCatalog ==
    \/ \E i \in ModIds, n \in ModNames, st \in {"active", "inactive"}, free \in BOOLEAN :
         create_module(i, n, st, free) \/ update_module(i, n, st, free)
    \/ \E out \in Gateway, reached \in BOOLEAN : CreateSync(out, reached) \/ UpdateSync(out, reached)
    \/ \E i \in ModIds, out \in Gateway : delete_module(i, out)
    \/ \E n \in ModNames : AddPlan(n)
    \/ \E j \in AssignJobs : \/ \E i \in ModIds, op \in {"assign", "remove"} : ReadAttribute(j, op, i)
                             \/ \E ok \in BOOLEAN : PutAttribute(j, ok)

AdminAccounts ==
    \/ SeedCheck \/ RestartApp
    \/ \E ok \in BOOLEAN : SeedCreate(ok) \/ SeedRole(ok)
    \/ \E a, b \in Admins : \/ \E v \in BOOLEAN : create_admin(a, b, v) \/ update_admin(a, b, v)
                            \/ delete_admin(a, b)
    \/ \E b \in Admins : GrantSuperadmin(b)

-----------------------------------------------------------------------------

\* A module with a free plan is one the gateway has a plan for, under the name
\* the module has now: however creations, renames and deletions follow each
\* other and whichever of their calls the gateway refuses or never gets, as long
\* as no answer was lost on the way back and no request is under way.
FreeModuleHasPlan ==
    mreq = Idle /\ ~unanswered =>
        \A i \in Live : mods[i].free => plan[mods[i].name] # "none"

=============================================================================
