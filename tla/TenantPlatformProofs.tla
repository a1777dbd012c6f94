------------------------- MODULE TenantPlatformProofs -------------------------
(***************************************************************************)
(* Theorems about FlowEngine's tenants, for any number of users, tenants,  *)
(* modules, requests at the same time and requests in all:                 *)
(*                                                                         *)
(*   TrialOnceHolds         a free module is granted to a tenant once      *)
(*   AccountsCompleteHolds  administrators have accounts, after one fault  *)
(*   ModuleSeatsHolds       a module has two active users at most          *)
(*   DeletedIsGoneHolds     nothing is left of a tenant that was deleted   *)
(*                                                                         *)
(* All rest on Ground: what requests know where they stand, and that no    *)
(* two e-mails are known to administer one tenant.                         *)
(***************************************************************************)
EXTENDS TenantPlatform, FiniteSetTheorems, TLAPS

Ops    == {"none", "create", "delete", "upgrade", "edit", "create_user", "update_user", "delete_user"}
Places == {"idle", "user", "attach", "account", "plans", "subs", "key", "rollback", "find", "users",
           "purge", "cancel", "put", "keys", "sync", "add", "cascade", "disable", "check", "post",
           "attrs", "del"}

RequestType ==
    [op : Ops, pc : Places, email : Emails \cup {"none"}, tenant : Tenants \cup {NoTenant},
     mods : SUBSET Modules, status : Statuses, role : Roles, todo : SUBSET (Emails \cup Modules),
     seen : [Emails -> Users], id : Nat, tries : Nat, bad : BOOLEAN]

PostType == [by : SUBSET Requests, tenant : Tenants, mod : Modules, claimed : BOOLEAN]

TypeInvariant ==
    /\ kc \in [Emails -> Users]
    /\ keys \in [Tenants -> SUBSET Statuses]
    /\ req \in [Requests -> RequestType]
    /\ posts \subseteq PostType
    /\ used \subseteq Tenants /\ accounts \subseteq used
    /\ made \in Nat /\ faults \in Nat

\* A user as Keycloak has it or a handler has read it, when the tenants U are in
\* use and n users were made.
Record(u, U, n) ==
    /\ u.tenant \in U \cup {NoTenant}
    /\ u.tenant = NoTenant <=> u.role = "none"
    /\ u.id <= n /\ (u.id = 0 => u = NoUser)

\* What a handler knows where it stands.
Stage(x, U, n) ==
    /\ x.pc = "idle" => x.op = "none"
    /\ x.pc # "idle" => x.email \in Emails
    /\ IF x.pc \in {"idle", "user", "attach", "find"} THEN x.tenant = NoTenant ELSE x.tenant \in U
    /\ x.op = "create" /\ x.pc # "user" => x.id \in 1..n
    /\ x.op = "create_user" => x.role \in SubRoles /\ (x.pc = "attrs" => x.id \in 1..n)
    /\ x.op \in {"upgrade", "edit", "update_user"} /\ x.pc = "put" =>
         x.seen[x.email].tenant = x.tenant
    /\ x.op = "edit" /\ x.pc = "put" => x.seen[x.email].role = "tenant_admin"
    /\ x.op = "edit" /\ x.pc = "disable" =>
         \A e \in x.todo : e \in Emails /\ x.seen[e].tenant = x.tenant /\ x.seen[e].role \in SubRoles

\* The users of e-mail e anybody knows of.
Known(e) == {kc[e]} \cup {req[r].seen[e] : r \in Requests}

OneAdmin ==
    \A e, f \in Emails : \A u \in Known(e), v \in Known(f) :
        u.role = "tenant_admin" /\ v.role = "tenant_admin" /\ u.tenant = v.tenant => e = f

Ground ==
    /\ TypeInvariant
    /\ \A r \in Requests : Stage(req[r], used, made)
    /\ \A e \in Emails : \A u \in Known(e) : Record(u, used, made)
    /\ OneAdmin

\* What is active was granted, what was granted is claimed for good, and a claim
\* that waits for its answer is one of its kind.
TrialInvariant ==
    /\ subs \subseteq granted /\ granted \subseteq trials
    /\ \A p \in posts : p.claimed => <<p.tenant, p.mod>> \in trials \ granted
    /\ \A p, q \in posts : p.claimed /\ q.claimed /\ p.tenant = q.tenant /\ p.mod = q.mod => p = q

\* The creation that answers for administrator u of e-mail e.
Creates(r, e, u) ==
    /\ req[r].op = "create" /\ req[r].pc \in {"account", "rollback"}
    /\ req[r].email = e /\ req[r].tenant = u.tenant /\ req[r].id = u.id

AccountInvariant ==
    /\ \A r \in Requests : At(r, "create", "rollback") => faults >= 1
    /\ faults <= 1 =>
         \A e \in Emails : \A u \in Known(e) :
             u.role = "tenant_admin" =>
                 \/ u.tenant \in accounts \cup orphans
                 \/ \E r \in Requests : Creates(r, e, u)
                 \/ kc[e].id # u.id

\* Two requests about a tenant have raced, and so has one that gives nothing to
\* subscribe to with a subscription asked for; those are asked for tenants in use.
OverlapInvariant ==
    /\ \A p \in posts : p.tenant \in used
    /\ \A r, s \in Busy : r # s /\ req[r].tenant = req[s].tenant /\ req[r].tenant # NoTenant =>
                            req[r].tenant \in raced
    /\ \A p \in posts, r \in Busy : req[r].tenant = p.tenant /\ req[r].op \notin {"create", "edit"} =>
                                      p.tenant \in raced

\* The users that take a seat.
Seated(t, m) == {e \in Emails : /\ kc[e].tenant = t /\ kc[e].role = "tenant_module_user"
                                /\ kc[e].status = "active" /\ m \in kc[e].mods}

\* Request r is about to write an active module user with module m.
Seats(x, m) ==
    \/ /\ x.op = "create_user" /\ x.pc \in {"post", "attrs"}
       /\ x.role = "tenant_module_user" /\ x.status = "active" /\ m \in x.mods
    \/ /\ x.op = "update_user" /\ x.pc = "put"
       /\ x.seen[x.email].role = "tenant_module_user" /\ x.status = "active" /\ m \in x.mods
    \/ /\ x.op = "upgrade" /\ x.pc = "put"
       /\ x.seen[x.email].role = "tenant_module_user"
       /\ x.seen[x.email].status = "active" /\ m \in x.seen[x.email].mods

SeatInvariant ==
    /\ ModuleSeats
    /\ \A r \in Requests, m \in Modules :
         req[r].tenant \in Tenants \ raced /\ Seats(req[r], m) =>
             Cardinality(Seated(req[r].tenant, m) \cup {req[r].email}) <= SeatLimit

\* What a deletion of t has removed where request x stands, if nothing failed.
Removed(x, t) ==
    /\ x.pc = "users" => \A e \in Emails : kc[e].tenant = t => e \in x.todo
    /\ x.pc \in {"purge", "cancel"} => keys[t] = {} /\ \A e \in Emails : kc[e].tenant # t
    /\ x.pc = "cancel" => t \notin data \cup secrets

Closed(t) ==
    /\ \A r \in Requests : req[r].tenant # t
    /\ \A p \in posts : p.tenant # t

DeletionInvariant ==
    /\ gone \subseteq used
    /\ DeletedIsGone
    /\ \A t \in gone \ raced : Closed(t)
    /\ \A r \in Requests :
         req[r].op = "delete" /\ req[r].tenant \in Tenants \ raced /\ ~req[r].bad =>
             Removed(req[r], req[r].tenant)

-----------------------------------------------------------------------------
(* What Ground asks of a step, taken apart: the requests, the users, the rest. *)

\* The requests fit after the step, and have read what was known before it.
RequestsFit ==
    /\ req' \in [Requests -> RequestType]
    /\ \A r \in Requests : /\ Stage(req'[r], used', made')
                           /\ \A e \in Emails : req'[r].seen[e] \in Known(e) \cup {NoUser}

\* The users fit: an administrator was known as that, or is of a tenant that is new.
UsersFit ==
    /\ kc' \in [Emails -> Users]
    /\ \A e \in Emails :
         /\ Record(kc'[e], used', made')
         /\ kc'[e].role = "tenant_admin" =>
              \/ \E u \in Known(e) : u.role = "tenant_admin" /\ u.tenant = kc'[e].tenant
              \/ kc'[e].tenant \notin used /\ \A f \in Emails \ {e} : kc'[f] = kc[f]

RestFits ==
    /\ keys' \in [Tenants -> SUBSET Statuses]
    /\ posts' \subseteq PostType
    /\ used' \subseteq Tenants /\ accounts' \subseteq used' /\ used \subseteq used'
    /\ made' \in Nat /\ made <= made' /\ faults' \in Nat

\* NoUser and Idle are what they look like.
LEMMA Blanks ==
    /\ NoUser \in Users /\ NoUser.tenant = NoTenant /\ NoUser.role = "none" /\ NoUser.id = 0
    /\ NoUser.status = "inactive" /\ NoUser.mods = {}
    /\ Idle \in RequestType /\ Idle.pc = "idle" /\ Idle.op = "none" /\ Idle.tenant = NoTenant
    /\ Idle.bad = FALSE /\ \A e \in Emails : Idle.seen[e] = NoUser
  <1>1. /\ NoUser \in Users /\ NoUser.tenant = NoTenant /\ NoUser.role = "none" /\ NoUser.id = 0
        /\ NoUser.status = "inactive" /\ NoUser.mods = {}
    BY DEF NoUser, Users, Roles, Statuses
  <1>2. [e \in Emails |-> NoUser] \in [Emails -> Users]
    BY <1>1
  <1>3. /\ Idle.pc = "idle" /\ Idle.op = "none" /\ Idle.tenant = NoTenant
        /\ Idle.bad = FALSE /\ \A e \in Emails : Idle.seen[e] = NoUser
    BY DEF Idle
  <1>4. ASSUME NEW seen \in [Emails -> Users]
        PROVE  [op |-> "none", pc |-> "idle", email |-> "none", tenant |-> NoTenant,
                mods |-> {}, status |-> "active", role |-> "none", todo |-> {},
                seen |-> seen, id |-> 0, tries |-> 0, bad |-> FALSE] \in RequestType
    BY DEF RequestType, Ops, Places, Roles, Statuses
  <1>5. Idle \in RequestType
    BY <1>2, <1>4 DEF Idle
  <1> QED
    BY <1>1, <1>3, <1>5

\* A stage remains one when tenants and users are added.
LEMMA StageGrows ==
    ASSUME NEW x \in RequestType, NEW U, NEW V, NEW n \in Nat, NEW k \in Nat,
           U \subseteq V, n <= k, Stage(x, U, n)
    PROVE  Stage(x, V, k)
  <1>1. IF x.pc \in {"idle", "user", "attach", "find"} THEN x.tenant = NoTenant ELSE x.tenant \in V
    BY DEF Stage
  <1>2. x.op = "create" /\ x.pc # "user" => x.id \in 1..k
    BY DEF Stage
  <1>3. x.op = "create_user" => x.role \in SubRoles /\ (x.pc = "attrs" => x.id \in 1..k)
    BY DEF Stage
  <1> QED
    BY <1>1, <1>2, <1>3 DEF Stage

\* So does what a user is like.
LEMMA RecordGrows ==
    ASSUME NEW u \in Users, NEW U, NEW V, NEW n \in Nat, NEW k \in Nat,
           U \subseteq V, n <= k, Record(u, U, n)
    PROVE  Record(u, V, k)
  BY DEF Record, Users

\* A user that is not there fits everywhere.
LEMMA NoRecord ==
    ASSUME NEW U, NEW n \in Nat
    PROVE  Record(NoUser, U, n)
  BY Blanks DEF Record

\* An idle request fits everywhere.
LEMMA IdleStage ==
    ASSUME NEW U, NEW n \in Nat
    PROVE  Stage(Idle, U, n)
  BY Blanks DEF Stage

\* What is known is made of users.
LEMMA KnownUsers ==
    ASSUME TypeInvariant, NEW e \in Emails
    PROVE  /\ Known(e) \subseteq Users /\ kc[e] \in Known(e)
           /\ \A r \in Requests : req[r].seen[e] \in Known(e)
  BY DEF TypeInvariant, Known, RequestType

\* The parts are enough.
LEMMA GroundStep ==
    ASSUME Ground, RequestsFit, UsersFit, RestFits
    PROVE  Ground'
  <1>1. TypeInvariant'
    BY DEF RequestsFit, UsersFit, RestFits, TypeInvariant
  <1>2. \A r \in Requests : Stage(req[r], used, made)'
    BY DEF RequestsFit
  <1>3. ASSUME NEW e \in Emails, NEW u \in Known(e)'
        PROVE  u = kc'[e] \/ u \in Known(e) \cup {NoUser}
    BY <1>3 DEF Known, RequestsFit
  <1>4. ASSUME NEW e \in Emails, NEW u \in Known(e)'
        PROVE  Record(u, used', made')
    <2>1. CASE u = kc'[e]
      BY <2>1 DEF UsersFit
    <2>2. CASE u = NoUser
      BY <2>2, NoRecord DEF RestFits
    <2>3. CASE u \in Known(e)
      <3>1. u \in Users /\ Record(u, used, made)
        BY <2>3, KnownUsers DEF Ground
      <3> QED
        BY <3>1, RecordGrows DEF RestFits, Ground, TypeInvariant
    <2> QED
      BY <1>3, <1>4, <2>1, <2>2, <2>3
  <1>5. ASSUME NEW e \in Emails, NEW f \in Emails, NEW u \in Known(e)', NEW v \in Known(f)',
               u.role = "tenant_admin", v.role = "tenant_admin", u.tenant = v.tenant
        PROVE  e = f
    <2>1. /\ u \in Known(e) \/ u = kc'[e]
          /\ v \in Known(f) \/ v = kc'[f]
      BY <1>3, <1>5, Blanks
    <2>2. ASSUME NEW g \in Emails, NEW w \in Known(g)
          PROVE  w.tenant \in used \cup {NoTenant} /\ (w.role = "tenant_admin" => w.tenant \in used)
      BY DEF Ground, Record
    <2>3. \/ \E w \in Known(e) : w.role = "tenant_admin" /\ w.tenant = u.tenant
          \/ u = kc'[e] /\ u.tenant \notin used /\ \A g \in Emails \ {e} : kc'[g] = kc[g]
      BY <1>5, <2>1 DEF UsersFit
    <2>4. \/ \E w \in Known(f) : w.role = "tenant_admin" /\ w.tenant = v.tenant
          \/ v = kc'[f] /\ v.tenant \notin used /\ \A g \in Emails \ {f} : kc'[g] = kc[g]
      BY <1>5, <2>1 DEF UsersFit
    <2>5. CASE u.tenant \in used
      <3>1. PICK w \in Known(e) : w.role = "tenant_admin" /\ w.tenant = u.tenant
        BY <2>3, <2>5
      <3>2. PICK z \in Known(f) : z.role = "tenant_admin" /\ z.tenant = v.tenant
        BY <2>4, <2>5, <1>5
      <3> QED
        BY <3>1, <3>2, <1>5 DEF Ground, OneAdmin
    <2>6. CASE u.tenant \notin used
      <3>1. u = kc'[e] /\ \A g \in Emails \ {e} : kc'[g] = kc[g]
        BY <2>2, <2>3, <2>6
      <3>2. v = kc'[f] /\ v.tenant \notin used
        BY <1>5, <2>2, <2>4, <2>6
      <3>3. e # f => v \in Known(f)
        BY <3>1, <3>2 DEF Known
      <3> QED
        BY <1>5, <2>2, <3>2, <3>3
    <2> QED
      BY <2>5, <2>6
  <1> QED
    BY <1>1, <1>2, <1>4, <1>5 DEF Ground, OneAdmin

\* One request moves.
LEMMA MoveFits ==
    ASSUME Ground, NEW r \in Requests, NEW x \in RequestType, req' = [req EXCEPT ![r] = x],
           used \subseteq used', made' \in Nat, made <= made',
           Stage(x, used', made'), \A e \in Emails : x.seen[e] \in Known(e) \cup {NoUser}
    PROVE  RequestsFit
  <1>1. req \in [Requests -> RequestType] /\ made \in Nat
    BY DEF Ground, TypeInvariant
  <1>2. req' \in [Requests -> RequestType] /\ \A s \in Requests : req'[s] = IF s = r THEN x ELSE req[s]
    BY <1>1
  <1>3. ASSUME NEW s \in Requests
        PROVE  /\ Stage(req[s], used', made')
               /\ \A e \in Emails : req[s].seen[e] \in Known(e)
    <2>1. Stage(req[s], used, made) /\ req[s] \in RequestType
      BY <1>1 DEF Ground
    <2>2. Stage(req[s], used', made')
      BY <1>1, <2>1, StageGrows
    <2> QED
      BY <2>2 DEF Known
  <1> QED
    BY <1>2, <1>3 DEF RequestsFit

\* A request ends.
LEMMA FinishFits ==
    ASSUME Ground, NEW r \in Requests, Finish(r),
           used \subseteq used', made' \in Nat, made <= made'
    PROVE  RequestsFit
  BY Blanks, IdleStage, MoveFits DEF Finish

\* No request moves.
LEMMA StillFits ==
    ASSUME Ground, req' = req, used \subseteq used', made' \in Nat, made <= made'
    PROVE  RequestsFit
  <1>1. req \in [Requests -> RequestType] /\ made \in Nat
    BY DEF Ground, TypeInvariant
  <1>2. ASSUME NEW s \in Requests
        PROVE  /\ Stage(req[s], used', made')
               /\ \A e \in Emails : req[s].seen[e] \in Known(e)
    <2>1. Stage(req[s], used, made) /\ req[s] \in RequestType
      BY <1>1 DEF Ground
    <2>2. Stage(req[s], used', made')
      BY <1>1, <2>1, StageGrows
    <2> QED
      BY <2>2 DEF Known
  <1> QED
    BY <1>1, <1>2 DEF RequestsFit

\* No user changes.
LEMMA QuietFits ==
    ASSUME Ground, kc' = kc, used \subseteq used', made' \in Nat, made <= made'
    PROVE  UsersFit
  <1>1. ASSUME NEW e \in Emails
        PROVE  kc[e] \in Known(e) /\ Record(kc[e], used', made')
    <2>1. kc[e] \in Known(e) /\ kc[e] \in Users
      BY KnownUsers DEF Ground
    <2>2. Record(kc[e], used, made) /\ made \in Nat
      BY <2>1 DEF Ground, TypeInvariant
    <2> QED
      BY <2>1, <2>2, RecordGrows
  <1> QED
    BY <1>1 DEF UsersFit, Ground, TypeInvariant

\* One user changes.
LEMMA WriteFits ==
    ASSUME Ground, NEW e \in Emails, NEW u \in Users, kc' = [kc EXCEPT ![e] = u],
           used \subseteq used', made' \in Nat, made <= made', Record(u, used', made'),
           u.role = "tenant_admin" =>
              \/ \E w \in Known(e) : w.role = "tenant_admin" /\ w.tenant = u.tenant
              \/ u.tenant \notin used
    PROVE  UsersFit
  <1>1. kc \in [Emails -> Users]
    BY DEF Ground, TypeInvariant
  <1>2. kc' \in [Emails -> Users] /\ \A f \in Emails : kc'[f] = IF f = e THEN u ELSE kc[f]
    BY <1>1
  <1>3. ASSUME NEW f \in Emails
        PROVE  kc[f] \in Known(f) /\ Record(kc[f], used', made')
    <2>1. kc[f] \in Known(f) /\ kc[f] \in Users
      BY KnownUsers DEF Ground
    <2>2. Record(kc[f], used, made) /\ made \in Nat
      BY <2>1 DEF Ground, TypeInvariant
    <2> QED
      BY <2>1, <2>2, RecordGrows
  <1> QED
    BY <1>2, <1>3 DEF UsersFit

\* A user is removed.
LEMMA RemovalFits ==
    ASSUME Ground, NEW e \in Emails, kc' = [kc EXCEPT ![e] = NoUser] \/ kc' = kc,
           used \subseteq used', made' \in Nat, made <= made'
    PROVE  UsersFit
  BY QuietFits, WriteFits, NoRecord, Blanks

\* The call of a handler fails or not.
LEMMA CallCounts ==
    ASSUME Ground, NEW o \in Outcomes, Call(o)
    PROVE  /\ faults \in Nat /\ faults' \in Nat /\ faults <= faults'
           /\ o # "ok" => faults' = faults + 1
  BY DEF Ground, TypeInvariant, Call

\* What a request knows where it stands, and what it has read.
LEMMA RequestFacts ==
    ASSUME Ground, NEW r \in Requests
    PROVE  /\ req[r] \in RequestType /\ Stage(req[r], used, made)
           /\ \A e \in Emails : req[r].seen[e] \in Known(e) /\ req[r].seen[e] \in Users
                                /\ Record(req[r].seen[e], used, made)
           /\ \A e \in Emails : kc[e] \in Known(e) /\ kc[e] \in Users /\ Record(kc[e], used, made)
           /\ made \in Nat
  BY KnownUsers DEF Ground, TypeInvariant

-----------------------------------------------------------------------------
(* Ground, action by action. *)

\* A request arrives.
LEMMA BeginGround ==
    ASSUME Ground, NEW r \in Requests, NEW x \in RequestType, Begin(r, x), Stage(x, used, made),
           \A e \in Emails : x.seen[e] \in Known(e) \cup {NoUser}
    PROVE  Ground'
  <1>1. /\ req' = [req EXCEPT ![r] = x] /\ kc' = kc /\ accounts' = accounts /\ posts' = posts
        /\ keys' = keys /\ used' = used /\ made' = made /\ faults' = faults
    BY DEF Begin, billing, tables, issued
  <1>2. RestFits /\ made \in Nat
    BY <1>1 DEF Ground, TypeInvariant, RestFits
  <1>3. RequestsFit /\ UsersFit
    BY <1>1, <1>2, MoveFits, QuietFits DEF RestFits
  <1> QED
    BY <1>2, <1>3, GroundStep

\* What a copy holds.
LEMMA CopyFacts ==
    ASSUME Ground, NEW S
    PROVE  /\ Copy(S) \in [Emails -> Users]
           /\ \A e \in Emails : Copy(S)[e] \in Known(e) \cup {NoUser}
           /\ \A e \in S \cap Emails : Copy(S)[e] = kc[e]
  BY KnownUsers, Blanks DEF Copy, Ground

\* A feature's routes are open to tenants that have accounts.
LEMMA PermissionFacts ==
    ASSUME Ground, NEW t, NEW f, require_permission(t, f)
    PROVE  /\ t \in accounts /\ t \in used
           /\ \E m \in Modules : <<t, m>> \in subs
  BY DEF require_permission, CheckKillBillSubscription, get_active_modules_from_killbill, Ground,
         TypeInvariant

\* A request as it arrives: nothing but its first step is before it, and its tenant
\* has a user or a subscription.
Arrived(x) ==
    /\ x \in RequestType /\ Stage(x, used, made)
    /\ \A e \in Emails : x.seen[e] \in Known(e) \cup {NoUser}
    /\ \/ x.op = "create" /\ x.pc \in {"user", "attach"}
       \/ x.op = "delete" /\ x.pc = "find"
       \/ x.op \in {"create_user", "update_user"} /\ x.pc = "check"
       \/ x.op = "upgrade" /\ x.pc = "put" /\ x.seen[x.email] = kc[x.email]
       \/ x.op = "edit" /\ x.pc = "put"
       \/ x.op = "delete_user" /\ x.pc = "del"
    /\ \/ x.tenant = NoTenant
       \/ \E e \in Emails : kc[e].tenant = x.tenant
       \/ \E m \in Modules : <<x.tenant, m>> \in subs

\* Requests arrive as the console and the clients send them.
LEMMA Arrivals ==
    ASSUME Ground, Arrive
    PROVE  \E r \in Requests, x \in RequestType : Begin(r, x) /\ Arrived(x)
  <1>1. PICK r \in Requests, e \in Emails :
        \/ \E M \in ModuleSets : BeginCreate(r, e, M) \/ BeginGoogle(r, e, M)
        \/ BeginDelete(r, e)
        \/ BeginUpgrade(r, e)
        \/ \E st \in Statuses, M \in ModuleSets : BeginEdit(r, e, st, M)
        \/ \E t \in Tenants, st \in Statuses, M \in ModuleSets :
             \/ \E role \in SubRoles : BeginCreateUser(r, t, e, role, st, M)
             \/ BeginUpdateUser(r, t, e, st, M)
        \/ \E t \in Tenants : BeginDeleteUser(r, t, e)
    BY DEF Arrive
  <1>2. kc[e] \in Users /\ Record(kc[e], used, made) /\ made \in Nat
    BY RequestFacts
  <1>3. ModuleSets \subseteq SUBSET Modules
    BY TenantAssumption
  <1>4. SubRoles \subseteq Roles
    BY DEF SubRoles, Roles
  <1>5. ASSUME NEW M \in ModuleSets, BeginCreate(r, e, M)
        PROVE  \E x \in RequestType : Begin(r, x) /\ Arrived(x)
    <2> DEFINE x == [Idle EXCEPT !.op = "create", !.pc = "user", !.email = e, !.mods = M]
    <2>1. x \in RequestType
      BY <1>3, Blanks DEF RequestType, Ops, Places
    <2>2. /\ x.op = "create" /\ x.pc = "user" /\ x.email = e /\ x.tenant = NoTenant
          /\ x.seen = Idle.seen
      BY Blanks DEF RequestType
    <2>3. Stage(x, used, made) /\ \A f \in Emails : x.seen[f] \in Known(f) \cup {NoUser}
      BY <2>2, Blanks DEF Stage
    <2>4. Begin(r, x)
      BY <1>5 DEF BeginCreate
    <2>5. Arrived(x)
      BY <2>1, <2>2, <2>3 DEF Arrived
    <2> HIDE DEF x
    <2> QED
      BY <2>1, <2>4, <2>5
  <1>6. ASSUME NEW M \in ModuleSets, BeginGoogle(r, e, M)
        PROVE  \E x \in RequestType : Begin(r, x) /\ Arrived(x)
    <2> DEFINE x == [Idle EXCEPT !.op = "create", !.pc = "attach", !.email = e, !.mods = M,
                                 !.id = kc[e].id]
    <2>1. x \in RequestType
      BY <1>2, <1>3, Blanks DEF RequestType, Ops, Places, Users
    <2>2. /\ x.op = "create" /\ x.pc = "attach" /\ x.email = e /\ x.tenant = NoTenant
          /\ x.seen = Idle.seen /\ x.id = kc[e].id
      BY Blanks DEF RequestType
    <2>3. kc[e].id \in 1..made
      BY <1>2, <1>6 DEF BeginGoogle, Has, Record, Users
    <2>4. Stage(x, used, made) /\ \A f \in Emails : x.seen[f] \in Known(f) \cup {NoUser}
      BY <2>2, <2>3, Blanks DEF Stage
    <2>5. Begin(r, x)
      BY <1>6 DEF BeginGoogle
    <2>6. Arrived(x)
      BY <2>1, <2>2, <2>3, <2>4 DEF Arrived
    <2> HIDE DEF x
    <2> QED
      BY <2>1, <2>5, <2>6
  <1>7. ASSUME BeginDelete(r, e)
        PROVE  \E x \in RequestType : Begin(r, x) /\ Arrived(x)
    <2> DEFINE x == [Idle EXCEPT !.op = "delete", !.pc = "find", !.email = e]
    <2>1. x \in RequestType
      BY Blanks DEF RequestType, Ops, Places
    <2>2. /\ x.op = "delete" /\ x.pc = "find" /\ x.email = e /\ x.tenant = NoTenant
          /\ x.seen = Idle.seen
      BY Blanks DEF RequestType
    <2>3. Stage(x, used, made) /\ \A f \in Emails : x.seen[f] \in Known(f) \cup {NoUser}
      BY <2>2, Blanks DEF Stage
    <2>4. Begin(r, x)
      BY <1>7 DEF BeginDelete
    <2>5. Arrived(x)
      BY <2>1, <2>2, <2>3 DEF Arrived
    <2> HIDE DEF x
    <2> QED
      BY <2>1, <2>4, <2>5
  <1>8. ASSUME BeginUpgrade(r, e)
        PROVE  \E x \in RequestType : Begin(r, x) /\ Arrived(x)
    <2> DEFINE x == [Idle EXCEPT !.op = "upgrade", !.pc = "put", !.email = e,
                             !.tenant = kc[e].tenant, !.seen = Copy({e})]
    <2>1. x \in RequestType
      BY <1>2, CopyFacts, Blanks DEF RequestType, Ops, Places, Users
    <2>2. /\ x.op = "upgrade" /\ x.pc = "put" /\ x.email = e /\ x.tenant = kc[e].tenant
          /\ x.seen = Copy({e})
      BY Blanks DEF RequestType
    <2>3. x.tenant \in used
      BY <1>2, <1>8, <2>2 DEF BeginUpgrade, Record
    <2>4. x.seen[e] = kc[e] /\ \A f \in Emails : x.seen[f] \in Known(f) \cup {NoUser}
      BY <2>2, CopyFacts
    <2>5. Stage(x, used, made)
      BY <2>2, <2>3, <2>4 DEF Stage
    <2>6. Begin(r, x)
      BY <1>8 DEF BeginUpgrade
    <2>7. Arrived(x)
      BY <2>1, <2>2, <2>3, <2>4, <2>5 DEF Arrived
    <2> HIDE DEF x
    <2> QED
      BY <2>1, <2>6, <2>7
  <1>9. ASSUME NEW st \in Statuses, NEW M \in ModuleSets, BeginEdit(r, e, st, M)
        PROVE  \E x \in RequestType : Begin(r, x) /\ Arrived(x)
    <2> DEFINE todo == get_active_modules_from_killbill(kc[e].tenant)
               x == [Idle EXCEPT !.op = "edit", !.pc = "put", !.email = e, !.tenant = kc[e].tenant,
                             !.status = st, !.mods = M, !.seen = Copy({e}), !.todo = todo]
    <2>1. todo \subseteq Modules
      BY DEF get_active_modules_from_killbill
    <2>2. x \in RequestType
      <3> HIDE DEF todo
      <3> QED
        BY <1>2, <1>3, <2>1, CopyFacts, Blanks DEF RequestType, Ops, Places, Users
    <2>3. /\ x.op = "edit" /\ x.pc = "put" /\ x.email = e /\ x.tenant = kc[e].tenant
          /\ x.seen = Copy({e})
      BY Blanks DEF RequestType
    <2>4. kc[e].role = "tenant_admin"
      BY <1>9 DEF BeginEdit, list_all_accounts
    <2>5. x.tenant \in used
      BY <1>2, <2>3, <2>4 DEF Record
    <2>6. x.seen[e] = kc[e] /\ \A f \in Emails : x.seen[f] \in Known(f) \cup {NoUser}
      BY <2>3, CopyFacts
    <2>7. Stage(x, used, made)
      BY <2>3, <2>4, <2>5, <2>6 DEF Stage
    <2>8. Begin(r, x)
      BY <1>9 DEF BeginEdit
    <2>9. Arrived(x)
      BY <2>1, <2>2, <2>3, <2>4, <2>5, <2>6, <2>7 DEF Arrived
    <2> HIDE DEF x
    <2> QED
      BY <2>2, <2>8, <2>9
  <1>10. ASSUME NEW t \in Tenants, NEW st \in Statuses, NEW M \in ModuleSets, NEW role \in SubRoles,
                BeginCreateUser(r, t, e, role, st, M)
         PROVE  \E x \in RequestType : Begin(r, x) /\ Arrived(x)
    <2> DEFINE x == [Idle EXCEPT !.op = "create_user", !.pc = "check", !.email = e, !.tenant = t,
                             !.role = role, !.status = st, !.mods = M]
    <2>1. x \in RequestType
      BY <1>3, <1>4, Blanks DEF RequestType, Ops, Places
    <2>2. /\ x.op = "create_user" /\ x.pc = "check" /\ x.email = e /\ x.tenant = t
          /\ x.seen = Idle.seen /\ x.role = role
      BY Blanks DEF RequestType
    <2>3. t \in used
      BY <1>10, PermissionFacts DEF BeginCreateUser
    <2>4. Stage(x, used, made) /\ \A f \in Emails : x.seen[f] \in Known(f) \cup {NoUser}
      BY <2>2, <2>3, Blanks DEF Stage
    <2>5. Begin(r, x)
      BY <1>10 DEF BeginCreateUser
    <2>6. \E m \in Modules : <<x.tenant, m>> \in subs
      BY <1>10, <2>2, PermissionFacts DEF BeginCreateUser
    <2>7. Arrived(x)
      BY <2>1, <2>2, <2>3, <2>4, <2>6 DEF Arrived
    <2> HIDE DEF x
    <2> QED
      BY <2>1, <2>5, <2>7
  <1>11. ASSUME NEW t \in Tenants, NEW st \in Statuses, NEW M \in ModuleSets,
                BeginUpdateUser(r, t, e, st, M)
         PROVE  \E x \in RequestType : Begin(r, x) /\ Arrived(x)
    <2> DEFINE x == [Idle EXCEPT !.op = "update_user", !.pc = "check", !.email = e, !.tenant = t,
                             !.status = st, !.mods = M, !.id = kc[e].id]
    <2>1. x \in RequestType
      BY <1>2, <1>3, Blanks DEF RequestType, Ops, Places, Users
    <2>2. /\ x.op = "update_user" /\ x.pc = "check" /\ x.email = e /\ x.tenant = t
          /\ x.seen = Idle.seen
      BY Blanks DEF RequestType
    <2>3. t \in used
      BY <1>11, PermissionFacts DEF BeginUpdateUser
    <2>4. Stage(x, used, made) /\ \A f \in Emails : x.seen[f] \in Known(f) \cup {NoUser}
      BY <2>2, <2>3, Blanks DEF Stage
    <2>5. Begin(r, x)
      BY <1>11 DEF BeginUpdateUser
    <2>6. \E m \in Modules : <<x.tenant, m>> \in subs
      BY <1>11, <2>2, PermissionFacts DEF BeginUpdateUser
    <2>7. Arrived(x)
      BY <2>1, <2>2, <2>3, <2>4, <2>6 DEF Arrived
    <2> HIDE DEF x
    <2> QED
      BY <2>1, <2>5, <2>7
  <1>12. ASSUME NEW t \in Tenants, BeginDeleteUser(r, t, e)
         PROVE  \E x \in RequestType : Begin(r, x) /\ Arrived(x)
    <2> DEFINE x == [Idle EXCEPT !.op = "delete_user", !.pc = "del", !.email = e, !.tenant = t,
                             !.id = kc[e].id]
    <2>1. x \in RequestType
      BY <1>2, Blanks DEF RequestType, Ops, Places, Users
    <2>2. /\ x.op = "delete_user" /\ x.pc = "del" /\ x.email = e /\ x.tenant = t
          /\ x.seen = Idle.seen
      BY Blanks DEF RequestType
    <2>3. t \in used
      BY <1>12, PermissionFacts DEF BeginDeleteUser
    <2>4. Stage(x, used, made) /\ \A f \in Emails : x.seen[f] \in Known(f) \cup {NoUser}
      BY <2>2, <2>3, Blanks DEF Stage
    <2>5. Begin(r, x)
      BY <1>12 DEF BeginDeleteUser
    <2>6. \E m \in Modules : <<x.tenant, m>> \in subs
      BY <1>12, <2>2, PermissionFacts DEF BeginDeleteUser
    <2>7. Arrived(x)
      BY <2>1, <2>2, <2>3, <2>4, <2>6 DEF Arrived
    <2> HIDE DEF x
    <2> QED
      BY <2>1, <2>5, <2>7
  <1> QED
    BY <1>1, <1>5, <1>6, <1>7, <1>8, <1>9, <1>10, <1>11, <1>12

\* So Ground holds when one has arrived.
LEMMA ArriveGround ==
    ASSUME Ground, Arrive
    PROVE  Ground'
  BY Arrivals, BeginGround DEF Arrived

\* A handler that goes on without touching users or tenants.
LEMMA QuietMove ==
    ASSUME Ground, NEW r \in Requests, NEW x \in RequestType, req' = [req EXCEPT ![r] = x],
           Stage(x, used, made), \A e \in Emails : x.seen[e] \in Known(e) \cup {NoUser},
           kc' = kc, used' = used, made' = made, faults' \in Nat, accounts' \subseteq used,
           posts' \subseteq PostType, keys' \in [Tenants -> SUBSET Statuses]
    PROVE  Ground'
  <1>1. RestFits /\ made \in Nat
    BY DEF Ground, TypeInvariant, RestFits
  <1>2. RequestsFit /\ UsersFit
    BY <1>1, MoveFits, QuietFits DEF RestFits
  <1> QED
    BY <1>1, <1>2, GroundStep

\* A handler that ends without touching users or tenants.
LEMMA QuietEnd ==
    ASSUME Ground, NEW r \in Requests, Finish(r),
           kc' = kc, used' = used, made' = made, faults' \in Nat, accounts' \subseteq used,
           posts' \subseteq PostType, keys' \in [Tenants -> SUBSET Statuses]
    PROVE  Ground'
  BY Blanks, IdleStage, QuietMove DEF Finish, Ground, TypeInvariant

\* A later place of a handler that is about a tenant and has read nothing new.
LEMMA Forward ==
    ASSUME NEW x \in RequestType, NEW y \in RequestType, NEW U, NEW n, Stage(x, U, n),
           y.op = x.op, y.email = x.email, y.tenant = x.tenant, y.id = x.id, y.role = x.role,
           y.seen = x.seen,
           x.pc \notin {"idle", "user", "attach", "find"},
           y.pc \notin {"idle", "user", "attach", "find", "put", "attrs", "disable"}
    PROVE  Stage(y, U, n)
  BY DEF Stage

\* A handler that only goes on to another place.
LEMMA GotoGround ==
    ASSUME Ground, NEW r \in Requests, NEW pc \in Places, Goto(r, pc),
           req[r].pc \notin {"idle", "user", "attach", "find"},
           pc \notin {"idle", "user", "attach", "find", "put", "attrs", "disable"},
           kc' = kc, used' = used, made' = made, faults' \in Nat, accounts' \subseteq used,
           posts' \subseteq PostType, keys' \in [Tenants -> SUBSET Statuses]
    PROVE  Ground'
  <1> DEFINE x == [req[r] EXCEPT !.pc = pc]
  <1>1. req[r] \in RequestType /\ Stage(req[r], used, made)
    BY RequestFacts
  <1>2. /\ x \in RequestType /\ x.op = req[r].op /\ x.email = req[r].email /\ x.tenant = req[r].tenant
        /\ x.id = req[r].id /\ x.role = req[r].role /\ x.seen = req[r].seen /\ x.pc = pc
    BY <1>1 DEF RequestType
  <1>3. req' = [req EXCEPT ![r] = x]
    BY DEF Goto
  <1>4. Stage(x, used, made)
    BY <1>1, <1>2, Forward
  <1>5. \A e \in Emails : x.seen[e] \in Known(e) \cup {NoUser}
    BY <1>2, RequestFacts
  <1> HIDE DEF x
  <1> QED
    BY <1>2, <1>3, <1>4, <1>5, QuietMove

\* The creation goes on to undo what it did.
LEMMA ToRollbackGround ==
    ASSUME Ground, NEW r \in Requests, NEW n \in Nat, ToRollback(r, n),
           req[r].pc \notin {"idle", "user", "attach", "find"},
           kc' = kc, used' = used, made' = made, faults' \in Nat, accounts' \subseteq used,
           posts' \subseteq PostType, keys' \in [Tenants -> SUBSET Statuses]
    PROVE  Ground'
  <1> DEFINE x == [req[r] EXCEPT !.pc = "rollback", !.tries = n]
  <1>1. req[r] \in RequestType /\ Stage(req[r], used, made)
    BY RequestFacts
  <1>2. /\ x \in RequestType /\ x.op = req[r].op /\ x.email = req[r].email /\ x.tenant = req[r].tenant
        /\ x.id = req[r].id /\ x.role = req[r].role /\ x.seen = req[r].seen /\ x.pc = "rollback"
    BY <1>1 DEF RequestType, Places
  <1>3. req' = [req EXCEPT ![r] = x]
    BY DEF ToRollback
  <1>4. Stage(x, used, made)
    BY <1>1, <1>2, Forward
  <1>5. \A e \in Emails : x.seen[e] \in Known(e) \cup {NoUser}
    BY <1>2, RequestFacts
  <1> HIDE DEF x
  <1> QED
    BY <1>2, <1>3, <1>4, <1>5, QuietMove

\* What a quiet step leaves as it was is of its type.
LEMMA Types ==
    ASSUME Ground
    PROVE  /\ accounts \subseteq used /\ posts \subseteq PostType /\ used \subseteq Tenants
           /\ keys \in [Tenants -> SUBSET Statuses] /\ made \in Nat /\ faults \in Nat
           /\ kc \in [Emails -> Users] /\ req \in [Requests -> RequestType]
  BY DEF Ground, TypeInvariant

\* Subscriptions that are asked for.
LEMMA PostTypes ==
    ASSUME Ground, NEW r \in Requests
    PROVE  /\ \A t \in used, m \in Modules : /\ Post(r, t, m) \in PostType
                                             /\ Post(r, t, m).by = {r} /\ Post(r, t, m).tenant = t
                                             /\ Post(r, t, m).mod = m /\ ~Post(r, t, m).claimed
           /\ \A p \in posts : /\ Detached(p) \in PostType /\ Detached(p).tenant = p.tenant
                               /\ Detached(p).mod = p.mod /\ Detached(p).claimed = p.claimed
                               /\ Detached(p).by = {}
  <1>1. posts \subseteq PostType /\ used \subseteq Tenants
    BY Types
  <1> QED
    BY <1>1 DEF PostType, Post, Detached

\* The administrator is made.
LEMMA CreateAdminGround ==
    ASSUME Ground, NEW r \in Requests, NEW o \in Outcomes, CreateAdmin(r, o)
    PROVE  Ground'
  <1>1. /\ req[r] \in RequestType /\ Stage(req[r], used, made) /\ made \in Nat
        /\ req[r].op = "create" /\ req[r].pc = "user" /\ faults' \in Nat
        /\ accounts' = accounts /\ posts' = posts /\ keys' = keys
    BY RequestFacts, CallCounts DEF CreateAdmin, At, billing, tables
  <1> DEFINE e == req[r].email
  <1>2. e \in Emails
    BY <1>1 DEF Stage
  <1>3. CASE Has(e)
    BY <1>1, <1>3, Types, QuietEnd DEF CreateAdmin, issued
  <1>4. CASE ~Has(e)
    <2>1. PICK t \in NewTenantId :
              /\ used' = used \cup {t} /\ made' = made + 1
              /\ kc' = IF Done(o) THEN [kc EXCEPT ![e] = Admin(t, req[r].mods, made')] ELSE kc
              /\ IF o = "ok"
                 THEN req' = [req EXCEPT ![r].pc = "account", ![r].tenant = t, ![r].id = made']
                 ELSE Finish(r)
      BY <1>4 DEF CreateAdmin
    <2>2. t \in Tenants /\ t \notin used /\ t # NoTenant
      BY TenantAssumption DEF NewTenantId
    <2>3. RestFits
      BY <1>1, <2>1, <2>2, Types DEF RestFits
    <2> DEFINE u == Admin(t, req[r].mods, made + 1)
    <2>4. /\ u \in Users /\ u.tenant = t /\ u.role = "tenant_admin" /\ u.id = made + 1
      BY <1>1, <2>2 DEF Admin, Users, Roles, Statuses, RequestType
    <2>5. Record(u, used', made')
      BY <1>1, <2>1, <2>2, <2>4 DEF Record
    <2>6. kc' = [kc EXCEPT ![e] = u] \/ kc' = kc
      BY <2>1
    <2>7. UsersFit
      <3> HIDE DEF u
      <3> QED
        BY <1>2, <2>2, <2>3, <2>4, <2>5, <2>6, WriteFits, QuietFits DEF RestFits
    <2>8. RequestsFit
      <3>1. CASE o # "ok"
        BY <2>1, <2>3, <3>1, FinishFits DEF RestFits
      <3>2. CASE o = "ok"
        <4>0. PICK n \in Nat : n = made + 1
          BY <1>1
        <4> DEFINE x == [req[r] EXCEPT !.pc = "account", !.tenant = t, !.id = n]
        <4>1. req' = [req EXCEPT ![r] = x]
          BY <2>1, <3>2, <4>0
        <4>2. /\ x \in RequestType /\ x.op = "create" /\ x.email = e /\ x.tenant = t
              /\ x.id = n /\ x.role = req[r].role /\ x.seen = req[r].seen /\ x.pc = "account"
          BY <1>1, <2>2 DEF RequestType, Places
        <4>3. Stage(x, used', made')
          BY <1>1, <1>2, <2>1, <4>0, <4>2 DEF Stage
        <4>4. \A f \in Emails : x.seen[f] \in Known(f) \cup {NoUser}
          BY <4>2, RequestFacts
        <4> HIDE DEF x
        <4> QED
          BY <2>3, <4>1, <4>2, <4>3, <4>4, MoveFits DEF RestFits
      <3> QED
        BY <3>1, <3>2
    <2> QED
      BY <2>3, <2>7, <2>8, GroundStep
  <1> QED
    BY <1>3, <1>4

\* A Google user becomes an administrator.
LEMMA AttachTenantGround ==
    ASSUME Ground, NEW r \in Requests, NEW o \in Outcomes, AttachTenant(r, o)
    PROVE  Ground'
  <1>1. /\ req[r] \in RequestType /\ Stage(req[r], used, made) /\ made \in Nat
        /\ req[r].op = "create" /\ req[r].pc = "attach" /\ faults' \in Nat
        /\ accounts' = accounts /\ posts' = posts /\ keys' = keys /\ made' = made
    BY RequestFacts, CallCounts DEF AttachTenant, At, billing, tables
  <1> DEFINE e == req[r].email
             found == kc[e].id = req[r].id
  <1>2. e \in Emails /\ req[r].id \in 1..made
    BY <1>1 DEF Stage
  <1>3. PICK t \in NewTenantId :
              /\ used' = used \cup {t}
              /\ kc' = IF Done(o) THEN PutUser(e, Admin(t, req[r].mods, req[r].id)) ELSE kc
              /\ IF o = "ok" /\ found
                 THEN req' = [req EXCEPT ![r].pc = "account", ![r].tenant = t]
                 ELSE Finish(r)
    BY DEF AttachTenant
  <1>4. t \in Tenants /\ t \notin used /\ t # NoTenant
    BY TenantAssumption DEF NewTenantId
  <1>5. RestFits
    BY <1>1, <1>3, <1>4, Types DEF RestFits
  <1> DEFINE u == Admin(t, req[r].mods, req[r].id)
  <1>6. /\ u \in Users /\ u.tenant = t /\ u.role = "tenant_admin" /\ u.id = req[r].id
    BY <1>1, <1>4 DEF Admin, Users, Roles, Statuses, RequestType
  <1>7. Record(u, used', made')
    BY <1>1, <1>2, <1>3, <1>4, <1>6 DEF Record
  <1>8. kc' = [kc EXCEPT ![e] = u] \/ kc' = kc
    BY <1>2, <1>3, Types DEF PutUser
  <1>9. UsersFit
    <2> HIDE DEF u
    <2> QED
      BY <1>2, <1>4, <1>5, <1>6, <1>7, <1>8, WriteFits, QuietFits DEF RestFits
  <1>10. RequestsFit
    <2>1. CASE ~(o = "ok" /\ found)
      BY <1>3, <1>5, <2>1, FinishFits DEF RestFits
    <2>2. CASE o = "ok" /\ found
      <3> DEFINE x == [req[r] EXCEPT !.pc = "account", !.tenant = t]
      <3>1. req' = [req EXCEPT ![r] = x]
        BY <1>3, <2>2
      <3>2. /\ x \in RequestType /\ x.op = "create" /\ x.email = e /\ x.tenant = t
            /\ x.id = req[r].id /\ x.role = req[r].role /\ x.seen = req[r].seen /\ x.pc = "account"
        BY <1>1, <1>4 DEF RequestType, Places
      <3>3. Stage(x, used', made')
        BY <1>1, <1>2, <1>3, <3>2 DEF Stage
      <3>4. \A f \in Emails : x.seen[f] \in Known(f) \cup {NoUser}
        BY <3>2, RequestFacts
      <3> HIDE DEF x
      <3> QED
        BY <1>5, <3>1, <3>2, <3>3, <3>4, MoveFits DEF RestFits
    <2> QED
      BY <2>1, <2>2
  <1> QED
    BY <1>5, <1>9, <1>10, GroundStep

\* The rest of a creation, but for undoing it.
LEMMA CreateGround ==
    ASSUME Ground, NEW r \in Requests, create_account(r)
    PROVE  Ground'
  <1>1. req[r] \in RequestType /\ Stage(req[r], used, made) /\ {"plans", "subs", "key"} \subseteq Places
    BY RequestFacts DEF Places
  <1>2. ASSUME NEW o \in Outcomes, CreateKbAccount(r, o)
        PROVE  Ground'
    <2>1. /\ req[r].op = "create" /\ req[r].pc = "account" /\ kc' = kc /\ posts' = posts
          /\ keys' = keys /\ made' = made /\ used' = used /\ faults' \in Nat
          /\ accounts' \subseteq accounts \cup {req[r].tenant}
          /\ Goto(r, "plans") \/ ToRollback(r, 1)
      BY <1>2, CallCounts DEF CreateKbAccount, At, tables, issued
    <2>2. accounts' \subseteq used
      BY <1>1, <2>1, Types DEF Stage
    <2> QED
      BY <1>1, <2>1, <2>2, Types, GotoGround, ToRollbackGround
  <1>3. ASSUME NEW o \in Outcomes, SubscribeAll(r, o)
        PROVE  Ground'
    <2>1. /\ req[r].op = "create" /\ req[r].pc = "plans" /\ kc' = kc /\ accounts' = accounts
          /\ keys' = keys /\ made' = made /\ used' = used /\ faults' \in Nat
          /\ posts' \subseteq posts \cup {Post(r, req[r].tenant, m) : m \in req[r].mods}
          /\ Goto(r, "subs") \/ ToRollback(r, 2)
      BY <1>3, CallCounts DEF SubscribeAll, At, tables, issued
    <2>2. req[r].tenant \in used /\ req[r].mods \subseteq Modules
      BY <1>1, <2>1 DEF Stage, RequestType
    <2>3. posts' \subseteq PostType
      BY <2>1, <2>2, Types, PostTypes
    <2> QED
      BY <1>1, <2>1, <2>3, Types, GotoGround, ToRollbackGround
  <1>4. ASSUME AllSubscribed(r)
        PROVE  Ground'
    BY <1>1, <1>4, Types, GotoGround DEF AllSubscribed, At, billing, tables, meters, issued
  <1>5. ASSUME SubscribeTimesOut(r)
        PROVE  Ground'
    <2>1. /\ req[r].op = "create" /\ req[r].pc = "subs" /\ kc' = kc /\ accounts' = accounts
          /\ keys' = keys /\ made' = made /\ used' = used /\ faults' \in Nat
          /\ posts' = (posts \ PostsOf(r)) \cup {Detached(p) : p \in PostsOf(r)}
          /\ ToRollback(r, 2)
      BY <1>5, CallCounts DEF SubscribeTimesOut, At, tables, issued, Outcomes
    <2>2. posts' \subseteq PostType
      BY <2>1, Types, PostTypes DEF PostsOf
    <2> QED
      BY <2>1, <2>2, Types, ToRollbackGround
  <1>6. ASSUME NEW o \in Outcomes, Rollback(r, o)
        PROVE  Ground'
    <2>1. /\ req[r].op = "create" /\ req[r].pc = "rollback" /\ posts' = posts /\ accounts' = accounts
          /\ keys' = keys /\ made' = made /\ used' = used /\ faults' \in Nat
          /\ kc' = IF Done(o) THEN DeleteUser(req[r].email, req[r].id) ELSE kc
          /\ (ToRollback(r, req[r].tries - 1) /\ req[r].tries > 1) \/ Finish(r)
      BY <1>6, CallCounts DEF Rollback, At, billing, tables, issued
    <2>2. req[r].email \in Emails /\ req[r].id \in 1..made
      BY <1>1, <2>1 DEF Stage
    <2>3. RestFits
      BY <2>1, Types DEF RestFits
    <2>4. kc' = [kc EXCEPT ![req[r].email] = NoUser] \/ kc' = kc
      BY <2>1, <2>2, Types DEF DeleteUser
    <2>5. UsersFit
      BY <2>2, <2>3, <2>4, RemovalFits DEF RestFits
    <2>6. RequestsFit
      <3>1. CASE Finish(r)
        BY <2>3, <3>1, FinishFits DEF RestFits
      <3>2. CASE ToRollback(r, req[r].tries - 1) /\ req[r].tries > 1
        <4> DEFINE x == [req[r] EXCEPT !.pc = "rollback", !.tries = req[r].tries - 1]
        <4>1. req' = [req EXCEPT ![r] = x]
          BY <3>2 DEF ToRollback
        <4>2. req[r].tries - 1 \in Nat
          BY <1>1, <3>2 DEF RequestType
        <4>3. /\ x \in RequestType /\ x.op = req[r].op /\ x.email = req[r].email
              /\ x.tenant = req[r].tenant /\ x.id = req[r].id /\ x.role = req[r].role
              /\ x.seen = req[r].seen /\ x.pc = "rollback"
          BY <1>1, <4>2 DEF RequestType, Places
        <4>4. Stage(x, used, made)
          BY <1>1, <2>1, <4>3, Forward
        <4>5. \A f \in Emails : x.seen[f] \in Known(f) \cup {NoUser}
          BY <4>3, RequestFacts
        <4> HIDE DEF x
        <4> QED
          BY <2>1, <2>3, <4>1, <4>3, <4>4, <4>5, MoveFits DEF RestFits
      <3> QED
        BY <2>1, <3>1, <3>2
    <2> QED
      BY <2>3, <2>5, <2>6, GroundStep
  <1>7. ASSUME NEW o \in Outcomes, AutoKey(r, o)
        PROVE  Ground'
    <2>1. keys' \in [Tenants -> SUBSET Statuses]
      <3>1. \A t : NewKey(t) \in [Tenants -> SUBSET Statuses]
        BY Types DEF NewKey, Statuses
      <3> QED
        BY <1>7, <3>1, Types DEF AutoKey
    <2> QED
      BY <1>7, <2>1, Types, CallCounts, QuietEnd DEF AutoKey, billing, issued
  <1> QED
    BY <1>2, <1>3, <1>4, <1>5, <1>6, <1>7, CreateAdminGround, AttachTenantGround DEF create_account

\* A PUT or a DELETE that names an id changes one user or none.
LEMMA PutFacts ==
    ASSUME Ground, NEW e \in Emails
    PROVE  /\ \A u : \/ PutUser(e, u) = [kc EXCEPT ![e] = u] /\ kc[e].id = u.id
                     \/ PutUser(e, u) = kc /\ kc[e].id # u.id
           /\ \A id : \/ DeleteUser(e, id) = [kc EXCEPT ![e] = NoUser] /\ kc[e].id = id
                      \/ DeleteUser(e, id) = kc /\ kc[e].id # id
  BY Types DEF PutUser, DeleteUser

\* A user whose status or modules change stays a user of the tenant.
LEMMA Altered ==
    ASSUME NEW u \in Users, NEW w \in Users, NEW U, NEW n, Record(w, U, n), w.tenant # NoTenant,
           u.tenant = w.tenant, u.role = w.role, u.id = w.id
    PROVE  Record(u, U, n)
  BY Blanks DEF Record

\* A handler that writes one user back and goes on.
LEMMA WriteMove ==
    ASSUME Ground, NEW r \in Requests, NEW x \in RequestType, req' = [req EXCEPT ![r] = x],
           Stage(x, used, made), \A e \in Emails : x.seen[e] \in Known(e) \cup {NoUser},
           UsersFit, used' = used, made' = made, faults' \in Nat, accounts' = accounts,
           posts' = posts, keys' = keys
    PROVE  Ground'
  <1>1. RestFits /\ made \in Nat
    BY Types DEF RestFits
  <1>2. RequestsFit
    BY <1>1, MoveFits DEF RestFits
  <1> QED
    BY <1>1, <1>2, GroundStep

\* A handler that writes one user back and ends.
LEMMA WriteEnd ==
    ASSUME Ground, NEW r \in Requests, Finish(r),
           UsersFit, used' = used, made' = made, faults' \in Nat, accounts' = accounts,
           posts' = posts, keys' = keys
    PROVE  Ground'
  BY Blanks, IdleStage, WriteMove, Types DEF Finish

\* A deletion.
LEMMA DeleteGround ==
    ASSUME Ground, NEW r \in Requests, delete_account(r)
    PROVE  Ground'
  <1>1. req[r] \in RequestType /\ Stage(req[r], used, made) /\ {"purge"} \subseteq Places
    BY RequestFacts DEF Places
  <1>2. ASSUME NEW o \in Outcomes, DeleteFind(r, o)
        PROVE  Ground'
    <2> DEFINE e == req[r].email
               t == kc[e].tenant
    <2>1. /\ req[r].op = "delete" /\ req[r].pc = "find" /\ kc' = kc /\ posts' = posts
          /\ accounts' = accounts /\ keys' = keys /\ made' = made /\ used' = used /\ faults' \in Nat
      BY <1>2, CallCounts DEF DeleteFind, At, billing, tables, issued
    <2>2. e \in Emails /\ Record(kc[e], used, made)
      BY <1>1, <2>1, RequestFacts DEF Stage
    <2>3. CASE t = NoTenant
      BY <1>2, <2>1, <2>3, Types, QuietEnd DEF DeleteFind
    <2>4. CASE t # NoTenant
      <3> DEFINE todo == {e} \cup IF o = "ok" THEN SubUsers(t) ELSE {}
                 x == [req[r] EXCEPT !.pc = "users", !.tenant = t, !.bad = o # "ok", !.todo = todo]
      <3>1. todo \subseteq Emails
        BY <2>2 DEF SubUsers
      <3>2. req' = [req EXCEPT ![r] = x]
        BY <1>2, <2>4 DEF DeleteFind
      <3>3. t \in used /\ t \in Tenants
        BY <2>2, <2>4, Types DEF Record
      <3>4. (o # "ok") \in BOOLEAN
        OBVIOUS
      <3> HIDE DEF todo, t
      <3>5. /\ x \in RequestType /\ x.op = "delete" /\ x.email = e /\ x.tenant = t
            /\ x.seen = req[r].seen /\ x.pc = "users"
        BY <1>1, <2>1, <3>1, <3>3 DEF RequestType, Places
      <3>6. Stage(x, used, made) /\ \A f \in Emails : x.seen[f] \in Known(f) \cup {NoUser}
        BY <2>2, <3>3, <3>5, RequestFacts DEF Stage
      <3> HIDE DEF x
      <3> QED
        BY <2>1, <3>2, <3>5, <3>6, Types, QuietMove
    <2> QED
      BY <2>3, <2>4
  <1>3. ASSUME NEW o \in Outcomes, NEW e \in Emails, DeleteOne(r, e, o)
        PROVE  Ground'
    <2>1. /\ req[r].op = "delete" /\ req[r].pc = "users" /\ posts' = posts
          /\ accounts' = accounts /\ keys' = keys /\ made' = made /\ used' = used /\ faults' \in Nat
          /\ kc' = [kc EXCEPT ![e] = NoUser] \/ kc' = kc
      BY <1>3, CallCounts DEF DeleteOne, At, billing, tables, issued
    <2>2. UsersFit
      BY <2>1, Types, RemovalFits
    <2>3. CASE o = "lost"
      BY <1>3, <2>1, <2>2, <2>3, WriteEnd DEF DeleteOne
    <2>4. CASE o # "lost"
      <3> DEFINE x == [req[r] EXCEPT !.todo = req[r].todo \ {e}, !.bad = req[r].bad \/ o # "ok"]
      <3>1. req' = [req EXCEPT ![r] = x]
        BY <1>3, <2>4 DEF DeleteOne
      <3>2. PICK b \in BOOLEAN : b = (req[r].bad \/ o # "ok")
        OBVIOUS
      <3>3. /\ x \in RequestType /\ x.op = req[r].op /\ x.email = req[r].email
            /\ x.tenant = req[r].tenant /\ x.id = req[r].id /\ x.role = req[r].role
            /\ x.seen = req[r].seen /\ x.pc = "users"
        BY <1>1, <2>1, <3>2 DEF RequestType, Places
      <3>4. Stage(x, used, made) /\ \A f \in Emails : x.seen[f] \in Known(f) \cup {NoUser}
        BY <1>1, <2>1, <3>3, Forward, RequestFacts
      <3> HIDE DEF x
      <3> QED
        BY <2>1, <2>2, <3>1, <3>3, <3>4, WriteMove
    <2> QED
      BY <2>3, <2>4
  <1>4. ASSUME DeleteKeys(r)
        PROVE  Ground'
    <2>1. keys' \in [Tenants -> SUBSET Statuses]
      BY <1>4, Types DEF DeleteKeys
    <2> QED
      BY <1>1, <1>4, <2>1, Types, GotoGround DEF DeleteKeys, At, billing, meters, issued
  <1>5. ASSUME NEW o \in Outcomes, PurgeTenant(r, o)
        PROVE  Ground'
    <2>1. /\ req[r].op = "delete" /\ req[r].pc = "purge" /\ kc' = kc /\ posts' = posts
          /\ accounts' = accounts /\ keys' = keys /\ made' = made /\ used' = used /\ faults' \in Nat
      BY <1>5, CallCounts DEF PurgeTenant, At, billing, issued
    <2> DEFINE x == [req[r] EXCEPT !.pc = "cancel", !.bad = req[r].bad \/ o # "ok"]
    <2>2. req' = [req EXCEPT ![r] = x]
      BY <1>5 DEF PurgeTenant
    <2>3. PICK b \in BOOLEAN : b = (req[r].bad \/ o # "ok")
      OBVIOUS
    <2>4. /\ x \in RequestType /\ x.op = req[r].op /\ x.email = req[r].email
          /\ x.tenant = req[r].tenant /\ x.id = req[r].id /\ x.role = req[r].role
          /\ x.seen = req[r].seen /\ x.pc = "cancel"
      BY <1>1, <2>1, <2>3 DEF RequestType, Places
    <2>5. Stage(x, used, made) /\ \A f \in Emails : x.seen[f] \in Known(f) \cup {NoUser}
      BY <1>1, <2>1, <2>4, Forward, RequestFacts
    <2> HIDE DEF x
    <2> QED
      BY <2>1, <2>2, <2>4, <2>5, Types, QuietMove
  <1>6. ASSUME NEW o \in Outcomes, CancelSubs(r, o)
        PROVE  Ground'
    BY <1>6, Types, CallCounts, QuietEnd DEF CancelSubs, tables, issued
  <1> QED
    BY <1>2, <1>3, <1>4, <1>5, <1>6 DEF delete_account

\* An upgrade.
LEMMA UpgradeGround ==
    ASSUME Ground, NEW r \in Requests, upgrade_account(r)
    PROVE  Ground'
  <1>1. req[r] \in RequestType /\ Stage(req[r], used, made) /\ {"keys"} \subseteq Places
    BY RequestFacts DEF Places
  <1>2. ASSUME NEW o \in Outcomes, UpgradePut(r, o)
        PROVE  Ground'
    <2> DEFINE e == req[r].email
               u == req[r].seen[e]
    <2>1. /\ req[r].op = "upgrade" /\ req[r].pc = "put" /\ posts' = posts
          /\ accounts' = accounts /\ keys' = keys /\ made' = made /\ used' = used /\ faults' \in Nat
          /\ kc' = PutUser(e, u) \/ kc' = kc
          /\ Goto(r, "keys") \/ Finish(r)
      BY <1>2, CallCounts DEF UpgradePut, At, billing, tables, issued
    <2>2. e \in Emails
      BY <1>1, <2>1 DEF Stage
    <2>3. u \in Users /\ u \in Known(e) /\ Record(u, used, made)
      BY <2>2, RequestFacts
    <2>4. UsersFit
      <3> HIDE DEF u
      <3> QED
        BY <2>1, <2>2, <2>3, Types, PutFacts, WriteFits, QuietFits
    <2>5. CASE Finish(r)
      BY <2>1, <2>4, <2>5, WriteEnd
    <2>6. CASE Goto(r, "keys")
      <3> DEFINE x == [req[r] EXCEPT !.pc = "keys"]
      <3>1. req' = [req EXCEPT ![r] = x]
        BY <2>6 DEF Goto
      <3>2. /\ x \in RequestType /\ x.op = req[r].op /\ x.email = req[r].email
            /\ x.tenant = req[r].tenant /\ x.id = req[r].id /\ x.role = req[r].role
            /\ x.seen = req[r].seen /\ x.pc = "keys"
        BY <1>1 DEF RequestType
      <3>3. Stage(x, used, made) /\ \A f \in Emails : x.seen[f] \in Known(f) \cup {NoUser}
        BY <1>1, <2>1, <3>2, Forward, RequestFacts
      <3> HIDE DEF x
      <3> QED
        BY <2>1, <2>4, <3>1, <3>2, <3>3, WriteMove
    <2> QED
      BY <2>1, <2>5, <2>6
  <1>3. ASSUME NEW o \in Outcomes, UpgradeKeys(r, o)
        PROVE  Ground'
    <2>1. keys' \in [Tenants -> SUBSET Statuses]
      BY <1>3, Types DEF UpgradeKeys, Statuses
    <2> QED
      BY <1>3, <2>1, Types, CallCounts, QuietEnd DEF UpgradeKeys, billing, issued
  <1> QED
    BY <1>2, <1>3 DEF upgrade_account

\* An edit, and the users it disables.
LEMMA EditGround ==
    ASSUME Ground, NEW r \in Requests, edit_account(r)
    PROVE  Ground'
  <1>1. /\ req[r] \in RequestType /\ Stage(req[r], used, made)
        /\ {"sync", "cascade", "add"} \subseteq Places
    BY RequestFacts DEF Places
  <1>2. ASSUME NEW o \in Outcomes, EditPut(r, o)
        PROVE  Ground'
    <2> DEFINE e == req[r].email
               w == req[r].seen[e]
               u == [w EXCEPT !.status = req[r].status]
    <2>1. /\ req[r].op = "edit" /\ req[r].pc = "put" /\ posts' = posts
          /\ accounts' = accounts /\ keys' = keys /\ made' = made /\ used' = used /\ faults' \in Nat
          /\ kc' = PutUser(e, u) \/ kc' = kc
          /\ Goto(r, "sync") \/ Finish(r)
      BY <1>2, CallCounts DEF EditPut, At, billing, tables, issued
    <2>2. e \in Emails /\ w.tenant = req[r].tenant /\ w.role = "tenant_admin" /\ req[r].tenant \in used
      BY <1>1, <2>1 DEF Stage
    <2>3. w \in Users /\ w \in Known(e) /\ Record(w, used, made) /\ w.tenant # NoTenant
      BY <2>2, RequestFacts, Types, TenantAssumption
    <2>4. u \in Users /\ u.tenant = w.tenant /\ u.role = w.role /\ u.id = w.id
      BY <1>1, <2>3 DEF Users, RequestType
    <2>5. Record(u, used, made)
      <3> HIDE DEF u, w
      <3> QED
        BY <2>3, <2>4, Altered
    <2>6. UsersFit
      <3> HIDE DEF u, w
      <3> QED
        BY <2>1, <2>2, <2>3, <2>4, <2>5, Types, PutFacts, WriteFits, QuietFits
    <2>7. CASE Finish(r)
      BY <2>1, <2>6, <2>7, WriteEnd
    <2>8. CASE Goto(r, "sync")
      <3> DEFINE x == [req[r] EXCEPT !.pc = "sync"]
      <3>1. req' = [req EXCEPT ![r] = x]
        BY <2>8 DEF Goto
      <3>2. /\ x \in RequestType /\ x.op = req[r].op /\ x.email = req[r].email
            /\ x.tenant = req[r].tenant /\ x.id = req[r].id /\ x.role = req[r].role
            /\ x.seen = req[r].seen /\ x.pc = "sync"
        BY <1>1 DEF RequestType
      <3>3. Stage(x, used, made) /\ \A f \in Emails : x.seen[f] \in Known(f) \cup {NoUser}
        BY <1>1, <2>1, <3>2, Forward, RequestFacts
      <3> HIDE DEF x
      <3> QED
        BY <2>1, <2>6, <3>1, <3>2, <3>3, WriteMove
    <2> QED
      BY <2>1, <2>7, <2>8
  <1>3. ASSUME NEW o \in Outcomes, SyncSubs(r, o)
        PROVE  Ground'
    <2>1. /\ req[r].op = "edit" /\ req[r].pc = "sync" /\ kc' = kc /\ posts' = posts
          /\ accounts' = accounts /\ keys' = keys /\ made' = made /\ used' = used /\ faults' \in Nat
      BY <1>3, CallCounts DEF SyncSubs, At, tables, issued
    <2> DEFINE todo == (req[r].mods \ req[r].todo) \cap Free
               bad  == ~((req[r].mods \ req[r].todo) \subseteq Free)
               x    == [req[r] EXCEPT !.pc = "add", !.todo = todo, !.bad = bad]
    <2>2. Goto(r, "cascade") \/ Finish(r) \/ req' = [req EXCEPT ![r] = x]
      BY <1>3 DEF SyncSubs
    <2>3. CASE Goto(r, "cascade")
      BY <1>1, <2>1, <2>3, Types, GotoGround
    <2>4. CASE Finish(r)
      BY <2>1, <2>4, Types, QuietEnd
    <2>5. CASE req' = [req EXCEPT ![r] = x]
      <3>1. todo \subseteq Emails \cup Modules /\ bad \in BOOLEAN
        BY <1>1 DEF RequestType
      <3>2. req[r].op = "edit" /\ {"add"} \subseteq Places
        BY <1>1, <2>1
      <3> HIDE DEF todo, bad
      <3>3. /\ x \in RequestType /\ x.op = req[r].op /\ x.email = req[r].email
            /\ x.tenant = req[r].tenant /\ x.id = req[r].id /\ x.role = req[r].role
            /\ x.seen = req[r].seen /\ x.pc = "add"
        BY <1>1, <3>1, <3>2 DEF RequestType
      <3>4. Stage(x, used, made) /\ \A f \in Emails : x.seen[f] \in Known(f) \cup {NoUser}
        BY <1>1, <2>1, <3>3, Forward, RequestFacts
      <3> HIDE DEF x
      <3> QED
        BY <2>1, <2>5, <3>3, <3>4, Types, QuietMove
    <2> QED
      BY <2>2, <2>3, <2>4, <2>5
  <1>4. ASSUME NEW m \in Modules, AddSub(r, m)
        PROVE  Ground'
    <2>1. /\ req[r].op = "edit" /\ req[r].pc = "add" /\ kc' = kc
          /\ posts' = posts \cup {Post(r, req[r].tenant, m)}
          /\ accounts' = accounts /\ keys' = keys /\ made' = made /\ used' = used /\ faults' = faults
      BY <1>4 DEF AddSub, At, tables, meters, issued
    <2>2. req[r].tenant \in used
      BY <1>1, <2>1 DEF Stage
    <2>3. posts' \subseteq PostType
      BY <2>1, <2>2, Types, PostTypes
    <2> DEFINE x == [req[r] EXCEPT !.todo = req[r].todo \ {m}]
    <2>4. req' = [req EXCEPT ![r] = x]
      BY <1>4 DEF AddSub
    <2>5. /\ x \in RequestType /\ x.op = req[r].op /\ x.email = req[r].email
          /\ x.tenant = req[r].tenant /\ x.id = req[r].id /\ x.role = req[r].role
          /\ x.seen = req[r].seen /\ x.pc = "add"
      BY <1>1, <2>1 DEF RequestType
    <2>6. Stage(x, used, made) /\ \A f \in Emails : x.seen[f] \in Known(f) \cup {NoUser}
      BY <1>1, <2>1, <2>5, Forward, RequestFacts
    <2> HIDE DEF x
    <2> QED
      BY <2>1, <2>3, <2>4, <2>5, <2>6, Types, QuietMove
  <1>5. ASSUME AddTimesOut(r)
        PROVE  Ground'
    <2>1. /\ kc' = kc /\ accounts' = accounts /\ keys' = keys /\ made' = made /\ used' = used
          /\ faults' \in Nat /\ Finish(r)
          /\ posts' = (posts \ PostsOf(r)) \cup {Detached(p) : p \in PostsOf(r)}
      BY <1>5, CallCounts DEF AddTimesOut, tables, issued, Outcomes
    <2>2. posts' \subseteq PostType
      BY <2>1, Types, PostTypes DEF PostsOf
    <2> QED
      BY <2>1, <2>2, Types, QuietEnd
  <1>6. ASSUME Synced(r)
        PROVE  Ground'
    BY <1>1, <1>6, Types, GotoGround, QuietEnd DEF Synced, At, billing, tables, meters, issued
  <1>7. ASSUME NEW o \in Outcomes, CascadeList(r, o)
        PROVE  Ground'
    <2>1. /\ req[r].op = "edit" /\ req[r].pc = "cascade" /\ kc' = kc /\ posts' = posts
          /\ accounts' = accounts /\ keys' = keys /\ made' = made /\ used' = used /\ faults' \in Nat
      BY <1>7, CallCounts DEF CascadeList, At, billing, tables, issued
    <2> DEFINE S == SubUsers(req[r].tenant)
               x == [req[r] EXCEPT !.pc = "disable", !.todo = S, !.seen = Copy(S)]
    <2>2. Finish(r) \/ req' = [req EXCEPT ![r] = x]
      BY <1>7 DEF CascadeList
    <2>3. CASE Finish(r)
      BY <2>1, <2>3, Types, QuietEnd
    <2>4. CASE req' = [req EXCEPT ![r] = x]
      <3>1. S \subseteq Emails /\ \A e \in S : kc[e].tenant = req[r].tenant /\ kc[e].role \in SubRoles
        BY DEF SubUsers
      <3>2. /\ Copy(S) \in [Emails -> Users]
            /\ \A f \in Emails : Copy(S)[f] \in Known(f) \cup {NoUser}
            /\ \A f \in S : Copy(S)[f] = kc[f]
        BY <3>1, CopyFacts
      <3> HIDE DEF S
      <3>3. /\ x \in RequestType /\ x.op = req[r].op /\ x.email = req[r].email
            /\ x.tenant = req[r].tenant /\ x.seen = Copy(S) /\ x.pc = "disable" /\ x.todo = S
        BY <1>1, <3>1, <3>2 DEF RequestType, Places
      <3>4. Stage(x, used, made)
        BY <1>1, <2>1, <3>1, <3>2, <3>3 DEF Stage
      <3> HIDE DEF x
      <3> QED
        BY <2>1, <2>4, <3>2, <3>3, <3>4, Types, QuietMove
    <2> QED
      BY <2>2, <2>3, <2>4
  <1>8. ASSUME NEW o \in Outcomes, NEW e \in Emails, CascadePut(r, e, o)
        PROVE  Ground'
    <2> DEFINE w == req[r].seen[e]
               u == [w EXCEPT !.status = "inactive"]
    <2>1. /\ req[r].op = "edit" /\ req[r].pc = "disable" /\ posts' = posts /\ e \in req[r].todo
          /\ accounts' = accounts /\ keys' = keys /\ made' = made /\ used' = used /\ faults' \in Nat
          /\ kc' = PutUser(e, u) \/ kc' = kc
      BY <1>8, CallCounts DEF CascadePut, At, billing, tables, issued
    <2>2. w.tenant = req[r].tenant /\ w.role \in SubRoles /\ req[r].tenant \in used
      BY <1>1, <2>1 DEF Stage
    <2>3. w \in Users /\ w \in Known(e) /\ Record(w, used, made) /\ w.tenant # NoTenant
      BY <2>2, RequestFacts, Types, TenantAssumption
    <2>4. u \in Users /\ u.tenant = w.tenant /\ u.role = w.role /\ u.id = w.id
      BY <2>3 DEF Users, Statuses
    <2>5. Record(u, used, made)
      <3> HIDE DEF u, w
      <3> QED
        BY <2>3, <2>4, Altered
    <2>6. UsersFit
      <3> HIDE DEF u, w
      <3> QED
        BY <2>1, <2>2, <2>3, <2>4, <2>5, Types, PutFacts, WriteFits, QuietFits
    <2> DEFINE x == [req[r] EXCEPT !.todo = req[r].todo \ {e}]
    <2>7. Finish(r) \/ req' = [req EXCEPT ![r] = x]
      BY <1>8 DEF CascadePut
    <2>8. CASE Finish(r)
      BY <2>1, <2>6, <2>8, WriteEnd
    <2>9. CASE req' = [req EXCEPT ![r] = x]
      <3>1. /\ x \in RequestType /\ x.op = req[r].op /\ x.email = req[r].email
            /\ x.tenant = req[r].tenant /\ x.id = req[r].id /\ x.role = req[r].role
            /\ x.seen = req[r].seen /\ x.pc = "disable" /\ x.todo = req[r].todo \ {e}
        BY <1>1, <2>1 DEF RequestType
      <3>2. Stage(x, used, made) /\ \A f \in Emails : x.seen[f] \in Known(f) \cup {NoUser}
        BY <1>1, <2>1, <3>1, RequestFacts DEF Stage
      <3> HIDE DEF x
      <3> QED
        BY <2>1, <2>6, <2>9, <3>1, <3>2, WriteMove
    <2> QED
      BY <2>7, <2>8, <2>9
  <1>9. ASSUME CascadeDone(r)
        PROVE  Ground'
    BY <1>9, Types, QuietEnd DEF CascadeDone, billing, tables, meters, issued
  <1> QED
    BY <1>2, <1>3, <1>4, <1>5, <1>6, <1>7, <1>8, <1>9 DEF edit_account

\* A user is made for a tenant.
LEMMA CreateUserGround ==
    ASSUME Ground, NEW r \in Requests, create_user(r)
    PROVE  Ground'
  <1>1. req[r] \in RequestType /\ Stage(req[r], used, made) /\ made \in Nat /\ {"post"} \subseteq Places
    BY RequestFacts DEF Places
  <1> DEFINE e == req[r].email
  <1>2. ASSUME NEW o \in Outcomes, CheckLimits(r, o)
        PROVE  Ground'
    <2>1. /\ req[r].op = "create_user" /\ req[r].pc = "check" /\ kc' = kc /\ posts' = posts
          /\ accounts' = accounts /\ keys' = keys /\ made' = made /\ used' = used /\ faults' \in Nat
          /\ Goto(r, "post") \/ Finish(r)
      BY <1>2, CallCounts DEF CheckLimits, At, billing, tables, issued
    <2> QED
      BY <1>1, <2>1, Types, GotoGround, QuietEnd
  <1>3. ASSUME NEW o \in Outcomes, PostKeycloakUser(r, o)
        PROVE  Ground'
    <2>1. /\ req[r].op = "create_user" /\ req[r].pc = "post" /\ posts' = posts
          /\ accounts' = accounts /\ keys' = keys /\ used' = used /\ faults' \in Nat
      BY <1>3, CallCounts DEF PostKeycloakUser, At, billing, tables, issued
    <2>2. e \in Emails
      BY <1>1, <2>1 DEF Stage
    <2>3. CASE Has(e)
      BY <1>3, <2>1, <2>3, Types, QuietEnd DEF PostKeycloakUser
    <2>4. CASE ~Has(e)
      <3>1. PICK n \in Nat : n = made + 1
        BY <1>1
      <3> DEFINE u == Bare(n)
                 x == [req[r] EXCEPT !.pc = "attrs", !.id = n]
      <3>2. /\ made' = n
            /\ kc' = [kc EXCEPT ![e] = u] \/ kc' = kc
            /\ Finish(r) \/ req' = [req EXCEPT ![r] = x]
        BY <1>3, <2>4, <3>1 DEF PostKeycloakUser
      <3>3. RestFits
        BY <2>1, <3>1, <3>2, <1>1, Types DEF RestFits
      <3>4. u \in Users /\ u.tenant = NoTenant /\ u.role = "none" /\ u.id = n
        BY Blanks DEF Bare, Users, Statuses
      <3>5. Record(u, used', made')
        BY <1>1, <3>1, <3>2, <3>4 DEF Record
      <3>6. UsersFit
        <4> HIDE DEF u
        <4> QED
          BY <2>2, <3>2, <3>3, <3>4, <3>5, WriteFits, QuietFits DEF RestFits
      <3>7. RequestsFit
        <4>1. CASE Finish(r)
          BY <3>3, <4>1, FinishFits DEF RestFits
        <4>2. CASE req' = [req EXCEPT ![r] = x]
          <5>1. /\ x \in RequestType /\ x.op = req[r].op /\ x.email = req[r].email
                /\ x.tenant = req[r].tenant /\ x.id = n /\ x.role = req[r].role
                /\ x.seen = req[r].seen /\ x.pc = "attrs"
            BY <1>1 DEF RequestType, Places
          <5>2. Stage(x, used', made')
            BY <1>1, <2>1, <3>1, <3>2, <5>1 DEF Stage
          <5>3. \A f \in Emails : x.seen[f] \in Known(f) \cup {NoUser}
            BY <5>1, RequestFacts
          <5> HIDE DEF x
          <5> QED
            BY <3>3, <4>2, <5>1, <5>2, <5>3, MoveFits DEF RestFits
        <4> QED
          BY <3>2, <4>1, <4>2
      <3> QED
        BY <3>3, <3>6, <3>7, GroundStep
    <2> QED
      BY <2>3, <2>4
  <1>4. ASSUME NEW o \in Outcomes, WriteAttributes(r, o)
        PROVE  Ground'
    <2> DEFINE mods == IF req[r].role = "tenant_module_user" THEN req[r].mods ELSE {}
               u == [tenant |-> req[r].tenant, role |-> req[r].role, status |-> req[r].status,
                     id |-> req[r].id, mods |-> mods]
    <2>1. /\ req[r].op = "create_user" /\ req[r].pc = "attrs" /\ posts' = posts /\ Finish(r)
          /\ accounts' = accounts /\ keys' = keys /\ made' = made /\ used' = used /\ faults' \in Nat
          /\ kc' = PutUser(e, u) \/ kc' = [kc EXCEPT ![e] = NoUser]
      BY <1>4, CallCounts DEF WriteAttributes, At, billing, tables, issued
    <2>2. /\ e \in Emails /\ req[r].role \in SubRoles /\ req[r].tenant \in used
          /\ req[r].id \in 1..made
      BY <1>1, <2>1 DEF Stage
    <2>3. mods \subseteq Modules /\ req[r].tenant \in Tenants /\ req[r].tenant # NoTenant
      BY <1>1, <2>2, Types, TenantAssumption DEF RequestType
    <2>4. u \in Users /\ u.tenant = req[r].tenant /\ u.role = req[r].role /\ u.id = req[r].id
      <3> HIDE DEF mods
      <3> QED
        BY <1>1, <2>2, <2>3 DEF RequestType, Users, SubRoles, Roles
    <2>5. Record(u, used, made) /\ u.role # "tenant_admin"
      <3> HIDE DEF u
      <3> QED
        BY <1>1, <2>2, <2>3, <2>4 DEF Record, SubRoles
    <2>6. UsersFit
      <3> HIDE DEF u
      <3> QED
        BY <1>1, <2>1, <2>2, <2>4, <2>5, PutFacts, WriteFits, QuietFits, RemovalFits
    <2> QED
      BY <2>1, <2>6, WriteEnd
  <1> QED
    BY <1>2, <1>3, <1>4 DEF create_user

\* A user is changed.
LEMMA UpdateUserGround ==
    ASSUME Ground, NEW r \in Requests, update_user(r)
    PROVE  Ground'
  <1>1. req[r] \in RequestType /\ Stage(req[r], used, made)
    BY RequestFacts
  <1> DEFINE e == req[r].email
  <1>2. ASSUME NEW o \in Outcomes, CheckUpdate(r, o)
        PROVE  Ground'
    <2> DEFINE x == [req[r] EXCEPT !.pc = "put", !.seen = Copy({e})]
    <2>1. /\ req[r].op = "update_user" /\ req[r].pc = "check" /\ kc' = kc /\ posts' = posts
          /\ accounts' = accounts /\ keys' = keys /\ made' = made /\ used' = used /\ faults' \in Nat
          /\ Finish(r) \/ (get_user_by_id(req[r].tenant, e) /\ req' = [req EXCEPT ![r] = x])
      BY <1>2, CallCounts DEF CheckUpdate, At, billing, tables, issued
    <2>2. CASE Finish(r)
      BY <2>1, <2>2, Types, QuietEnd
    <2>3. CASE get_user_by_id(req[r].tenant, e) /\ req' = [req EXCEPT ![r] = x]
      <3>1. e \in Emails /\ kc[e].tenant = req[r].tenant
        BY <1>1, <2>1, <2>3 DEF Stage, get_user_by_id
      <3>2. /\ Copy({e}) \in [Emails -> Users] /\ Copy({e})[e] = kc[e]
            /\ \A f \in Emails : Copy({e})[f] \in Known(f) \cup {NoUser}
        BY <3>1, CopyFacts
      <3>3. /\ x \in RequestType /\ x.op = req[r].op /\ x.email = req[r].email
            /\ x.tenant = req[r].tenant /\ x.seen = Copy({e}) /\ x.pc = "put"
        BY <1>1, <3>2 DEF RequestType, Places
      <3>4. Stage(x, used, made)
        BY <1>1, <2>1, <3>1, <3>2, <3>3 DEF Stage
      <3> HIDE DEF x
      <3> QED
        BY <2>1, <2>3, <3>2, <3>3, <3>4, Types, QuietMove
    <2> QED
      BY <2>1, <2>2, <2>3
  <1>3. ASSUME NEW o \in Outcomes, UpdatePut(r, o)
        PROVE  Ground'
    <2> DEFINE w == req[r].seen[e]
               u == [w EXCEPT !.status = req[r].status, !.mods = req[r].mods]
    <2>1. /\ req[r].op = "update_user" /\ req[r].pc = "put" /\ posts' = posts /\ Finish(r)
          /\ accounts' = accounts /\ keys' = keys /\ made' = made /\ used' = used /\ faults' \in Nat
          /\ kc' = PutUser(e, u) \/ kc' = kc
      BY <1>3, CallCounts DEF UpdatePut, At, billing, tables, issued
    <2>2. e \in Emails /\ w.tenant = req[r].tenant /\ req[r].tenant \in used
      BY <1>1, <2>1 DEF Stage
    <2>3. w \in Users /\ w \in Known(e) /\ Record(w, used, made) /\ w.tenant # NoTenant
      BY <2>2, RequestFacts, Types, TenantAssumption
    <2>4. u \in Users /\ u.tenant = w.tenant /\ u.role = w.role /\ u.id = w.id
      BY <1>1, <2>3 DEF Users, RequestType
    <2>5. Record(u, used, made)
      <3> HIDE DEF u, w
      <3> QED
        BY <2>3, <2>4, Altered
    <2>6. UsersFit
      <3> HIDE DEF u, w
      <3> QED
        BY <2>1, <2>2, <2>3, <2>4, <2>5, Types, PutFacts, WriteFits, QuietFits
    <2> QED
      BY <2>1, <2>6, WriteEnd
  <1> QED
    BY <1>2, <1>3 DEF update_user

\* A user is deleted.
LEMMA DeleteUserGround ==
    ASSUME Ground, NEW r \in Requests, delete_user(r)
    PROVE  Ground'
  <1>1. PICK o \in Outcomes :
            /\ At(r, "delete_user", "del") /\ Call(o) /\ Finish(r)
            /\ kc' = IF Done(o) THEN DeleteUser(req[r].email, req[r].id) ELSE kc
            /\ posts' = posts /\ accounts' = accounts /\ keys' = keys
            /\ made' = made /\ used' = used
    BY DEF delete_user, billing, tables, issued
  <1>2. req[r].email \in Emails
    <2>1. Stage(req[r], used, made) /\ req[r].pc = "del"
      BY <1>1, RequestFacts DEF At
    <2> QED
      BY <2>1 DEF Stage
  <1>3. faults' \in Nat
    BY <1>1, CallCounts
  <1>4. UsersFit
    BY <1>1, <1>2, <1>3, Types, PutFacts, RemovalFits
  <1> QED
    BY <1>1, <1>3, <1>4, WriteEnd

\* The handlers.
LEMMA HandleGround ==
    ASSUME Ground, Handle
    PROVE  Ground'
  BY CreateGround, DeleteGround, UpgradeGround, EditGround, CreateUserGround, UpdateUserGround,
     DeleteUserGround DEF Handle

\* An answer reaches the request that waits for it.
LEMMA AnswerFits ==
    ASSUME Ground, NEW p, NEW b, Answer(p, b), used' = used, made' = made
    PROVE  RequestsFit
  <1>1. ASSUME NEW r \in Requests
        PROVE  /\ req'[r] \in RequestType /\ Stage(req'[r], used, made)
               /\ \A e \in Emails : req'[r].seen[e] \in Known(e)
    <2>1. PICK c \in BOOLEAN : c = (req[r].bad \/ ~b)
      OBVIOUS
    <2> DEFINE x == [req[r] EXCEPT !.bad = c]
    <2>2. req'[r] = req[r] \/ (p.by = {r} /\ req'[r] = x)
      BY <2>1 DEF Answer
    <2>3. /\ req[r] \in RequestType /\ Stage(req[r], used, made)
          /\ \A e \in Emails : req[r].seen[e] \in Known(e)
      BY RequestFacts
    <2>4. /\ x \in RequestType /\ x.op = req[r].op /\ x.pc = req[r].pc /\ x.email = req[r].email
          /\ x.tenant = req[r].tenant /\ x.id = req[r].id /\ x.role = req[r].role
          /\ x.seen = req[r].seen /\ x.todo = req[r].todo
      BY <2>3 DEF RequestType
    <2>5. Stage(x, used, made)
      BY <2>3, <2>4 DEF Stage
    <2> HIDE DEF x
    <2> QED
      BY <2>2, <2>3, <2>4, <2>5
  <1>2. req' = [r \in Requests |-> req'[r]]
    BY DEF Answer
  <1> QED
    BY <1>1, <1>2 DEF RequestsFit

\* The gateway and Kill Bill.
LEMMA GatewayGround ==
    ASSUME Ground, Gateway
    PROVE  Ground'
  <1>1. PICK p \in posts : tryClaimTrial(p) \/ \E o \in Outcomes : KillBillAnswers(p, o)
    BY DEF Gateway
  <1>2. p \in PostType /\ [p EXCEPT !.claimed = TRUE] \in PostType
    BY Types DEF PostType
  <1>3. ASSUME tryClaimTrial(p)
        PROVE  Ground'
    <2>1. /\ kc' = kc /\ accounts' = accounts /\ keys' = keys /\ made' = made /\ used' = used
          /\ faults' = faults
      BY <1>3 DEF tryClaimTrial, tables, meters, issued
    <2>2. posts' \subseteq PostType
      BY <1>2, <1>3, Types DEF tryClaimTrial
    <2>3. RestFits /\ UsersFit
      BY <2>1, <2>2, Types, QuietFits DEF RestFits
    <2>4. req' = req \/ Answer(p, FALSE)
      BY <1>3 DEF tryClaimTrial
    <2>5. ASSUME Answer(p, FALSE)
          PROVE  RequestsFit
      BY <2>1, <2>5, AnswerFits
    <2>6. ASSUME req' = req
          PROVE  RequestsFit
      BY <2>1, <2>6, Types, StillFits
    <2>7. RequestsFit
      BY <2>4, <2>5, <2>6, Zenon
    <2> QED
      BY <2>3, <2>7, GroundStep
  <1>4. ASSUME NEW o \in Outcomes, KillBillAnswers(p, o)
        PROVE  Ground'
    <2>1. /\ kc' = kc /\ accounts' = accounts /\ keys' = keys /\ made' = made /\ used' = used
          /\ faults' \in Nat /\ posts' \subseteq posts /\ Answer(p, o = "ok")
      BY <1>4, CallCounts DEF KillBillAnswers, tables, issued
    <2>2. RestFits /\ UsersFit
      BY <2>1, Types, QuietFits DEF RestFits
    <2>3. RequestsFit
      BY <2>1, Types, AnswerFits
    <2> QED
      BY <2>2, <2>3, GroundStep
  <1> QED
    BY <1>1, <1>3, <1>4

\* A Google user logs in for the first time.
LEMMA LoginGround ==
    ASSUME Ground, NEW e \in Emails, FederatedLogin(e)
    PROVE  Ground'
  <1>1. PICK n \in Nat : n = made + 1
    BY Types
  <1> DEFINE u == Bare(n)
  <1>2. /\ made' = n /\ kc' = [kc EXCEPT ![e] = u] /\ req' = req /\ used' = used /\ faults' = faults
        /\ accounts' = accounts /\ keys' = keys /\ posts' = posts
    BY <1>1 DEF FederatedLogin, billing, tables, issued
  <1>3. RestFits
    BY <1>1, <1>2, Types DEF RestFits
  <1>4. u \in Users /\ u.tenant = NoTenant /\ u.role = "none" /\ u.id = n
    BY Blanks DEF Bare, Users, Statuses
  <1>5. Record(u, used', made')
    BY <1>1, <1>2, <1>4, Types DEF Record
  <1> HIDE DEF u
  <1>6. UsersFit /\ RequestsFit
    BY <1>2, <1>3, <1>4, <1>5, WriteFits, StillFits DEF RestFits
  <1> QED
    BY <1>3, <1>6, GroundStep

\* Keys, tokens, and the rows made with them.
LEMMA TokensGround ==
    ASSUME Ground, Tokens
    PROVE  Ground'
  <1>1. CASE \E e \in Emails : FederatedLogin(e)
    BY <1>1, LoginGround
  <1>2. ASSUME NEW t \in Tenants, revoke_api_key(t)
        PROVE  keys' \in [Tenants -> SUBSET Statuses]
    BY <1>2, Types DEF revoke_api_key, Statuses
  <1>3. CASE ~\E e \in Emails : FederatedLogin(e)
    <2>1. /\ req' = req /\ kc' = kc /\ accounts' = accounts /\ posts' = posts /\ made' = made
          /\ used' = used /\ faults' = faults /\ keys' \in [Tenants -> SUBSET Statuses]
      <3>1. CASE \E e \in Emails : generate_user_token(e)
        BY <3>1, Types DEF generate_user_token, billing, meters, issued
      <3>2. CASE \E t \in Tenants : generate_token(t) \/ UseToken(t) \/ purge_tenant(t)
        BY <3>2, Types DEF generate_token, UseToken, purge_tenant, billing, meters, issued
      <3>3. CASE \E t \in Tenants : revoke_api_key(t)
        BY <1>2, <3>3 DEF revoke_api_key, billing, meters, issued
      <3> QED
        BY <1>3, <3>1, <3>2, <3>3 DEF Tokens
    <2>2. RestFits /\ UsersFit /\ RequestsFit
      BY <2>1, Types, QuietFits, StillFits DEF RestFits
    <2> QED
      BY <2>2, GroundStep
  <1> QED
    BY <1>1, <1>3

\* At the start nobody is known but the users there are.
LEMMA GroundAtStart ==
    ASSUME Init
    PROVE  Ground
  <1>1. Cardinality(Emails) \in Nat
    BY TenantAssumption, FS_CardinalityType
  <1>2. /\ kc = StartUsers /\ StartUsers \in [Emails -> Users]
        /\ \A r \in Requests : req[r] = Idle
        /\ made = Cardinality(Emails) /\ used = StartTenants /\ accounts = StartTenants
        /\ posts = {} /\ faults = 0
    BY TenantAssumption DEF Init
  <1>3. StartTenants \subseteq Tenants
    BY <1>2 DEF StartTenants, Users
  <1>4. TypeInvariant
    BY <1>1, <1>2, <1>3, Blanks DEF Init, TypeInvariant, Statuses
  <1>5. \A r \in Requests : Stage(req[r], used, made)
    BY <1>1, <1>2, IdleStage
  <1>6. ASSUME NEW e \in Emails, NEW u \in Known(e)
        PROVE  u = StartUsers[e] \/ u = NoUser
    BY <1>2, <1>6, Blanks DEF Known
  <1>7. ASSUME NEW e \in Emails
        PROVE  Record(StartUsers[e], used, made)
    <2>1. StartUsers[e] \in Users
      BY <1>2
    <2>2. StartUsers[e].tenant \in used \cup {NoTenant}
      BY <1>2 DEF StartTenants
    <2>3. StartUsers[e] = NoUser \/ StartUsers[e].id \in 1..made
      BY <1>2, StartAssumption
    <2> QED
      BY <1>1, <1>2, <2>1, <2>2, <2>3, StartAssumption, Blanks DEF Record
  <1>8. \A e \in Emails : \A u \in Known(e) : Record(u, used, made)
    BY <1>1, <1>2, <1>6, <1>7, NoRecord
  <1>9. OneAdmin
    BY <1>6, Blanks, StartAssumption DEF OneAdmin
  <1> QED
    BY <1>4, <1>5, <1>8, <1>9 DEF Ground

\* A step keeps Ground.
LEMMA GroundKept ==
    ASSUME Ground, [Next]_vars
    PROVE  Ground'
  <1>1. CASE UNCHANGED vars
    <2>1. /\ kc' = kc /\ keys' = keys /\ req' = req /\ posts' = posts /\ used' = used
          /\ accounts' = accounts /\ made' = made /\ faults' = faults
      BY <1>1 DEF vars, billing, tables, meters, issued
    <2>2. RestFits /\ UsersFit /\ RequestsFit
      BY <2>1, Types, QuietFits, StillFits DEF RestFits
    <2> QED
      BY <2>2, GroundStep
  <1> QED
    BY <1>1, ArriveGround, HandleGround, GatewayGround, TokensGround DEF Next

\* What requests know where they stand is so, whatever the others do.
THEOREM GroundHolds == Spec => []Ground
  <1>1. Init => Ground
    BY GroundAtStart
  <1>2. Ground /\ [Next]_vars => Ground'
    BY GroundKept
  <1> QED
    BY <1>1, <1>2, PTL DEF Spec

-----------------------------------------------------------------------------
(* Subscriptions: what a step does to them, and that a trial is granted once. *)

\* The step leaves the gateway alone, or Kill Bill ends subscriptions.
Unbilled == posts' = posts /\ trials' = trials /\ granted' = granted /\ subs' \subseteq subs

\* Request r asks for subscriptions of its tenant.
Asks(r) ==
    /\ req[r].op \in {"create", "edit"} /\ req[r].pc # "idle" /\ req[r].tenant \in used
    /\ \E M \in SUBSET Modules : posts' = posts \cup {Post(r, req[r].tenant, m) : m \in M}
    /\ trials' = trials /\ granted' = granted /\ subs' = subs

\* Request r no longer waits for the subscriptions it asked for.
GivesUp(r) ==
    /\ posts' = (posts \ PostsOf(r)) \cup {Detached(p) : p \in PostsOf(r)}
    /\ trials' = trials /\ granted' = granted /\ subs' = subs

\* What a handler does to subscriptions.
LEMMA HandleBilling ==
    ASSUME Ground, NEW r \in Requests,
           \/ create_account(r) \/ delete_account(r) \/ upgrade_account(r) \/ edit_account(r)
           \/ create_user(r) \/ update_user(r) \/ delete_user(r)
    PROVE  Unbilled \/ Asks(r) \/ GivesUp(r)
  <1>1. req[r] \in RequestType /\ Stage(req[r], used, made)
    BY RequestFacts
  <1>2. CASE create_account(r)
    <2>1. ASSUME NEW o \in Outcomes, SubscribeAll(r, o)
          PROVE  Unbilled \/ Asks(r)
      <3>1. /\ req[r].op = "create" /\ req[r].pc = "plans"
            /\ trials' = trials /\ granted' = granted /\ subs' = subs
            /\ \/ posts' = posts
               \/ posts' = posts \cup {Post(r, req[r].tenant, m) : m \in req[r].mods \cap Free}
        BY <2>1 DEF SubscribeAll, At
      <3>2. req[r].tenant \in used /\ req[r].mods \cap Free \in SUBSET Modules
        BY <1>1, <3>1 DEF Stage, RequestType
      <3> QED
        BY <3>1, <3>2 DEF Unbilled, Asks
    <2>2. ASSUME SubscribeTimesOut(r)
          PROVE  GivesUp(r)
      BY <2>2 DEF SubscribeTimesOut, GivesUp
    <2>3. ASSUME NEW o \in Outcomes,
                 CreateAdmin(r, o) \/ AttachTenant(r, o) \/ CreateKbAccount(r, o)
                   \/ Rollback(r, o) \/ AutoKey(r, o)
          PROVE  Unbilled
      BY <2>3 DEF CreateAdmin, AttachTenant, CreateKbAccount, Rollback, AutoKey, billing, Unbilled
    <2>4. ASSUME AllSubscribed(r)
          PROVE  Unbilled
      BY <2>4 DEF AllSubscribed, billing, Unbilled
    <2> QED
      BY <1>2, <2>1, <2>2, <2>3, <2>4 DEF create_account
  <1>3. CASE delete_account(r)
    <2>1. ASSUME NEW o \in Outcomes, CancelSubs(r, o)
          PROVE  Unbilled
      <3>1. PICK kept \in SUBSET {s \in subs : s[1] = req[r].tenant} :
                    subs' = {s \in subs : s[1] # req[r].tenant} \cup kept
        BY <2>1 DEF CancelSubs
      <3> QED
        BY <2>1, <3>1 DEF CancelSubs, Unbilled
    <2>2. ASSUME NEW o \in Outcomes, DeleteFind(r, o) \/ PurgeTenant(r, o)
          PROVE  Unbilled
      BY <2>2 DEF DeleteFind, PurgeTenant, billing, Unbilled
    <2>3. ASSUME NEW o \in Outcomes, NEW e \in Emails, DeleteOne(r, e, o)
          PROVE  Unbilled
      BY <2>3 DEF DeleteOne, billing, Unbilled
    <2>4. ASSUME DeleteKeys(r)
          PROVE  Unbilled
      BY <2>4 DEF DeleteKeys, billing, Unbilled
    <2> QED
      BY <1>3, <2>1, <2>2, <2>3, <2>4 DEF delete_account
  <1>4. CASE upgrade_account(r)
    BY <1>4 DEF upgrade_account, UpgradePut, UpgradeKeys, billing, Unbilled
  <1>5. CASE edit_account(r)
    <2>1. ASSUME NEW o \in Outcomes, SyncSubs(r, o)
          PROVE  Unbilled
      BY <2>1 DEF SyncSubs, Unbilled
    <2>2. ASSUME NEW m \in Modules, AddSub(r, m)
          PROVE  Asks(r)
      <3>1. /\ req[r].op = "edit" /\ req[r].pc = "add"
            /\ trials' = trials /\ granted' = granted /\ subs' = subs
            /\ posts' = posts \cup {Post(r, req[r].tenant, n) : n \in {m}}
        BY <2>2 DEF AddSub, At
      <3>2. req[r].tenant \in used /\ {m} \in SUBSET Modules
        BY <1>1, <3>1 DEF Stage
      <3> QED
        BY <3>1, <3>2 DEF Asks
    <2>3. ASSUME AddTimesOut(r)
          PROVE  GivesUp(r)
      BY <2>3 DEF AddTimesOut, GivesUp
    <2>4. ASSUME NEW o \in Outcomes, EditPut(r, o) \/ CascadeList(r, o)
          PROVE  Unbilled
      BY <2>4 DEF EditPut, CascadeList, billing, Unbilled
    <2>5. ASSUME NEW o \in Outcomes, NEW e \in Emails, CascadePut(r, e, o)
          PROVE  Unbilled
      BY <2>5 DEF CascadePut, billing, Unbilled
    <2>6. ASSUME Synced(r) \/ CascadeDone(r)
          PROVE  Unbilled
      BY <2>6 DEF Synced, CascadeDone, billing, Unbilled
    <2> QED
      BY <1>5, <2>1, <2>2, <2>3, <2>4, <2>5, <2>6 DEF edit_account
  <1>6. CASE create_user(r)
    BY <1>6 DEF create_user, CheckLimits, PostKeycloakUser, WriteAttributes, billing, Unbilled
  <1>7. CASE update_user(r)
    BY <1>7 DEF update_user, CheckUpdate, UpdatePut, billing, Unbilled
  <1>8. CASE delete_user(r)
    BY <1>8 DEF delete_user, billing, Unbilled
  <1> QED
    BY <1>2, <1>3, <1>4, <1>5, <1>6, <1>7, <1>8

\* What a step does to subscriptions.
LEMMA BillingSteps ==
    ASSUME Ground, [Next]_vars
    PROVE  Unbilled \/ Gateway \/ \E r \in Requests : Asks(r) \/ GivesUp(r)
  <1>1. CASE Arrive
    BY <1>1, Arrivals DEF Begin, billing, Unbilled
  <1>2. CASE Handle
    <2>1. PICK r \in Requests :
            \/ create_account(r) \/ delete_account(r) \/ upgrade_account(r) \/ edit_account(r)
            \/ create_user(r) \/ update_user(r) \/ delete_user(r)
      BY <1>2 DEF Handle
    <2> QED
      BY <2>1, HandleBilling
  <1>3. CASE Tokens
    BY <1>3 DEF Tokens, FederatedLogin, generate_user_token, generate_token, revoke_api_key, UseToken,
                purge_tenant, billing, Unbilled
  <1>4. CASE UNCHANGED vars
    BY <1>4 DEF vars, billing, Unbilled
  <1> QED
    BY <1>1, <1>2, <1>3, <1>4 DEF Next

\* A claim becomes a grant, or is released, by the request that made it.
LEMMA TrialKept ==
    ASSUME Ground, TrialInvariant, [Next]_vars
    PROVE  TrialInvariant' /\ \A s \in subs' \ subs : s \notin granted
  <1>1. posts \subseteq PostType
    BY Types
  <1>2. ASSUME Unbilled
        PROVE  TrialInvariant' /\ \A s \in subs' \ subs : s \notin granted
    BY <1>2 DEF Unbilled, TrialInvariant
  <1>3. ASSUME NEW r \in Requests, Asks(r)
        PROVE  TrialInvariant' /\ \A s \in subs' \ subs : s \notin granted
    <2>1. PICK M \in SUBSET Modules : posts' = posts \cup {Post(r, req[r].tenant, m) : m \in M}
      BY <1>3 DEF Asks
    <2>2. \A p \in posts' : p \in posts \/ ~p.claimed
      BY <1>3, <2>1, PostTypes DEF Asks
    <2> QED
      BY <1>3, <2>2 DEF Asks, TrialInvariant
  <1>4. ASSUME NEW r \in Requests, GivesUp(r)
        PROVE  TrialInvariant' /\ \A s \in subs' \ subs : s \notin granted
    <2>1. ASSUME NEW p \in posts'
          PROVE  \E q \in posts : /\ q.tenant = p.tenant /\ q.mod = p.mod /\ q.claimed = p.claimed
                                  /\ p = IF q \in PostsOf(r) THEN Detached(q) ELSE q
      BY <1>4, <2>1, PostTypes DEF GivesUp, PostsOf
    <2>2. \A p \in posts' : p.claimed => <<p.tenant, p.mod>> \in trials \ granted
      <3> TAKE p \in posts'
      <3>1. PICK q \in posts : q.tenant = p.tenant /\ q.mod = p.mod /\ q.claimed = p.claimed
        BY <2>1
      <3> QED
        BY <3>1 DEF TrialInvariant
    <2>3. ASSUME NEW p \in posts', NEW q \in posts', p.claimed, q.claimed, p.tenant = q.tenant,
                 p.mod = q.mod
          PROVE  p = q
      <3>1. PICK x \in posts : /\ x.tenant = p.tenant /\ x.mod = p.mod /\ x.claimed = p.claimed
                               /\ p = IF x \in PostsOf(r) THEN Detached(x) ELSE x
        BY <2>1
      <3>2. PICK y \in posts : /\ y.tenant = q.tenant /\ y.mod = q.mod /\ y.claimed = q.claimed
                               /\ q = IF y \in PostsOf(r) THEN Detached(y) ELSE y
        BY <2>1
      <3>3. x = y
        BY <2>3, <3>1, <3>2 DEF TrialInvariant
      <3> QED
        BY <3>1, <3>2, <3>3
    <2> QED
      BY <1>4, <2>2, <2>3 DEF GivesUp, TrialInvariant
  <1>5. ASSUME NEW p \in posts, tryClaimTrial(p)
        PROVE  TrialInvariant' /\ \A s \in subs' \ subs : s \notin granted
    <2> DEFINE q == [p EXCEPT !.claimed = TRUE]
    <2>1. p \in PostType /\ q.tenant = p.tenant /\ q.mod = p.mod
      BY <1>1 DEF PostType
    <2>2. CASE <<p.tenant, p.mod>> \in trials
      BY <1>5, <2>2 DEF tryClaimTrial, TrialInvariant
    <2>3. CASE <<p.tenant, p.mod>> \notin trials
      <3>1. /\ posts' = (posts \ {p}) \cup {q} /\ trials' = trials \cup {<<p.tenant, p.mod>>}
            /\ granted' = granted /\ subs' = subs
        BY <1>5, <2>3 DEF tryClaimTrial
      <3>2. \A x \in posts : x.claimed => <<x.tenant, x.mod>> # <<p.tenant, p.mod>>
        BY <2>3 DEF TrialInvariant
      <3>3. \A x \in posts : x.claimed => x.tenant # p.tenant \/ x.mod # p.mod
        BY <3>2
      <3> HIDE DEF q
      <3> QED
        BY <2>1, <2>3, <3>1, <3>3 DEF TrialInvariant
    <2> QED
      BY <2>2, <2>3
  <1>6. ASSUME NEW p \in posts, NEW o \in Outcomes, KillBillAnswers(p, o)
        PROVE  TrialInvariant' /\ \A s \in subs' \ subs : s \notin granted
    <2>1. p.claimed /\ posts' = posts \ {p} /\ <<p.tenant, p.mod>> \in trials \ granted
      BY <1>6 DEF KillBillAnswers, TrialInvariant
    <2>2. \A x \in posts' : x.claimed => x.tenant # p.tenant \/ x.mod # p.mod
      BY <2>1 DEF TrialInvariant
    <2>3. \A x \in posts' : x.claimed => <<x.tenant, x.mod>> # <<p.tenant, p.mod>>
      BY <2>2
    <2>4. CASE Done(o)
      <3>1. /\ subs' = subs \cup {<<p.tenant, p.mod>>} /\ granted' = granted \cup {<<p.tenant, p.mod>>}
            /\ trials' = trials
        BY <1>6, <2>4 DEF KillBillAnswers
      <3> QED
        BY <2>1, <2>3, <3>1 DEF TrialInvariant
    <2>5. CASE ~Done(o)
      <3>1. subs' = subs /\ granted' = granted /\ trials' = trials \ {<<p.tenant, p.mod>>}
        BY <1>6, <2>5 DEF KillBillAnswers, releaseTrialClaim
      <3> QED
        BY <2>1, <2>3, <3>1 DEF TrialInvariant
    <2> QED
      BY <2>4, <2>5
  <1> QED
    BY <1>2, <1>3, <1>4, <1>5, <1>6, BillingSteps DEF Gateway

\* The claims of the gateway are the invariant.
THEOREM TrialInvariantHolds == Spec => []TrialInvariant
  <1>1. Init => TrialInvariant
    BY DEF Init, TrialInvariant
  <1>2. Ground /\ TrialInvariant /\ [Next]_vars => TrialInvariant'
    BY TrialKept
  <1> QED
    BY <1>1, <1>2, GroundHolds, PTL DEF Spec

\* A free module is granted to a tenant once, however creations, edits, timeouts
\* and the gateway's answers come between each other.
THEOREM TrialOnceHolds == Spec => TrialOnce
  <1>1. Ground /\ TrialInvariant /\ [Next]_vars => [\A s \in subs' \ subs : s \notin granted]_vars
    BY TrialKept
  <1> QED
    BY <1>1, GroundHolds, TrialInvariantHolds, PTL DEF Spec, TrialOnce

-----------------------------------------------------------------------------
(* Users: who writes them, and what becomes of them. *)

\* User e is deleted, or is a new one without attributes.
Emptied(e) == kc'[e].tenant = NoTenant /\ kc'[e].role = "none" /\ kc'[e].id \in {0, made + 1}

\* Request r makes e the administrator of a new tenant, and goes on or is lost.
Founded(r, e) ==
    /\ req[r].op = "create" /\ req[r].pc \in {"user", "attach"} /\ req[r].email = e
    /\ kc'[e].role = "tenant_admin" /\ kc'[e].tenant \in used' \ used
    /\ kc'[e].id \in {kc[e].id, made + 1}
    /\ kc'[e].tenant \in orphans' \/ Creates(r, e, kc[e])'

\* Request r writes a user of its tenant back.
WrittenBy(r, e) ==
    /\ kc'[e].tenant = req[r].tenant /\ req[r].tenant \in used /\ kc'[e].id = kc[e].id
    /\ req[r].pc # "idle" /\ req[r].op \in {"upgrade", "edit", "create_user", "update_user"}
    /\ kc'[e].role = "tenant_admin" =>
         \E u \in Known(e) : u.role = "tenant_admin" /\ u.tenant = kc'[e].tenant /\ u.id = kc'[e].id
    /\ kc'[e].role = "tenant_module_user" /\ kc'[e].status = "active" =>
         e = req[r].email /\ \A m \in kc'[e].mods : Seats(req[r], m)

\* What request r may make of users.
Touches(r) ==
    \A e \in Emails : kc'[e] = kc[e] \/ Emptied(e) \/ Founded(r, e) \/ WrittenBy(r, e)

\* One user is replaced.
LEMMA Replaced ==
    ASSUME Ground, NEW e \in Emails, NEW u, kc' = [kc EXCEPT ![e] = u]
    PROVE  kc'[e] = u /\ \A f \in Emails \ {e} : kc'[f] = kc[f]
  BY Types

\* A creation.
LEMMA CreateTouches ==
    ASSUME Ground, NEW r \in Requests, create_account(r)
    PROVE  Touches(r)
  <1>1. req[r] \in RequestType /\ Stage(req[r], used, made)
    BY RequestFacts
  <1> DEFINE e == req[r].email
  <1>2. ASSUME NEW o \in Outcomes, CreateAdmin(r, o)
        PROVE  Touches(r)
    <2>1. req[r].op = "create" /\ req[r].pc = "user" /\ e \in Emails
      BY <1>1, <1>2 DEF CreateAdmin, At, Stage
    <2>2. CASE kc' = kc
      BY <2>2 DEF Touches
    <2>3. CASE kc' # kc
      <3>1. PICK t \in NewTenantId :
              /\ used' = used \cup {t} /\ made' = made + 1
              /\ kc' = [kc EXCEPT ![e] = Admin(t, req[r].mods, made')]
              /\ \/ t \in orphans'
                 \/ req' = [req EXCEPT ![r].pc = "account", ![r].tenant = t, ![r].id = made']
        BY <1>2, <2>3 DEF CreateAdmin, Outcomes, Done
      <3>2. t \notin used
        BY DEF NewTenantId
      <3>3. /\ kc'[e] = Admin(t, req[r].mods, made + 1)
            /\ \A f \in Emails \ {e} : kc'[f] = kc[f]
        BY <2>1, <3>1, Replaced
      <3>4. kc'[e].role = "tenant_admin" /\ kc'[e].tenant = t /\ kc'[e].id = made + 1
        BY <3>3 DEF Admin
      <3>5. t \in orphans' \/ Creates(r, e, kc[e])'
        <4>1. ASSUME NEW n, n = made', req' = [req EXCEPT ![r].pc = "account", ![r].tenant = t, ![r].id = n]
              PROVE  /\ req'[r].op = "create" /\ req'[r].pc = "account" /\ req'[r].email = e
                     /\ req'[r].tenant = t /\ req'[r].id = n
          BY <1>1, <2>1, <4>1, Types DEF RequestType
        <4> QED
          BY <3>1, <3>4, <4>1 DEF Creates
      <3>6. Founded(r, e)
        BY <2>1, <3>1, <3>2, <3>4, <3>5 DEF Founded
      <3> QED
        BY <3>3, <3>6 DEF Touches
    <2> QED
      BY <2>2, <2>3
  <1>3. ASSUME NEW o \in Outcomes, AttachTenant(r, o)
        PROVE  Touches(r)
    <2>1. req[r].op = "create" /\ req[r].pc = "attach" /\ e \in Emails
      BY <1>1, <1>3 DEF AttachTenant, At, Stage
    <2>2. CASE kc' = kc
      BY <2>2 DEF Touches
    <2>3. CASE kc' # kc
      <3>1. PICK t \in NewTenantId :
              /\ used' = used \cup {t}
              /\ kc' = PutUser(e, Admin(t, req[r].mods, req[r].id))
              /\ \/ t \in orphans' \/ kc[e].id # req[r].id
                 \/ req' = [req EXCEPT ![r].pc = "account", ![r].tenant = t]
        BY <1>3, <2>3 DEF AttachTenant, Outcomes, Done
      <3>2. t \notin used
        BY DEF NewTenantId
      <3> DEFINE u == Admin(t, req[r].mods, req[r].id)
      <3>3. u.id = req[r].id /\ u.tenant = t /\ u.role = "tenant_admin"
        BY DEF Admin
      <3>4. kc' = [kc EXCEPT ![e] = u] /\ kc[e].id = u.id
        BY <2>1, <2>3, <3>1, PutFacts
      <3> HIDE DEF u
      <3>5. kc'[e] = u /\ \A f \in Emails \ {e} : kc'[f] = kc[f]
        BY <2>1, <3>4, Replaced
      <3>6. t \in orphans' \/ Creates(r, e, kc[e])'
        <4>1. ASSUME req' = [req EXCEPT ![r].pc = "account", ![r].tenant = t]
              PROVE  /\ req'[r].op = "create" /\ req'[r].pc = "account" /\ req'[r].email = e
                     /\ req'[r].tenant = t /\ req'[r].id = req[r].id
          BY <1>1, <2>1, <4>1, Types DEF RequestType
        <4> QED
          BY <3>1, <3>3, <3>4, <3>5, <4>1 DEF Creates
      <3>7. Founded(r, e)
        BY <2>1, <3>1, <3>2, <3>3, <3>4, <3>5, <3>6 DEF Founded
      <3> QED
        BY <3>5, <3>7 DEF Touches
    <2> QED
      BY <2>2, <2>3
  <1>4. ASSUME NEW o \in Outcomes, Rollback(r, o)
        PROVE  Touches(r)
    <2>1. e \in Emails
      BY <1>1, <1>4 DEF Rollback, At, Stage
    <2>2. kc' = [kc EXCEPT ![e] = NoUser] \/ kc' = kc
      BY <1>4, <2>1, PutFacts DEF Rollback
    <2> QED
      BY <2>1, <2>2, Replaced, Blanks DEF Touches, Emptied
  <1>5. ASSUME NEW o \in Outcomes, CreateKbAccount(r, o) \/ SubscribeAll(r, o) \/ AutoKey(r, o)
        PROVE  Touches(r)
    BY <1>5 DEF CreateKbAccount, SubscribeAll, AutoKey, Touches
  <1>6. ASSUME AllSubscribed(r) \/ SubscribeTimesOut(r)
        PROVE  Touches(r)
    BY <1>6 DEF AllSubscribed, SubscribeTimesOut, Touches
  <1> QED
    BY <1>2, <1>3, <1>4, <1>5, <1>6 DEF create_account

\* A deletion.
LEMMA DeleteTouches ==
    ASSUME Ground, NEW r \in Requests, delete_account(r)
    PROVE  Touches(r)
  <1>1. ASSUME NEW o \in Outcomes, NEW e \in Emails, DeleteOne(r, e, o)
        PROVE  Touches(r)
    <2>1. kc' = [kc EXCEPT ![e] = NoUser] \/ kc' = kc
      BY <1>1 DEF DeleteOne
    <2> QED
      BY <2>1, Replaced, Blanks DEF Touches, Emptied
  <1>2. ASSUME NEW o \in Outcomes, DeleteFind(r, o) \/ PurgeTenant(r, o) \/ CancelSubs(r, o)
        PROVE  Touches(r)
    BY <1>2 DEF DeleteFind, PurgeTenant, CancelSubs, Touches
  <1>3. ASSUME DeleteKeys(r)
        PROVE  Touches(r)
    BY <1>3 DEF DeleteKeys, Touches
  <1> QED
    BY <1>1, <1>2, <1>3 DEF delete_account

\* A user that is written back by its id.
LEMMA PutTouches ==
    ASSUME Ground, NEW r \in Requests, NEW e \in Emails, NEW u \in Users,
           kc' = PutUser(e, u) \/ kc' = kc,
           u.tenant = req[r].tenant, req[r].tenant \in used, req[r].pc # "idle",
           req[r].op \in {"upgrade", "edit", "create_user", "update_user"},
           u.role = "tenant_admin" =>
              \E w \in Known(e) : w.role = "tenant_admin" /\ w.tenant = u.tenant /\ w.id = u.id,
           u.role = "tenant_module_user" /\ u.status = "active" =>
              e = req[r].email /\ \A m \in u.mods : Seats(req[r], m)
    PROVE  Touches(r)
  <1>1. CASE kc' = kc
    BY <1>1 DEF Touches
  <1>2. CASE kc' # kc
    <2>1. kc' = [kc EXCEPT ![e] = u] /\ kc[e].id = u.id
      BY <1>2, PutFacts
    <2>2. kc'[e] = u /\ \A f \in Emails \ {e} : kc'[f] = kc[f]
      BY <2>1, Replaced
    <2>3. WrittenBy(r, e)
      BY <2>1, <2>2 DEF WrittenBy
    <2> QED
      BY <2>2, <2>3 DEF Touches
  <1> QED
    BY <1>1, <1>2

\* An upgrade.
LEMMA UpgradeTouches ==
    ASSUME Ground, NEW r \in Requests, upgrade_account(r)
    PROVE  Touches(r)
  <1>1. req[r] \in RequestType /\ Stage(req[r], used, made)
    BY RequestFacts
  <1>2. ASSUME NEW o \in Outcomes, UpgradePut(r, o)
        PROVE  Touches(r)
    <2> DEFINE e == req[r].email
               u == req[r].seen[e]
    <2>1. req[r].op = "upgrade" /\ req[r].pc = "put" /\ (kc' = PutUser(e, u) \/ kc' = kc)
      BY <1>2 DEF UpgradePut, At
    <2>2. e \in Emails /\ u.tenant = req[r].tenant /\ req[r].tenant \in used
      BY <1>1, <2>1 DEF Stage
    <2>3. u \in Users /\ u \in Known(e)
      BY <2>2, RequestFacts
    <2>4. u.role = "tenant_module_user" /\ u.status = "active" => \A m \in u.mods : Seats(req[r], m)
      BY <2>1 DEF Seats
    <2> HIDE DEF u
    <2> QED
      BY <2>1, <2>2, <2>3, <2>4, PutTouches
  <1>3. ASSUME NEW o \in Outcomes, UpgradeKeys(r, o)
        PROVE  Touches(r)
    BY <1>3 DEF UpgradeKeys, Touches
  <1> QED
    BY <1>2, <1>3 DEF upgrade_account

\* An edit disables users, and enables administrators alone.
LEMMA EditTouches ==
    ASSUME Ground, NEW r \in Requests, edit_account(r)
    PROVE  Touches(r)
  <1>1. req[r] \in RequestType /\ Stage(req[r], used, made)
    BY RequestFacts
  <1>2. ASSUME NEW o \in Outcomes, EditPut(r, o)
        PROVE  Touches(r)
    <2> DEFINE e == req[r].email
               w == req[r].seen[e]
               u == [w EXCEPT !.status = req[r].status]
    <2>1. req[r].op = "edit" /\ req[r].pc = "put" /\ (kc' = PutUser(e, u) \/ kc' = kc)
      BY <1>2 DEF EditPut, At
    <2>2. e \in Emails /\ w.tenant = req[r].tenant /\ w.role = "tenant_admin" /\ req[r].tenant \in used
      BY <1>1, <2>1 DEF Stage
    <2>3. w \in Users /\ w \in Known(e)
      BY <2>2, RequestFacts
    <2>4. u \in Users /\ u.tenant = w.tenant /\ u.role = w.role /\ u.id = w.id
      BY <1>1, <2>3 DEF Users, RequestType
    <2> HIDE DEF u, w
    <2> QED
      BY <2>1, <2>2, <2>3, <2>4, PutTouches
  <1>3. ASSUME NEW o \in Outcomes, NEW e \in Emails, CascadePut(r, e, o)
        PROVE  Touches(r)
    <2> DEFINE w == req[r].seen[e]
               u == [w EXCEPT !.status = "inactive"]
    <2>1. /\ req[r].op = "edit" /\ req[r].pc = "disable" /\ e \in req[r].todo
          /\ kc' = PutUser(e, u) \/ kc' = kc
      BY <1>3 DEF CascadePut, At
    <2>2. w.tenant = req[r].tenant /\ w.role \in SubRoles /\ req[r].tenant \in used
      BY <1>1, <2>1 DEF Stage
    <2>3. w \in Users
      BY RequestFacts
    <2>4. /\ u \in Users /\ u.tenant = w.tenant /\ u.role = w.role /\ u.id = w.id
          /\ u.status = "inactive"
      BY <2>3 DEF Users, Statuses
    <2>5. u.role # "tenant_admin"
      BY <2>2, <2>4 DEF SubRoles
    <2> HIDE DEF u, w
    <2> QED
      BY <2>1, <2>2, <2>4, <2>5, PutTouches
  <1>4. ASSUME NEW o \in Outcomes, SyncSubs(r, o) \/ CascadeList(r, o)
        PROVE  Touches(r)
    BY <1>4 DEF SyncSubs, CascadeList, Touches
  <1>5. ASSUME NEW m \in Modules, AddSub(r, m)
        PROVE  Touches(r)
    BY <1>5 DEF AddSub, Touches
  <1>6. ASSUME AddTimesOut(r) \/ Synced(r) \/ CascadeDone(r)
        PROVE  Touches(r)
    BY <1>6 DEF AddTimesOut, Synced, CascadeDone, Touches
  <1> QED
    BY <1>2, <1>3, <1>4, <1>5, <1>6 DEF edit_account

\* A user is made for a tenant.
LEMMA CreateUserTouches ==
    ASSUME Ground, NEW r \in Requests, create_user(r)
    PROVE  Touches(r)
  <1>1. req[r] \in RequestType /\ Stage(req[r], used, made)
    BY RequestFacts
  <1> DEFINE e == req[r].email
  <1>2. ASSUME NEW o \in Outcomes, CheckLimits(r, o)
        PROVE  Touches(r)
    BY <1>2 DEF CheckLimits, Touches
  <1>3. ASSUME NEW o \in Outcomes, PostKeycloakUser(r, o)
        PROVE  Touches(r)
    <2>1. e \in Emails
      BY <1>1, <1>3 DEF PostKeycloakUser, At, Stage
    <2>2. kc' = [kc EXCEPT ![e] = Bare(made + 1)] \/ kc' = kc
      BY <1>3 DEF PostKeycloakUser
    <2>3. Bare(made + 1).tenant = NoTenant /\ Bare(made + 1).role = "none" /\ Bare(made + 1).id = made + 1
      BY Blanks DEF Bare, Users
    <2> QED
      BY <2>1, <2>2, <2>3, Replaced DEF Touches, Emptied
  <1>4. ASSUME NEW o \in Outcomes, WriteAttributes(r, o)
        PROVE  Touches(r)
    <2> DEFINE mods == IF req[r].role = "tenant_module_user" THEN req[r].mods ELSE {}
               u == [tenant |-> req[r].tenant, role |-> req[r].role, status |-> req[r].status,
                     id |-> req[r].id, mods |-> mods]
    <2>1. /\ req[r].op = "create_user" /\ req[r].pc = "attrs"
          /\ kc' = PutUser(e, u) \/ kc' = [kc EXCEPT ![e] = NoUser]
      BY <1>4 DEF WriteAttributes, At
    <2>2. /\ e \in Emails /\ req[r].role \in SubRoles /\ req[r].tenant \in used
      BY <1>1, <2>1 DEF Stage
    <2>3. CASE kc' = [kc EXCEPT ![e] = NoUser]
      BY <2>2, <2>3, Replaced, Blanks DEF Touches, Emptied
    <2>4. CASE kc' = PutUser(e, u)
      <3>1. mods \subseteq Modules /\ req[r].tenant \in Tenants
        BY <1>1, <2>2, Types DEF RequestType
      <3>2. /\ u.tenant = req[r].tenant /\ u.role = req[r].role /\ u.status = req[r].status
            /\ u.mods = mods
        OBVIOUS
      <3>3. u \in Users
        <4> HIDE DEF mods
        <4> QED
          BY <1>1, <2>2, <3>1 DEF RequestType, Users, SubRoles, Roles
      <3>4. u.role # "tenant_admin"
        BY <2>2, <3>2 DEF SubRoles
      <3>5. u.role = "tenant_module_user" /\ u.status = "active" => \A m \in u.mods : Seats(req[r], m)
        BY <2>1, <3>2 DEF Seats
      <3> HIDE DEF u
      <3> QED
        BY <2>1, <2>2, <2>4, <3>2, <3>3, <3>4, <3>5, PutTouches
    <2> QED
      BY <2>1, <2>3, <2>4
  <1> QED
    BY <1>2, <1>3, <1>4 DEF create_user

\* A user is changed.
LEMMA UpdateUserTouches ==
    ASSUME Ground, NEW r \in Requests, update_user(r)
    PROVE  Touches(r)
  <1>1. req[r] \in RequestType /\ Stage(req[r], used, made)
    BY RequestFacts
  <1>2. ASSUME NEW o \in Outcomes, CheckUpdate(r, o)
        PROVE  Touches(r)
    BY <1>2 DEF CheckUpdate, Touches
  <1>3. ASSUME NEW o \in Outcomes, UpdatePut(r, o)
        PROVE  Touches(r)
    <2> DEFINE e == req[r].email
               w == req[r].seen[e]
               u == [w EXCEPT !.status = req[r].status, !.mods = req[r].mods]
    <2>1. /\ req[r].op = "update_user" /\ req[r].pc = "put"
          /\ kc' = PutUser(e, u) \/ kc' = kc
      BY <1>3 DEF UpdatePut, At
    <2>2. e \in Emails /\ w.tenant = req[r].tenant /\ req[r].tenant \in used
      BY <1>1, <2>1 DEF Stage
    <2>3. w \in Users /\ w \in Known(e)
      BY <2>2, RequestFacts
    <2>4. /\ u \in Users /\ u.tenant = w.tenant /\ u.role = w.role /\ u.id = w.id
          /\ u.status = req[r].status /\ u.mods = req[r].mods
      BY <1>1, <2>3 DEF Users, RequestType
    <2>5. u.role = "tenant_module_user" /\ u.status = "active" => \A m \in u.mods : Seats(req[r], m)
      BY <2>1, <2>4 DEF Seats
    <2> HIDE DEF u, w
    <2> QED
      BY <2>1, <2>2, <2>3, <2>4, <2>5, PutTouches
  <1> QED
    BY <1>2, <1>3 DEF update_user

\* A user is deleted.
LEMMA DeleteUserTouches ==
    ASSUME Ground, NEW r \in Requests, delete_user(r)
    PROVE  Touches(r)
  <1>1. PICK o \in Outcomes :
            /\ At(r, "delete_user", "del")
            /\ kc' = IF Done(o) THEN DeleteUser(req[r].email, req[r].id) ELSE kc
    BY DEF delete_user
  <1>2. Stage(req[r], used, made) /\ req[r].pc = "del"
    BY <1>1, RequestFacts DEF At
  <1>3. req[r].email \in Emails
    BY <1>2 DEF Stage
  <1>4. kc' = [kc EXCEPT ![req[r].email] = NoUser] \/ kc' = kc
    BY <1>1, <1>3, PutFacts
  <1> QED
    BY <1>3, <1>4, Replaced, Blanks DEF Touches, Emptied

\* What a step makes of a user.
LEMMA UserSteps ==
    ASSUME Ground, [Next]_vars, NEW e \in Emails
    PROVE  kc'[e] = kc[e] \/ Emptied(e) \/ \E r \in Requests : Founded(r, e) \/ WrittenBy(r, e)
  <1>1. CASE Arrive
    BY <1>1, Arrivals DEF Begin
  <1>2. CASE Handle
    <2>1. PICK r \in Requests :
            \/ create_account(r) \/ delete_account(r) \/ upgrade_account(r) \/ edit_account(r)
            \/ create_user(r) \/ update_user(r) \/ delete_user(r)
      BY <1>2 DEF Handle
    <2>2. Touches(r)
      BY <2>1, CreateTouches, DeleteTouches, UpgradeTouches, EditTouches, CreateUserTouches,
         UpdateUserTouches, DeleteUserTouches
    <2> QED
      BY <2>2 DEF Touches
  <1>3. CASE Gateway
    BY <1>3 DEF Gateway, tryClaimTrial, KillBillAnswers
  <1>4. CASE Tokens
    <2>1. ASSUME NEW f \in Emails, FederatedLogin(f)
          PROVE  kc'[e] = kc[e] \/ Emptied(e)
      <3>1. kc' = [kc EXCEPT ![f] = Bare(made + 1)]
        BY <2>1 DEF FederatedLogin
      <3>2. Bare(made + 1).tenant = NoTenant /\ Bare(made + 1).role = "none" /\ Bare(made + 1).id = made + 1
        BY Blanks DEF Bare, Users
      <3> QED
        BY <3>1, <3>2, Replaced DEF Emptied
    <2>2. CASE ~\E f \in Emails : FederatedLogin(f)
      BY <1>4, <2>2 DEF Tokens, generate_user_token, generate_token, revoke_api_key, UseToken,
                        purge_tenant
    <2> QED
      BY <2>1, <2>2
  <1>5. CASE UNCHANGED vars
    BY <1>5 DEF vars
  <1> QED
    BY <1>1, <1>2, <1>3, <1>4, <1>5 DEF Next

-----------------------------------------------------------------------------
(* Requests: where a step leaves them, and what it takes away or adds. *)

\* Request r goes on about its tenant, and neither deletes nor seats anybody next.
Onward(r) ==
    /\ req'[r].op = req[r].op /\ req'[r].email = req[r].email /\ req'[r].tenant = req[r].tenant
    /\ req[r].op # "delete"
    /\ req'[r].pc \notin {"idle", "user", "attach", "find", "post", "attrs", "put", "account"}
    /\ req'[r].pc = "rollback" => faults' >= 1 \/ req[r].pc = "rollback"

\* A creation gets its tenant.
Settles(r) ==
    /\ req[r].op = "create" /\ req'[r].op = "create" /\ req'[r].pc = "account"
    /\ req'[r].tenant \in used' \ used

\* A deletion finds its tenant and, if nothing failed, all there is to delete.
Finds(r) ==
    LET e == req[r].email
        t == kc[e].tenant
    IN /\ req[r].op = "delete" /\ req'[r].op = "delete" /\ req'[r].pc = "users" /\ req'[r].tenant = t /\ t # NoTenant
       /\ e \in Emails /\ kc' = kc
       /\ Races(t) \/ kc[e].role \in SubRoles => t \in raced'
       /\ ~req'[r].bad => req'[r].todo = {e} \cup SubUsers(t)

\* A deletion goes on.
Deletes(r) ==
    /\ req[r].op = "delete" /\ req'[r].op = "delete" /\ req'[r].tenant = req[r].tenant
    /\ req'[r].pc \in {"users", "purge", "cancel"}
    /\ ~req'[r].bad => ~req[r].bad /\ (Removed(req[r], req[r].tenant) => Removed(req[r], req[r].tenant)')

\* Request r may seat a user, who has a seat or for whom there is one.
Admits(r) ==
    /\ req'[r].op = req[r].op /\ req'[r].email = req[r].email /\ req'[r].tenant = req[r].tenant
    /\ req[r].op \in {"create_user", "update_user"} /\ req[r].tenant \in used
    /\ req'[r].pc \in {"post", "attrs", "put"} /\ req[r].email \in Emails
    /\ \A m \in Modules :
         Seats(req'[r], m) =>
            \/ Seats(req[r], m) \/ req[r].tenant \in raced'
            \/ /\ kc' = kc
               /\ \/ count_active_users_per_module(req[r].tenant, m) < SeatLimit
                  \/ req[r].email \in Seated(req[r].tenant, m)

\* A deletion ends.
Closes(r) ==
    /\ req[r].op = "delete" /\ req[r].pc = "cancel" /\ req'[r] = Idle /\ req[r].tenant \in used
    /\ kc' = kc /\ keys' = keys /\ data' = data /\ secrets' = secrets /\ posts' = posts
    /\ \A t \in gone' \ gone :
         t = req[r].tenant /\ ~req[r].bad /\ \A m \in Modules : <<t, m>> \notin subs'

\* Only request r moves.
Moves(r) ==
    /\ \A s \in Requests \ {r} : req'[s] = req[s]
    /\ \A e \in Emails : req'[r].seen[e] \in Known(e) \cup {NoUser}
    /\ req'[r] = Idle \/ Onward(r) \/ Settles(r) \/ Finds(r) \/ Deletes(r) \/ Admits(r)

\* What request r leaves alone.
Spares(r) ==
    /\ req[r].pc # "idle"
    /\ accounts \subseteq accounts' /\ orphans \subseteq orphans' /\ raced \subseteq raced'
    /\ faults <= faults' /\ data' \subseteq data /\ secrets' \subseteq secrets
    /\ \A t \in Tenants :
         \/ keys'[t] = keys[t] \/ keys'[t] = {}
         \/ t = req[r].tenant /\ req[r].op \in {"create", "upgrade"}
    /\ gone' = gone \/ Closes(r)

\* A request that ends.
LEMMA FinishMoves ==
    ASSUME Ground, NEW r \in Requests, Finish(r)
    PROVE  Moves(r) /\ req'[r] = Idle
  BY Types, Blanks DEF Finish, Moves

\* A request that goes on to another place.
LEMMA GotoMoves ==
    ASSUME Ground, NEW r \in Requests, NEW pc \in Places, Goto(r, pc)
    PROVE  /\ \A s \in Requests \ {r} : req'[s] = req[s]
           /\ \A e \in Emails : req'[r].seen[e] \in Known(e) \cup {NoUser}
           /\ req'[r].op = req[r].op /\ req'[r].email = req[r].email
           /\ req'[r].tenant = req[r].tenant /\ req'[r].pc = pc /\ req'[r].id = req[r].id
           /\ req'[r].bad = req[r].bad /\ req'[r].seen = req[r].seen
           /\ req'[r].role = req[r].role /\ req'[r].status = req[r].status
           /\ req'[r].mods = req[r].mods
  BY RequestFacts, Types DEF Goto, RequestType

\* So does a creation that is undone.
LEMMA ToRollbackMoves ==
    ASSUME Ground, NEW r \in Requests, NEW n, ToRollback(r, n)
    PROVE  /\ \A s \in Requests \ {r} : req'[s] = req[s]
           /\ \A e \in Emails : req'[r].seen[e] \in Known(e) \cup {NoUser}
           /\ req'[r].op = req[r].op /\ req'[r].email = req[r].email
           /\ req'[r].tenant = req[r].tenant /\ req'[r].pc = "rollback" /\ req'[r].id = req[r].id
  BY RequestFacts, Types DEF ToRollback, RequestType

\* A creation.
LEMMA CreateMoves ==
    ASSUME Ground, NEW r \in Requests, create_account(r)
    PROVE  Moves(r)
  <1>1. req[r] \in RequestType /\ Stage(req[r], used, made) /\ {"plans", "subs", "key"} \subseteq Places
    BY RequestFacts DEF Places
  <1>2. ASSUME NEW o \in Outcomes, CreateAdmin(r, o)
        PROVE  Moves(r)
    <2>1. CASE Finish(r)
      BY <2>1, FinishMoves
    <2>2. CASE ~Finish(r)
      <3>1. PICK t \in NewTenantId :
              /\ used' = used \cup {t}
              /\ req' = [req EXCEPT ![r].pc = "account", ![r].tenant = t, ![r].id = made']
        BY <1>2, <2>2 DEF CreateAdmin
      <3>2. t \notin used /\ req[r].op = "create"
        BY <1>2 DEF NewTenantId, CreateAdmin, At
      <3>3. PICK n : n = made'
        OBVIOUS
      <3>4. /\ \A s \in Requests \ {r} : req'[s] = req[s]
            /\ req'[r].seen = req[r].seen /\ req'[r].op = req[r].op
            /\ req'[r].pc = "account" /\ req'[r].tenant = t
        <4>1. req' = [req EXCEPT ![r].pc = "account", ![r].tenant = t, ![r].id = n]
          BY <3>1, <3>3
        <4> QED
          BY <1>1, <4>1, Types DEF RequestType
      <3>5. Settles(r)
        BY <3>1, <3>2, <3>4 DEF Settles
      <3> QED
        BY <3>4, <3>5, RequestFacts DEF Moves
    <2> QED
      BY <2>1, <2>2
  <1>3. ASSUME NEW o \in Outcomes, AttachTenant(r, o)
        PROVE  Moves(r)
    <2>1. CASE Finish(r)
      BY <2>1, FinishMoves
    <2>2. CASE ~Finish(r)
      <3>1. PICK t \in NewTenantId :
              /\ used' = used \cup {t}
              /\ req' = [req EXCEPT ![r].pc = "account", ![r].tenant = t]
        BY <1>3, <2>2 DEF AttachTenant
      <3>2. t \notin used /\ req[r].op = "create"
        BY <1>3 DEF NewTenantId, AttachTenant, At
      <3>3. /\ \A s \in Requests \ {r} : req'[s] = req[s]
            /\ req'[r].seen = req[r].seen /\ Settles(r)
        BY <1>1, <3>1, <3>2, Types DEF RequestType, Settles
      <3> QED
        BY <3>3, RequestFacts DEF Moves
    <2> QED
      BY <2>1, <2>2
  <1>4. ASSUME NEW n, ToRollback(r, n), req[r].op = "create", faults' >= 1 \/ req[r].pc = "rollback"
        PROVE  Moves(r)
    BY <1>4, ToRollbackMoves DEF Moves, Onward
  <1>5. ASSUME NEW pc \in {"plans", "subs", "key"}, Goto(r, pc), req[r].op = "create"
        PROVE  Moves(r)
    BY <1>1, <1>5, GotoMoves DEF Moves, Onward
  <1>6. ASSUME NEW o \in Outcomes, CreateKbAccount(r, o)
        PROVE  Moves(r)
    <2>1. /\ req[r].op = "create" /\ (o # "ok" => faults' >= 1)
          /\ Goto(r, "plans") \/ (ToRollback(r, 1) /\ o # "ok")
      BY <1>6, CallCounts DEF CreateKbAccount, At
    <2> QED
      BY <1>4, <1>5, <2>1
  <1>7. ASSUME NEW o \in Outcomes, SubscribeAll(r, o)
        PROVE  Moves(r)
    <2>1. /\ req[r].op = "create" /\ (o # "ok" => faults' >= 1)
          /\ Goto(r, "subs") \/ (ToRollback(r, 2) /\ o # "ok")
      BY <1>7, CallCounts DEF SubscribeAll, At
    <2> QED
      BY <1>4, <1>5, <2>1
  <1>8. ASSUME SubscribeTimesOut(r)
        PROVE  Moves(r)
    <2>1. req[r].op = "create" /\ faults' >= 1 /\ ToRollback(r, 2)
      BY <1>8, CallCounts DEF SubscribeTimesOut, At, Outcomes
    <2> QED
      BY <1>4, <2>1
  <1>9. ASSUME NEW o \in Outcomes, Rollback(r, o)
        PROVE  Moves(r)
    <2>1. /\ req[r].op = "create" /\ req[r].pc = "rollback"
          /\ ToRollback(r, req[r].tries - 1) \/ Finish(r)
      BY <1>9 DEF Rollback, At
    <2> QED
      BY <1>4, <2>1, FinishMoves
  <1>10. ASSUME NEW o \in Outcomes, AutoKey(r, o)
         PROVE  Moves(r)
    BY <1>10, FinishMoves DEF AutoKey
  <1>11. ASSUME AllSubscribed(r)
         PROVE  Moves(r)
    BY <1>5, <1>11 DEF AllSubscribed, At
  <1> QED
    BY <1>2, <1>3, <1>6, <1>7, <1>8, <1>9, <1>10, <1>11 DEF create_account

\* A deletion.
LEMMA DeleteMoves ==
    ASSUME Ground, NEW r \in Requests, delete_account(r)
    PROVE  Moves(r)
  <1>1. req[r] \in RequestType /\ Stage(req[r], used, made) /\ req \in [Requests -> RequestType]
    BY RequestFacts, Types
  <1>2. ASSUME NEW x, req' = [req EXCEPT ![r] = x], x.seen = req[r].seen, Finds(r) \/ Deletes(r)
        PROVE  Moves(r)
    BY <1>1, <1>2, RequestFacts DEF Moves
  <1>3. ASSUME NEW o \in Outcomes, DeleteFind(r, o)
        PROVE  Moves(r)
    <2> DEFINE e == req[r].email
               t == kc[e].tenant
    <2>1. CASE Finish(r)
      BY <2>1, FinishMoves
    <2>2. CASE ~Finish(r)
      <3>1. PICK b \in BOOLEAN : b = (o # "ok")
        OBVIOUS
      <3> DEFINE S == {e} \cup IF o = "ok" THEN SubUsers(t) ELSE {}
                 x == [req[r] EXCEPT !.pc = "users", !.tenant = t, !.bad = b, !.todo = S]
      <3>2. /\ req[r].op = "delete" /\ req[r].pc = "find" /\ t # NoTenant
            /\ req' = [req EXCEPT ![r] = x] /\ kc' = kc
            /\ Races(t) \/ kc[e].role \in SubRoles => t \in raced'
        BY <1>3, <2>2, <3>1 DEF DeleteFind, At
      <3>3. e \in Emails
        BY <1>1, <3>2 DEF Stage
      <3>4. /\ x.op = "delete" /\ x.pc = "users" /\ x.tenant = t /\ x.bad = b /\ x.todo = S
            /\ x.seen = req[r].seen
        BY <1>1, <3>2 DEF RequestType
      <3>5. req'[r] = x
        BY <1>1, <3>2
      <3>6. ~b => S = {e} \cup SubUsers(t)
        BY <3>1
      <3> HIDE DEF x, S
      <3>7. Finds(r)
        BY <3>2, <3>3, <3>4, <3>5, <3>6 DEF Finds
      <3> QED
        BY <1>2, <3>2, <3>4, <3>7
    <2> QED
      BY <2>1, <2>2
  <1>4. ASSUME NEW o \in Outcomes, NEW f \in Emails, DeleteOne(r, f, o)
        PROVE  Moves(r)
    <2>1. CASE Finish(r)
      BY <2>1, FinishMoves
    <2>2. CASE ~Finish(r)
      <3>1. PICK b \in BOOLEAN : b = (req[r].bad \/ o # "ok")
        OBVIOUS
      <3> DEFINE x == [req[r] EXCEPT !.todo = req[r].todo \ {f}, !.bad = b]
      <3>2. /\ req[r].op = "delete" /\ req[r].pc = "users" /\ req' = [req EXCEPT ![r] = x]
            /\ o = "ok" => kc' = [kc EXCEPT ![f] = NoUser]
        BY <1>4, <2>2, <3>1 DEF DeleteOne, At, Done
      <3>3. /\ x.op = "delete" /\ x.pc = "users" /\ x.tenant = req[r].tenant /\ x.bad = b
            /\ x.todo = req[r].todo \ {f} /\ x.seen = req[r].seen
        BY <1>1, <3>2 DEF RequestType
      <3>4. req'[r] = x
        BY <1>1, <3>2
      <3> HIDE DEF x
      <3>5. ASSUME ~b
            PROVE  o = "ok" /\ ~req[r].bad /\ kc'[f] = NoUser /\ \A g \in Emails \ {f} : kc'[g] = kc[g]
        BY <3>1, <3>2, <3>5, Replaced
      <3>6. req[r].tenant # NoTenant
        BY <1>1, <3>2, Types, TenantAssumption DEF Stage
      <3>7. ASSUME ~b, Removed(req[r], req[r].tenant)
            PROVE  Removed(req[r], req[r].tenant)'
        BY <3>2, <3>3, <3>4, <3>5, <3>6, <3>7, Blanks DEF Removed
      <3>8. Deletes(r)
        BY <3>2, <3>3, <3>4, <3>5, <3>7 DEF Deletes
      <3> QED
        BY <1>2, <3>2, <3>3, <3>8
    <2> QED
      BY <2>1, <2>2
  <1>5. ASSUME DeleteKeys(r)
        PROVE  Moves(r)
    <2>1. /\ req[r].op = "delete" /\ req[r].pc = "users" /\ req[r].todo = {} /\ Goto(r, "purge")
          /\ kc' = kc /\ keys' = [keys EXCEPT ![req[r].tenant] = {}]
      BY <1>5 DEF DeleteKeys, At
    <2>2. req[r].tenant \in Tenants
      BY <1>1, <2>1, Types DEF Stage
    <2>3. keys'[req[r].tenant] = {}
      BY <2>1, <2>2, Types
    <2>4. /\ \A s \in Requests \ {r} : req'[s] = req[s]
          /\ \A e \in Emails : req'[r].seen[e] \in Known(e) \cup {NoUser}
          /\ req'[r].op = "delete" /\ req'[r].tenant = req[r].tenant /\ req'[r].pc = "purge"
          /\ req'[r].bad = req[r].bad
      BY <2>1, GotoMoves DEF Places
    <2>5. Removed(req[r], req[r].tenant) => Removed(req[r], req[r].tenant)'
      BY <2>1, <2>3, <2>4 DEF Removed
    <2> QED
      BY <2>1, <2>4, <2>5 DEF Deletes, Moves
  <1>6. ASSUME NEW o \in Outcomes, PurgeTenant(r, o)
        PROVE  Moves(r)
    <2>1. PICK b \in BOOLEAN : b = (req[r].bad \/ o # "ok")
      OBVIOUS
    <2> DEFINE x == [req[r] EXCEPT !.pc = "cancel", !.bad = b]
    <2>2. /\ req[r].op = "delete" /\ req[r].pc = "purge" /\ req' = [req EXCEPT ![r] = x]
          /\ kc' = kc /\ keys' = keys
          /\ o = "ok" => data' = data \ {req[r].tenant} /\ secrets' = secrets \ {req[r].tenant}
      BY <1>6, <2>1 DEF PurgeTenant, At, purge
    <2>3. /\ x.op = "delete" /\ x.pc = "cancel" /\ x.tenant = req[r].tenant /\ x.bad = b
          /\ x.seen = req[r].seen
      BY <1>1, <2>2 DEF RequestType
    <2>4. req'[r] = x
      BY <1>1, <2>2
    <2> HIDE DEF x
    <2>5. ~b => o = "ok" /\ ~req[r].bad
      BY <2>1
    <2>6. ASSUME ~b, Removed(req[r], req[r].tenant)
          PROVE  Removed(req[r], req[r].tenant)'
      BY <2>2, <2>3, <2>4, <2>5, <2>6 DEF Removed
    <2>7. Deletes(r)
      BY <2>2, <2>3, <2>4, <2>5, <2>6 DEF Deletes
    <2> QED
      BY <1>2, <2>2, <2>3, <2>7
  <1>7. ASSUME NEW o \in Outcomes, CancelSubs(r, o)
        PROVE  Moves(r)
    BY <1>7, FinishMoves DEF CancelSubs
  <1> QED
    BY <1>3, <1>4, <1>5, <1>6, <1>7 DEF delete_account

\* An upgrade.
LEMMA UpgradeMoves ==
    ASSUME Ground, NEW r \in Requests, upgrade_account(r)
    PROVE  Moves(r)
  <1>1. ASSUME NEW o \in Outcomes, UpgradePut(r, o)
        PROVE  Moves(r)
    <2>1. req[r].op = "upgrade" /\ (Goto(r, "keys") \/ Finish(r)) /\ "keys" \in Places
      BY <1>1 DEF UpgradePut, At, Places
    <2> QED
      BY <2>1, FinishMoves, GotoMoves DEF Moves, Onward
  <1>2. ASSUME NEW o \in Outcomes, UpgradeKeys(r, o)
        PROVE  Moves(r)
    BY <1>2, FinishMoves DEF UpgradeKeys
  <1> QED
    BY <1>1, <1>2 DEF upgrade_account

\* An edit.
LEMMA EditMoves ==
    ASSUME Ground, NEW r \in Requests, edit_account(r)
    PROVE  Moves(r)
  <1>1. req[r] \in RequestType /\ req \in [Requests -> RequestType] /\ {"sync", "cascade"} \subseteq Places
    BY RequestFacts, Types DEF Places
  <1>2. ASSUME NEW pc \in {"sync", "cascade"}, Goto(r, pc), req[r].op = "edit"
        PROVE  Moves(r)
    BY <1>1, <1>2, GotoMoves DEF Moves, Onward
  <1>3. ASSUME NEW x, req' = [req EXCEPT ![r] = x], req[r].op = "edit",
               x.op = req[r].op, x.email = req[r].email, x.tenant = req[r].tenant,
               x.pc \in {"add", "disable"},
               \A e \in Emails : x.seen[e] \in Known(e) \cup {NoUser}
        PROVE  Moves(r)
    BY <1>1, <1>3 DEF Moves, Onward
  <1>4. ASSUME NEW o \in Outcomes, EditPut(r, o)
        PROVE  Moves(r)
    BY <1>2, <1>4, FinishMoves DEF EditPut, At
  <1>5. ASSUME NEW o \in Outcomes, SyncSubs(r, o)
        PROVE  Moves(r)
    <2> DEFINE todo == (req[r].mods \ req[r].todo) \cap Free
    <2>1. PICK b \in BOOLEAN : b = ~((req[r].mods \ req[r].todo) \subseteq Free)
      OBVIOUS
    <2> DEFINE x == [req[r] EXCEPT !.pc = "add", !.todo = todo, !.bad = b]
    <2>2. /\ req[r].op = "edit"
          /\ Finish(r) \/ Goto(r, "cascade") \/ req' = [req EXCEPT ![r] = x]
      BY <1>5, <2>1 DEF SyncSubs, At
    <2>3. /\ x.op = req[r].op /\ x.email = req[r].email /\ x.tenant = req[r].tenant
          /\ x.pc = "add" /\ x.seen = req[r].seen
      BY <1>1 DEF RequestType
    <2> HIDE DEF x
    <2> QED
      BY <1>2, <1>3, <2>2, <2>3, FinishMoves, RequestFacts
  <1>6. ASSUME NEW m \in Modules, AddSub(r, m)
        PROVE  Moves(r)
    <2> DEFINE x == [req[r] EXCEPT !.todo = req[r].todo \ {m}]
    <2>1. req[r].op = "edit" /\ req[r].pc = "add" /\ req' = [req EXCEPT ![r] = x]
      BY <1>6 DEF AddSub, At
    <2>2. /\ x.op = req[r].op /\ x.email = req[r].email /\ x.tenant = req[r].tenant
          /\ x.pc = req[r].pc /\ x.seen = req[r].seen
      BY <1>1 DEF RequestType
    <2> HIDE DEF x
    <2> QED
      BY <1>3, <2>1, <2>2, RequestFacts
  <1>7. ASSUME AddTimesOut(r) \/ CascadeDone(r)
        PROVE  Moves(r)
    BY <1>7, FinishMoves DEF AddTimesOut, CascadeDone
  <1>8. ASSUME Synced(r)
        PROVE  Moves(r)
    BY <1>2, <1>8, FinishMoves DEF Synced, At
  <1>9. ASSUME NEW o \in Outcomes, CascadeList(r, o)
        PROVE  Moves(r)
    <2> DEFINE S == SubUsers(req[r].tenant)
               x == [req[r] EXCEPT !.pc = "disable", !.todo = S, !.seen = Copy(S)]
    <2>1. req[r].op = "edit" /\ (Finish(r) \/ req' = [req EXCEPT ![r] = x])
      BY <1>9 DEF CascadeList, At
    <2>2. /\ x.op = req[r].op /\ x.email = req[r].email /\ x.tenant = req[r].tenant
          /\ x.pc = "disable" /\ x.seen = Copy(S)
      BY <1>1 DEF RequestType
    <2> HIDE DEF x, S
    <2> QED
      BY <1>3, <2>1, <2>2, FinishMoves, CopyFacts
  <1>10. ASSUME NEW o \in Outcomes, NEW e \in Emails, CascadePut(r, e, o)
         PROVE  Moves(r)
    <2> DEFINE x == [req[r] EXCEPT !.todo = req[r].todo \ {e}]
    <2>1. /\ req[r].op = "edit" /\ req[r].pc = "disable"
          /\ Finish(r) \/ req' = [req EXCEPT ![r] = x]
      BY <1>10 DEF CascadePut, At
    <2>2. /\ x.op = req[r].op /\ x.email = req[r].email /\ x.tenant = req[r].tenant
          /\ x.pc = req[r].pc /\ x.seen = req[r].seen
      BY <1>1 DEF RequestType
    <2> HIDE DEF x
    <2> QED
      BY <1>3, <2>1, <2>2, FinishMoves, RequestFacts
  <1> QED
    BY <1>4, <1>5, <1>6, <1>7, <1>8, <1>9, <1>10 DEF edit_account

\* A user is made for a tenant, within the limits or on a count that failed.
LEMMA CreateUserMoves ==
    ASSUME Ground, NEW r \in Requests, create_user(r)
    PROVE  Moves(r)
  <1>1. /\ req[r] \in RequestType /\ Stage(req[r], used, made)
        /\ req \in [Requests -> RequestType] /\ "post" \in Places
    BY RequestFacts, Types DEF Places
  <1> DEFINE e == req[r].email
             t == req[r].tenant
  <1>2. ASSUME NEW o \in Outcomes, CheckLimits(r, o)
        PROVE  Moves(r)
    <2>1. CASE Finish(r)
      BY <2>1, FinishMoves
    <2>2. CASE ~Finish(r)
      <3>1. /\ req[r].op = "create_user" /\ req[r].pc = "check" /\ Goto(r, "post") /\ kc' = kc
            /\ o # "ok" => t \in raced'
            /\ o = "ok" /\ req[r].role = "tenant_module_user" /\ req[r].status = "active" =>
                 SeatsLeft(t, req[r].mods)
        BY <1>2, <2>2 DEF CheckLimits, At
      <3>2. e \in Emails /\ t \in used
        BY <1>1, <3>1 DEF Stage
      <3>3. /\ \A s \in Requests \ {r} : req'[s] = req[s]
            /\ \A f \in Emails : req'[r].seen[f] \in Known(f) \cup {NoUser}
            /\ req'[r].op = "create_user" /\ req'[r].email = e /\ req'[r].tenant = t
            /\ req'[r].pc = "post" /\ req'[r].role = req[r].role
            /\ req'[r].status = req[r].status /\ req'[r].mods = req[r].mods
        BY <1>1, <3>1, GotoMoves
      <3>4. ASSUME NEW m \in Modules, Seats(req'[r], m), o = "ok"
            PROVE  count_active_users_per_module(t, m) < SeatLimit
        BY <3>1, <3>3, <3>4 DEF Seats, SeatsLeft
      <3>5. Admits(r)
        BY <3>1, <3>2, <3>3, <3>4 DEF Admits
      <3> QED
        BY <3>3, <3>5 DEF Moves
    <2> QED
      BY <2>1, <2>2
  <1>3. ASSUME NEW o \in Outcomes, PostKeycloakUser(r, o)
        PROVE  Moves(r)
    <2>1. CASE Finish(r)
      BY <2>1, FinishMoves
    <2>2. CASE ~Finish(r)
      <3>1. PICK n : n = made + 1
        OBVIOUS
      <3> DEFINE x == [req[r] EXCEPT !.pc = "attrs", !.id = n]
      <3>2. /\ req[r].op = "create_user" /\ req[r].pc = "post" /\ req' = [req EXCEPT ![r] = x]
        BY <1>3, <2>2, <3>1 DEF PostKeycloakUser, At
      <3>3. /\ x.op = "create_user" /\ x.email = e /\ x.tenant = t /\ x.pc = "attrs"
            /\ x.role = req[r].role /\ x.status = req[r].status /\ x.mods = req[r].mods
            /\ x.seen = req[r].seen
        BY <1>1, <3>2 DEF RequestType
      <3> HIDE DEF x
      <3>4. req'[r] = x /\ \A s \in Requests \ {r} : req'[s] = req[s]
        BY <1>1, <3>2
      <3>5. e \in Emails /\ t \in used
        BY <1>1, <3>2 DEF Stage
      <3>6. \A m \in Modules : Seats(x, m) => Seats(req[r], m)
        BY <3>2, <3>3 DEF Seats
      <3>7. Admits(r)
        BY <3>2, <3>3, <3>4, <3>5, <3>6 DEF Admits
      <3> QED
        BY <3>3, <3>4, <3>7, RequestFacts DEF Moves
    <2> QED
      BY <2>1, <2>2
  <1>4. ASSUME NEW o \in Outcomes, WriteAttributes(r, o)
        PROVE  Moves(r)
    BY <1>4, FinishMoves DEF WriteAttributes
  <1> QED
    BY <1>2, <1>3, <1>4 DEF create_user

\* A user is changed, within the limits or on a count that failed.
LEMMA UpdateUserMoves ==
    ASSUME Ground, NEW r \in Requests, update_user(r)
    PROVE  Moves(r)
  <1>1. /\ req[r] \in RequestType /\ Stage(req[r], used, made)
        /\ req \in [Requests -> RequestType]
    BY RequestFacts, Types
  <1> DEFINE e == req[r].email
             t == req[r].tenant
  <1>2. ASSUME NEW o \in Outcomes, CheckUpdate(r, o)
        PROVE  Moves(r)
    <2>1. CASE Finish(r)
      BY <2>1, FinishMoves
    <2>2. CASE ~Finish(r)
      <3> DEFINE x == [req[r] EXCEPT !.pc = "put", !.seen = Copy({e})]
      <3>1. /\ req[r].op = "update_user" /\ req[r].pc = "check" /\ req' = [req EXCEPT ![r] = x]
            /\ kc' = kc /\ kc[e].tenant = t
            /\ o # "ok" => t \in raced'
            /\ o = "ok" => UpdateAllowed(r)
        BY <1>2, <2>2 DEF CheckUpdate, At, get_user_by_id
      <3>2. e \in Emails /\ t \in used
        BY <1>1, <3>1 DEF Stage
      <3>3. /\ x.op = "update_user" /\ x.email = e /\ x.tenant = t /\ x.pc = "put"
            /\ x.status = req[r].status /\ x.mods = req[r].mods /\ x.seen = Copy({e})
        BY <1>1, <3>1 DEF RequestType
      <3> HIDE DEF x
      <3>4. req'[r] = x /\ \A s \in Requests \ {r} : req'[s] = req[s]
        BY <1>1, <3>1
      <3>5. /\ x.seen[e] = kc[e] /\ kc[e] \in Users
            /\ \A f \in Emails : x.seen[f] \in Known(f) \cup {NoUser}
        BY <3>2, <3>3, CopyFacts, Types
      <3>6. ASSUME NEW m \in Modules, Seats(x, m), o = "ok"
            PROVE  count_active_users_per_module(t, m) < SeatLimit \/ e \in Seated(t, m)
        <4>1. kc[e].role = "tenant_module_user" /\ req[r].status = "active" /\ m \in req[r].mods
          BY <3>3, <3>5, <3>6 DEF Seats
        <4>2. CASE kc[e].status = "inactive" \/ m \notin kc[e].mods
          BY <3>1, <3>6, <4>1, <4>2 DEF UpdateAllowed, SeatsLeft
        <4>3. CASE kc[e].status # "inactive" /\ m \in kc[e].mods
          BY <3>1, <3>2, <3>5, <4>1, <4>3 DEF Seated, Users, Statuses
        <4> QED
          BY <4>2, <4>3
      <3>7. Admits(r)
        BY <3>1, <3>2, <3>3, <3>4, <3>6 DEF Admits
      <3> QED
        BY <3>4, <3>5, <3>7 DEF Moves
    <2> QED
      BY <2>1, <2>2
  <1>3. ASSUME NEW o \in Outcomes, UpdatePut(r, o)
        PROVE  Moves(r)
    BY <1>3, FinishMoves DEF UpdatePut
  <1> QED
    BY <1>2, <1>3 DEF update_user

\* What a request moves, handler by handler.
LEMMA HandlerMoves ==
    ASSUME Ground, NEW r \in Requests,
           \/ create_account(r) \/ delete_account(r) \/ upgrade_account(r) \/ edit_account(r)
           \/ create_user(r) \/ update_user(r) \/ delete_user(r)
    PROVE  Moves(r)
  <1>1. delete_user(r) => Finish(r)
    BY DEF delete_user
  <1> QED
    BY <1>1, CreateMoves, DeleteMoves, UpgradeMoves, EditMoves, CreateUserMoves, UpdateUserMoves,
       FinishMoves

\* A creation adds an account, a key and, when its answer is lost, an orphan.
LEMMA CreateSpares ==
    ASSUME Ground, NEW r \in Requests, create_account(r)
    PROVE  Spares(r)
  <1>1. \A t \in Tenants \ {req[r].tenant} : NewKey(req[r].tenant)[t] = keys[t]
    BY Types DEF NewKey
  <1>2. ASSUME NEW o \in Outcomes, AutoKey(r, o)
        PROVE  Spares(r)
    <2>1. /\ req[r].op = "create" /\ req[r].pc # "idle" /\ (keys' = keys \/ keys' = NewKey(req[r].tenant))
          /\ accounts' = accounts /\ orphans' = orphans /\ raced' = raced /\ faults <= faults'
          /\ data' = data /\ secrets' = secrets /\ gone' = gone
      BY <1>2, CallCounts DEF AutoKey, At, billing, issued
    <2> QED
      BY <1>1, <2>1 DEF Spares
  <1>3. ASSUME NEW o \in Outcomes,
               CreateAdmin(r, o) \/ AttachTenant(r, o) \/ CreateKbAccount(r, o)
                 \/ SubscribeAll(r, o) \/ Rollback(r, o)
        PROVE  Spares(r)
    <2>1. Call(o)
      BY <1>3 DEF CreateAdmin, AttachTenant, CreateKbAccount, SubscribeAll, Rollback
    <2>2. faults <= faults'
      BY <2>1, CallCounts
    <2>3. CASE CreateAdmin(r, o)
      <3>1. orphans \subseteq orphans'
        BY <2>3 DEF CreateAdmin, issued
      <3> QED
        BY <2>2, <2>3, <3>1 DEF CreateAdmin, At, billing, tables, Spares
    <2>4. CASE AttachTenant(r, o)
      BY <2>2, <2>4 DEF AttachTenant, At, billing, tables, Spares
    <2>5. CASE CreateKbAccount(r, o)
      BY <2>2, <2>5 DEF CreateKbAccount, At, tables, issued, Spares
    <2>6. CASE SubscribeAll(r, o)
      BY <2>2, <2>6 DEF SubscribeAll, At, tables, issued, Spares
    <2>7. CASE Rollback(r, o)
      BY <2>2, <2>7 DEF Rollback, At, billing, tables, issued, Spares
    <2> QED
      BY <1>3, <2>3, <2>4, <2>5, <2>6, <2>7
  <1>4. ASSUME AllSubscribed(r)
        PROVE  Spares(r)
    BY <1>4, Types DEF AllSubscribed, At, billing, tables, meters, issued, Spares
  <1>5. ASSUME SubscribeTimesOut(r)
        PROVE  Spares(r)
    <2>1. faults <= faults'
      BY <1>5, CallCounts DEF SubscribeTimesOut, Outcomes
    <2> QED
      BY <1>5, <2>1 DEF SubscribeTimesOut, At, tables, issued, Spares
  <1> QED
    BY <1>2, <1>3, <1>4, <1>5 DEF create_account

\* A deletion takes away, and may close its tenant.
LEMMA DeleteSpares ==
    ASSUME Ground, NEW r \in Requests, delete_account(r)
    PROVE  Spares(r)
  <1>1. ASSUME NEW o \in Outcomes, DeleteFind(r, o) \/ PurgeTenant(r, o)
        PROVE  Spares(r)
    <2>1. faults <= faults'
      BY <1>1, CallCounts DEF DeleteFind, PurgeTenant
    <2>2. CASE DeleteFind(r, o)
      BY <2>1, <2>2 DEF DeleteFind, At, billing, tables, issued, Spares
    <2>3. CASE PurgeTenant(r, o)
      <3>1. data' \subseteq data /\ secrets' \subseteq secrets
        BY <2>3 DEF PurgeTenant, purge
      <3> QED
        BY <2>1, <2>3, <3>1 DEF PurgeTenant, At, billing, issued, Spares
    <2> QED
      BY <1>1, <2>2, <2>3
  <1>2. ASSUME NEW o \in Outcomes, NEW e \in Emails, DeleteOne(r, e, o)
        PROVE  Spares(r)
    <2>1. faults <= faults'
      BY <1>2, CallCounts DEF DeleteOne
    <2> QED
      BY <1>2, <2>1 DEF DeleteOne, At, billing, tables, issued, Spares
  <1>3. ASSUME DeleteKeys(r)
        PROVE  Spares(r)
    <2>1. \A t \in Tenants : keys'[t] = keys[t] \/ keys'[t] = {}
      BY <1>3, Types DEF DeleteKeys
    <2> QED
      BY <1>3, <2>1, Types DEF DeleteKeys, At, billing, meters, issued, Spares
  <1>4. ASSUME NEW o \in Outcomes, CancelSubs(r, o)
        PROVE  Spares(r)
    <2> DEFINE t == req[r].tenant
    <2>1. /\ req[r].op = "delete" /\ req[r].pc = "cancel" /\ Finish(r) /\ faults <= faults'
          /\ kc' = kc /\ keys' = keys /\ data' = data /\ secrets' = secrets /\ posts' = posts
          /\ accounts' = accounts /\ orphans' = orphans /\ raced' = raced
      BY <1>4, CallCounts DEF CancelSubs, At, tables, issued
    <2>2. t \in used /\ req'[r] = Idle
      <3>1. Stage(req[r], used, made)
        BY RequestFacts
      <3> QED
        BY <2>1, <3>1, FinishMoves DEF Stage
    <2>3. o = "ok" => \A m \in Modules : <<t, m>> \notin subs'
      <3>1. ASSUME o = "ok"
            PROVE  subs' = {s \in subs : s[1] # t}
        BY <1>4, <3>1 DEF CancelSubs
      <3> QED
        BY <3>1
    <2>4. gone' = IF o = "ok" /\ ~req[r].bad THEN gone \cup {t} ELSE gone
      BY <1>4 DEF CancelSubs
    <2>5. Closes(r)
      BY <2>1, <2>2, <2>3, <2>4 DEF Closes
    <2> QED
      BY <2>1, <2>5 DEF Spares
  <1> QED
    BY <1>1, <1>2, <1>3, <1>4 DEF delete_account

\* The other handlers leave accounts and rows alone; an upgrade writes keys.
LEMMA HandlerSpares ==
    ASSUME Ground, NEW r \in Requests,
           \/ create_account(r) \/ delete_account(r) \/ upgrade_account(r) \/ edit_account(r)
           \/ create_user(r) \/ update_user(r) \/ delete_user(r)
    PROVE  Spares(r)
  <1>1. ASSUME NEW o \in Outcomes, UpgradeKeys(r, o)
        PROVE  Spares(r)
    <2>1. \A t \in Tenants : keys'[t] = keys[t] \/ t = req[r].tenant
      BY <1>1, Types DEF UpgradeKeys
    <2>2. faults <= faults'
      BY <1>1, CallCounts DEF UpgradeKeys
    <2> QED
      BY <1>1, <2>1, <2>2 DEF UpgradeKeys, At, billing, issued, Spares
  <1>2. ASSUME req[r].pc # "idle", accounts' = accounts, orphans' = orphans, raced \subseteq raced',
               faults <= faults', data' = data, secrets' = secrets, keys' = keys, gone' = gone
        PROVE  Spares(r)
    BY <1>2 DEF Spares
  <1>3. ASSUME NEW o \in Outcomes, UpgradePut(r, o)
        PROVE  Spares(r)
    BY <1>2, <1>3, CallCounts DEF UpgradePut, At, billing, tables, issued
  <1>4. CASE edit_account(r)
    <2>1. ASSUME NEW o \in Outcomes, EditPut(r, o) \/ SyncSubs(r, o) \/ CascadeList(r, o)
          PROVE  Spares(r)
      <3>1. faults <= faults'
        BY <2>1, CallCounts DEF EditPut, SyncSubs, CascadeList
      <3> QED
        BY <1>2, <2>1, <3>1 DEF EditPut, SyncSubs, CascadeList, At, billing, tables, issued
    <2>2. ASSUME NEW o \in Outcomes, NEW e \in Emails, CascadePut(r, e, o)
          PROVE  Spares(r)
      BY <1>2, <2>2, CallCounts DEF CascadePut, At, billing, tables, issued
    <2>3. ASSUME AddTimesOut(r)
          PROVE  Spares(r)
      <3>1. faults <= faults'
        BY <2>3, CallCounts DEF AddTimesOut, Outcomes
      <3> QED
        BY <1>2, <2>3, <3>1 DEF AddTimesOut, At, tables, issued
    <2>4. ASSUME NEW m \in Modules, AddSub(r, m)
          PROVE  Spares(r)
      BY <1>2, <2>4, Types DEF AddSub, At, tables, meters, issued
    <2>5. ASSUME Synced(r) \/ CascadeDone(r)
          PROVE  Spares(r)
      BY <1>2, <2>5, Types DEF Synced, CascadeDone, At, billing, tables, meters, issued
    <2> QED
      BY <1>4, <2>1, <2>2, <2>3, <2>4, <2>5 DEF edit_account
  <1>5. ASSUME NEW o \in Outcomes, CheckLimits(r, o) \/ PostKeycloakUser(r, o) \/ WriteAttributes(r, o)
        PROVE  Spares(r)
    <2>1. faults <= faults'
      BY <1>5, CallCounts DEF CheckLimits, PostKeycloakUser, WriteAttributes
    <2> QED
      BY <1>2, <1>5, <2>1 DEF CheckLimits, PostKeycloakUser, WriteAttributes, At, billing, tables, issued
  <1>6. ASSUME NEW o \in Outcomes, CheckUpdate(r, o) \/ UpdatePut(r, o)
        PROVE  Spares(r)
    <2>1. faults <= faults'
      BY <1>6, CallCounts DEF CheckUpdate, UpdatePut
    <2> QED
      BY <1>2, <1>6, <2>1 DEF CheckUpdate, UpdatePut, At, billing, tables, issued
  <1>7. CASE delete_user(r)
    <2>1. faults <= faults'
      BY <1>7, CallCounts DEF delete_user
    <2> QED
      BY <1>2, <1>7, <2>1 DEF delete_user, At, billing, tables, issued
  <1> QED
    BY <1>1, <1>3, <1>4, <1>5, <1>6, <1>7, CreateSpares, DeleteSpares
       DEF upgrade_account, create_user, update_user

\* No request moves, though an answer may reach one; keys come from active keys alone,
\* and rows from a subscription.
Watches ==
    /\ \A r \in Requests :
         /\ req'[r].op = req[r].op /\ req'[r].pc = req[r].pc /\ req'[r].email = req[r].email
         /\ req'[r].tenant = req[r].tenant /\ req'[r].id = req[r].id /\ req'[r].seen = req[r].seen
         /\ req'[r].role = req[r].role /\ req'[r].status = req[r].status
         /\ req'[r].mods = req[r].mods /\ req'[r].todo = req[r].todo
         /\ req[r].bad => req'[r].bad
    /\ accounts' = accounts /\ orphans' = orphans /\ gone' = gone
    /\ faults <= faults' /\ raced \subseteq raced'
    /\ \A t \in Tenants : keys'[t] = keys[t] \/ "active" \in keys[t]
    /\ \A t \in (data' \cup secrets') \ (data \cup secrets) :
         (Races(t) => t \in raced') /\ \E m \in Modules : <<t, m>> \in subs

\* A step that moves no request.
LEMMA WatchSteps ==
    ASSUME Ground, Gateway \/ Tokens \/ UNCHANGED vars
    PROVE  Watches
  <1>1. faults \in Nat
    BY Types
  <1>2. ASSUME NEW p, NEW b, Answer(p, b), NEW r \in Requests
        PROVE  /\ req'[r].op = req[r].op /\ req'[r].pc = req[r].pc /\ req'[r].email = req[r].email
               /\ req'[r].tenant = req[r].tenant /\ req'[r].id = req[r].id /\ req'[r].seen = req[r].seen
               /\ req'[r].role = req[r].role /\ req'[r].status = req[r].status
               /\ req'[r].mods = req[r].mods /\ req'[r].todo = req[r].todo
               /\ req[r].bad => req'[r].bad
    <2>1. PICK c \in BOOLEAN : c = (req[r].bad \/ ~b)
      OBVIOUS
    <2>2. req'[r] = req[r] \/ req'[r] = [req[r] EXCEPT !.bad = c]
      BY <1>2, <2>1 DEF Answer
    <2>3. req[r].bad => c
      BY <2>1
    <2> QED
      BY <2>2, <2>3, RequestFacts DEF RequestType
  <1>3. ASSUME NEW p \in posts, tryClaimTrial(p)
        PROVE  Watches
    <2>1. (\E b : Answer(p, b)) \/ req' = req
      <3>1. Answer(p, FALSE) \/ req' = req
        BY <1>3 DEF tryClaimTrial
      <3> QED
        BY <3>1, Zenon
    <2>2. /\ accounts' = accounts /\ orphans' = orphans /\ gone' = gone /\ faults' = faults
          /\ raced' = raced /\ keys' = keys /\ data' = data /\ secrets' = secrets
      BY <1>3 DEF tryClaimTrial, tables, meters, issued
    <2>3. CASE \E b : Answer(p, b)
      BY <1>1, <1>2, <2>2, <2>3 DEF Watches
    <2>4. CASE req' = req
      BY <1>1, <2>2, <2>4 DEF Watches
    <2> QED
      BY <2>1, <2>3, <2>4
  <1>4. ASSUME NEW p \in posts, NEW o \in Outcomes, KillBillAnswers(p, o)
        PROVE  Watches
    <2>1. Answer(p, o = "ok") /\ faults <= faults'
      BY <1>4, CallCounts DEF KillBillAnswers
    <2>2. /\ accounts' = accounts /\ orphans' = orphans /\ gone' = gone
          /\ raced' = raced /\ keys' = keys /\ data' = data /\ secrets' = secrets
      BY <1>4 DEF KillBillAnswers, tables, issued
    <2> QED
      BY <1>2, <2>1, <2>2 DEF Watches
  <1>5. ASSUME req' = req, accounts' = accounts, orphans' = orphans, gone' = gone, faults' = faults,
               raced \subseteq raced',
               \A t \in Tenants : keys'[t] = keys[t] \/ "active" \in keys[t],
               \A t \in (data' \cup secrets') \ (data \cup secrets) :
                  (Races(t) => t \in raced') /\ \E m \in Modules : <<t, m>> \in subs
        PROVE  Watches
    BY <1>1, <1>5 DEF Watches
  <1>6. ASSUME NEW e \in Emails, FederatedLogin(e) \/ generate_user_token(e)
        PROVE  Watches
    BY <1>5, <1>6 DEF FederatedLogin, generate_user_token, billing, tables, meters, issued
  <1>7. ASSUME NEW t \in Tenants, generate_token(t) \/ purge_tenant(t)
        PROVE  Watches
    BY <1>5, <1>7 DEF generate_token, purge_tenant, purge, billing, meters, issued
  <1>8. ASSUME NEW t \in Tenants, revoke_api_key(t)
        PROVE  Watches
    <2>1. \A s \in Tenants : keys'[s] = keys[s] \/ "active" \in keys[s]
      BY <1>8, Types DEF revoke_api_key
    <2> QED
      BY <1>5, <1>8, <2>1 DEF revoke_api_key, billing, meters, issued
  <1>9. ASSUME NEW t \in Tenants, UseToken(t)
        PROVE  Watches
    <2>1. (Races(t) => t \in raced') /\ \E m \in Modules : <<t, m>> \in subs
      BY <1>9, PermissionFacts DEF UseToken
    <2>2. \A s \in (data' \cup secrets') \ (data \cup secrets) : s = t
      BY <1>9 DEF UseToken
    <2> QED
      BY <1>5, <1>9, <2>1, <2>2 DEF UseToken, billing, meters, issued
  <1>10. CASE UNCHANGED vars
    BY <1>5, <1>10 DEF vars, billing, tables, meters, issued
  <1> QED
    BY <1>3, <1>4, <1>6, <1>7, <1>8, <1>9, <1>10 DEF Gateway, Tokens

\* What a step does to requests.
LEMMA RequestSteps ==
    ASSUME Ground, [Next]_vars
    PROVE  \/ \E r \in Requests, x \in RequestType : Begin(r, x) /\ Arrived(x)
           \/ \E r \in Requests : Moves(r) /\ Spares(r)
           \/ Watches
  BY Arrivals, HandlerMoves, HandlerSpares, WatchSteps DEF Next, Handle

-----------------------------------------------------------------------------
(* Administrators have accounts, or a creation that answers for them. *)

\* A creation that answers for its user still does, has made the account or has
\* deleted the user; only with a second fault it may not.
LEMMA CreationSteps ==
    ASSUME Ground, [Next]_vars, NEW s \in Requests, faults' <= 1,
           req[s].op = "create", req[s].pc \in {"account", "rollback"},
           req[s].pc = "rollback" => faults >= 1
    PROVE  \/ /\ req'[s].op = "create" /\ req'[s].pc \in {"account", "rollback"}
              /\ req'[s].email = req[s].email /\ req'[s].tenant = req[s].tenant
              /\ req'[s].id = req[s].id
           \/ req[s].tenant \in accounts'
           \/ kc'[req[s].email].id # req[s].id
  <1>1. Stage(req[s], used, made)
    BY RequestFacts
  <1>2. req[s].email \in Emails /\ req[s].id \in 1..made
    BY <1>1 DEF Stage
  <1>3. CASE Arrive
    BY <1>3, Arrivals, Types DEF Begin, Busy
  <1>4. CASE Handle
    <2>1. PICK r \in Requests :
            \/ create_account(r) \/ delete_account(r) \/ upgrade_account(r) \/ edit_account(r)
            \/ create_user(r) \/ update_user(r) \/ delete_user(r)
      BY <1>4 DEF Handle
    <2>2. CASE r # s
      BY <2>1, <2>2, HandlerMoves DEF Moves
    <2>3. CASE r = s
      <3>1. create_account(s)
        BY <2>1, <2>3 DEF delete_account, DeleteFind, DeleteOne, DeleteKeys, PurgeTenant, CancelSubs,
           upgrade_account, UpgradePut, UpgradeKeys, edit_account, EditPut, SyncSubs, AddSub,
           AddTimesOut, Synced, CascadeList, CascadePut, CascadeDone, create_user, CheckLimits,
           PostKeycloakUser, WriteAttributes, update_user, CheckUpdate, UpdatePut, delete_user, At
      <3>2. \E o \in Outcomes : CreateKbAccount(s, o) \/ Rollback(s, o)
        BY <3>1 DEF create_account, CreateAdmin, AttachTenant, SubscribeAll, AutoKey, AllSubscribed,
           SubscribeTimesOut, At
      <3>3. ASSUME NEW o \in Outcomes, CreateKbAccount(s, o)
            PROVE  ToRollback(s, 1) \/ req[s].tenant \in accounts'
        BY <3>3 DEF CreateKbAccount, Done
      <3>4. ASSUME NEW o \in Outcomes, Rollback(s, o)
            PROVE  kc'[req[s].email].id # req[s].id
        <4>1. o = "ok"
          <5>1. req[s].pc = "rollback" /\ Call(o)
            BY <3>4 DEF Rollback, At
          <5> QED
            BY <5>1, CallCounts
        <4>2. kc' = DeleteUser(req[s].email, req[s].id)
          BY <3>4, <4>1 DEF Rollback, Done
        <4>3. CASE kc[req[s].email].id # req[s].id
          BY <1>2, <4>2, <4>3, PutFacts
        <4>4. CASE kc[req[s].email].id = req[s].id
          BY <1>2, <4>2, <4>4, PutFacts, Replaced, Blanks
        <4> QED
          BY <4>3, <4>4
      <3> QED
        BY <3>2, <3>3, <3>4, ToRollbackMoves
    <2> QED
      BY <2>2, <2>3
  <1>5. CASE Gateway \/ Tokens \/ UNCHANGED vars
    BY <1>5, WatchSteps DEF Watches
  <1> QED
    BY <1>3, <1>4, <1>5 DEF Next

\* What only grows, and what requests have read.
LEMMA Growth ==
    ASSUME Ground, [Next]_vars
    PROVE  /\ accounts \subseteq accounts' /\ orphans \subseteq orphans' /\ raced \subseteq raced'
           /\ faults <= faults' /\ used \subseteq used'
           /\ \A r \in Requests, e \in Emails : req'[r].seen[e] \in Known(e) \cup {NoUser}
           /\ \A r \in Requests : req'[r].op = "create" /\ req'[r].pc = "rollback" =>
                                    faults' >= 1 \/ At(r, "create", "rollback")
  <1>1. used \subseteq used'
    <2>1. CASE Arrive
      BY <2>1, Arrivals DEF Begin, issued
    <2>2. CASE Handle
      <3>1. PICK r \in Requests :
              \/ create_account(r) \/ delete_account(r) \/ upgrade_account(r) \/ edit_account(r)
              \/ create_user(r) \/ update_user(r) \/ delete_user(r)
        BY <2>2 DEF Handle
      <3>2. CASE create_account(r)
        <4>1. ASSUME NEW o \in Outcomes, CreateAdmin(r, o) \/ AttachTenant(r, o)
              PROVE  used \subseteq used'
          BY <4>1 DEF CreateAdmin, AttachTenant, issued
        <4>2. ASSUME NEW o \in Outcomes, CreateKbAccount(r, o) \/ SubscribeAll(r, o)
                       \/ Rollback(r, o) \/ AutoKey(r, o)
              PROVE  used \subseteq used'
          BY <4>2 DEF CreateKbAccount, SubscribeAll, Rollback, AutoKey, issued
        <4>3. ASSUME AllSubscribed(r) \/ SubscribeTimesOut(r)
              PROVE  used \subseteq used'
          BY <4>3 DEF AllSubscribed, SubscribeTimesOut, issued
        <4> QED
          BY <3>2, <4>1, <4>2, <4>3 DEF create_account
      <3>3. CASE delete_account(r)
        BY <3>3 DEF delete_account, DeleteFind, DeleteOne, DeleteKeys, PurgeTenant, CancelSubs, issued
      <3>4. CASE upgrade_account(r)
        BY <3>4 DEF upgrade_account, UpgradePut, UpgradeKeys, issued
      <3>5. CASE edit_account(r)
        BY <3>5 DEF edit_account, EditPut, SyncSubs, AddSub, AddTimesOut, Synced, CascadeList, CascadePut,
           CascadeDone, issued
      <3>6. CASE create_user(r) \/ update_user(r) \/ delete_user(r)
        BY <3>6 DEF create_user, CheckLimits, PostKeycloakUser, WriteAttributes, update_user, CheckUpdate,
           UpdatePut, delete_user, issued
      <3> QED
        BY <3>1, <3>2, <3>3, <3>4, <3>5, <3>6
    <2>3. CASE Gateway \/ Tokens \/ UNCHANGED vars
      BY <2>3 DEF Gateway, tryClaimTrial, KillBillAnswers, Tokens, FederatedLogin, generate_user_token,
         generate_token, revoke_api_key, UseToken, purge_tenant, vars, issued
    <2> QED
      BY <2>1, <2>2, <2>3 DEF Next
  <1>2. faults \in Nat
    BY Types
  <1>3. ASSUME NEW r \in Requests, NEW x \in RequestType, Begin(r, x), Arrived(x)
        PROVE  /\ accounts \subseteq accounts' /\ orphans \subseteq orphans' /\ raced \subseteq raced'
               /\ faults <= faults'
               /\ \A s \in Requests, e \in Emails : req'[s].seen[e] \in Known(e) \cup {NoUser}
               /\ \A s \in Requests : req'[s].op = "create" /\ req'[s].pc = "rollback" =>
                                        faults' >= 1 \/ At(s, "create", "rollback")
    <2>1. /\ accounts' = accounts /\ orphans' = orphans /\ raced \subseteq raced' /\ faults' = faults
          /\ req'[r] = x /\ \A s \in Requests \ {r} : req'[s] = req[s]
      BY <1>3, Types DEF Begin, billing, issued
    <2>2. /\ \A e \in Emails : x.seen[e] \in Known(e) \cup {NoUser}
          /\ ~(x.op = "create" /\ x.pc = "rollback")
      BY <1>3 DEF Arrived
    <2> QED
      BY <1>2, <2>1, <2>2, RequestFacts DEF At
  <1>4. ASSUME NEW r \in Requests, Moves(r), Spares(r)
        PROVE  /\ accounts \subseteq accounts' /\ orphans \subseteq orphans' /\ raced \subseteq raced'
               /\ faults <= faults'
               /\ \A s \in Requests, e \in Emails : req'[s].seen[e] \in Known(e) \cup {NoUser}
               /\ \A s \in Requests : req'[s].op = "create" /\ req'[s].pc = "rollback" =>
                                        faults' >= 1 \/ At(s, "create", "rollback")
    <2>1. req'[r].op = "create" /\ req'[r].pc = "rollback" => faults' >= 1 \/ At(r, "create", "rollback")
      BY <1>4, Blanks DEF Moves, Onward, Settles, Finds, Deletes, Admits, At
    <2> QED
      BY <1>4, <2>1, RequestFacts DEF Moves, Spares, At
  <1>5. CASE Watches
    <2>1. /\ accounts \subseteq accounts' /\ orphans \subseteq orphans' /\ raced \subseteq raced'
          /\ faults <= faults'
          /\ \A s \in Requests : /\ req'[s].op = req[s].op /\ req'[s].pc = req[s].pc
                                /\ req'[s].seen = req[s].seen
      BY <1>5 DEF Watches
    <2> QED
      BY <1>1, <2>1, RequestFacts DEF At
  <1> QED
    BY <1>1, <1>3, <1>4, <1>5, RequestSteps

\* So an administrator has an account, or somebody answers for it, after a step too.
LEMMA AccountKept ==
    ASSUME Ground, AccountInvariant, [Next]_vars
    PROVE  AccountInvariant'
  <1>1. /\ faults \in Nat /\ faults <= faults' /\ made \in Nat /\ faults' \in Nat
    BY Growth, GroundKept, Types DEF Ground, TypeInvariant
  <1>2. \A r \in Requests : At(r, "create", "rollback")' => faults' >= 1
    BY <1>1, Growth DEF AccountInvariant, At
  <1>3. ASSUME NEW e \in Emails, NEW w \in Known(e), w.role = "tenant_admin", faults' <= 1
        PROVE  \/ w.tenant \in accounts' \cup orphans'
               \/ \E r \in Requests : Creates(r, e, w)'
               \/ kc'[e].id # w.id
    <2>1. w.id <= made /\ w.id \in Nat /\ w.id # 0
      <3>1. w \in Users /\ Record(w, used, made)
        BY KnownUsers DEF Ground
      <3> QED
        BY <1>3, <3>1, Blanks DEF Record, Users
    <2>2. CASE w.tenant \in accounts \cup orphans
      BY <2>2, Growth
    <2>3. CASE kc[e].id # w.id
      <3>1. kc'[e].id \in {kc[e].id, 0, made + 1}
        BY UserSteps DEF Emptied, Founded, WrittenBy
      <3> QED
        BY <1>1, <2>1, <2>3, <3>1
    <2>4. ASSUME NEW s \in Requests, Creates(s, e, w)
          PROVE  \/ w.tenant \in accounts' \cup orphans'
                 \/ \E r \in Requests : Creates(r, e, w)'
                 \/ kc'[e].id # w.id
      <3>1. /\ req[s].op = "create" /\ req[s].pc \in {"account", "rollback"}
            /\ req[s].email = e /\ req[s].tenant = w.tenant /\ req[s].id = w.id
        BY <2>4 DEF Creates
      <3>2. req[s].pc = "rollback" => faults >= 1
        BY <3>1 DEF AccountInvariant, At
      <3>3. \/ /\ req'[s].op = "create" /\ req'[s].pc \in {"account", "rollback"}
               /\ req'[s].email = e /\ req'[s].tenant = w.tenant /\ req'[s].id = w.id
            \/ w.tenant \in accounts'
            \/ kc'[e].id # w.id
        BY <1>3, <3>1, <3>2, CreationSteps
      <3> QED
        BY <3>3 DEF Creates
    <2> QED
      BY <1>1, <1>3, <2>2, <2>3, <2>4 DEF AccountInvariant
  <1>4. ASSUME NEW e \in Emails, NEW u \in Known(e)', u.role = "tenant_admin", faults' <= 1
        PROVE  \/ u.tenant \in accounts' \cup orphans'
               \/ \E r \in Requests : Creates(r, e, u)'
               \/ kc'[e].id # u.id
    <2>1. u = kc'[e] \/ u \in Known(e)
      BY <1>4, Growth, Blanks DEF Known
    <2>2. CASE u \in Known(e)
      BY <1>3, <1>4, <2>2
    <2>3. CASE u = kc'[e]
      <3>1. CASE kc'[e] = kc[e]
        BY <1>3, <1>4, <2>3, <3>1, KnownUsers DEF Ground
      <3>2. CASE Emptied(e)
        BY <1>4, <2>3, <3>2 DEF Emptied
      <3>3. ASSUME NEW r \in Requests, Founded(r, e)
            PROVE  u.tenant \in orphans' \/ Creates(r, e, u)'
        BY <2>3, <3>3 DEF Founded, Creates
      <3>4. ASSUME NEW r \in Requests, WrittenBy(r, e)
            PROVE  \E w \in Known(e) : w.role = "tenant_admin" /\ w.tenant = u.tenant /\ w.id = u.id
        BY <1>4, <2>3, <3>4 DEF WrittenBy
      <3>5. ASSUME NEW w \in Known(e), w.role = "tenant_admin", w.tenant = u.tenant, w.id = u.id
            PROVE  \/ u.tenant \in accounts' \cup orphans'
                   \/ \E r \in Requests : Creates(r, e, u)'
                   \/ kc'[e].id # u.id
        BY <1>3, <1>4, <3>5 DEF Creates
      <3> QED
        BY <3>1, <3>2, <3>3, <3>4, <3>5, UserSteps
    <2> QED
      BY <2>1, <2>2, <2>3
  <1> QED
    BY <1>2, <1>4 DEF AccountInvariant

\* At the start the administrators there are have accounts.
LEMMA AccountAtStart ==
    ASSUME Init
    PROVE  AccountInvariant
  <1>1. /\ kc = StartUsers /\ \A r \in Requests : req[r] = Idle
        /\ accounts = StartTenants /\ faults = 0
    BY DEF Init
  <1>2. ASSUME NEW e \in Emails, NEW u \in Known(e), u.role = "tenant_admin"
        PROVE  u.tenant \in accounts
    <2>1. u = StartUsers[e]
      BY <1>1, <1>2, Blanks DEF Known
    <2>2. u.tenant # NoTenant
      BY <1>2, <2>1, StartAssumption
    <2> QED
      BY <1>1, <2>1, <2>2 DEF StartTenants
  <1>3. \A r \in Requests : ~At(r, "create", "rollback")
    BY <1>1, Blanks DEF At
  <1> QED
    BY <1>2, <1>3 DEF AccountInvariant

\* The creations that answer for administrators, at every step.
THEOREM AccountInvariantHolds == Spec => []AccountInvariant
  <1>1. Init => AccountInvariant
    BY AccountAtStart
  <1>2. Ground /\ AccountInvariant /\ [Next]_vars => AccountInvariant'
    BY AccountKept
  <1> QED
    BY <1>1, <1>2, GroundHolds, PTL DEF Spec

\* create_account is all or nothing as far as one failed call goes: an administrator
\* has an account, a creation at work, or is the one whose POST lost its answer.
THEOREM AccountsCompleteHolds == Spec => []AccountsComplete
  <1>1. ASSUME Ground, AccountInvariant
        PROVE  AccountsComplete
    <2> SUFFICES ASSUME faults <= 1, NEW e \in Emails, kc[e].role = "tenant_admin"
                 PROVE  \/ kc[e].tenant \in accounts
                        \/ \E r \in Busy : req[r].op = "create" /\ req[r].email = e
                        \/ kc[e].tenant \in orphans
      BY DEF AccountsComplete
    <2>1. kc[e] \in Known(e)
      BY DEF Known
    <2>2. \/ kc[e].tenant \in accounts \cup orphans
          \/ \E r \in Requests : Creates(r, e, kc[e])
      BY <1>1, <2>1 DEF AccountInvariant
    <2> QED
      BY <2>2 DEF Creates, Busy
  <1> QED
    BY <1>1, GroundHolds, AccountInvariantHolds, PTL

-----------------------------------------------------------------------------
(* Requests about one tenant: either they have raced or there is one of them. *)

\* A subscription that is asked for was asked for before, or by request r now.
LEMMA PostSteps ==
    ASSUME Ground, [Next]_vars, NEW p \in posts'
    PROVE  \/ \E q \in posts : q.tenant = p.tenant
           \/ \E r \in Busy : /\ req[r].op \in {"create", "edit"}
                              /\ p.tenant = req[r].tenant /\ p.tenant \in used
  <1>1. posts \subseteq PostType
    BY Types
  <1>2. CASE Unbilled
    BY <1>2 DEF Unbilled
  <1>3. CASE Gateway
    <2>1. PICK q \in posts : tryClaimTrial(q) \/ \E o \in Outcomes : KillBillAnswers(q, o)
      BY <1>3 DEF Gateway
    <2> DEFINE c == [q EXCEPT !.claimed = TRUE]
    <2>2. posts' \subseteq posts \cup {c}
      BY <2>1 DEF tryClaimTrial, KillBillAnswers
    <2>3. c.tenant = q.tenant
      BY <1>1 DEF PostType
    <2> HIDE DEF c
    <2> QED
      BY <2>2, <2>3
  <1>4. ASSUME NEW r \in Requests, Asks(r)
        PROVE  \/ \E q \in posts : q.tenant = p.tenant
               \/ r \in Busy /\ req[r].op \in {"create", "edit"} /\ p.tenant = req[r].tenant
                  /\ p.tenant \in used
    <2>1. PICK M \in SUBSET Modules : posts' = posts \cup {Post(r, req[r].tenant, m) : m \in M}
      BY <1>4 DEF Asks
    <2>2. p \in posts \/ p.tenant = req[r].tenant
      BY <1>4, <2>1, PostTypes DEF Asks
    <2> QED
      BY <1>4, <2>2 DEF Asks, Busy
  <1>5. ASSUME NEW r \in Requests, GivesUp(r)
        PROVE  \E q \in posts : q.tenant = p.tenant
    BY <1>5, PostTypes DEF GivesUp, PostsOf
  <1> QED
    BY <1>2, <1>3, <1>4, <1>5, BillingSteps

\* A request that is in progress after a step: it was about its tenant, or it is alone
\* to move and what it meets has raced, or its tenant is new.
LEMMA BusySteps ==
    ASSUME Ground, [Next]_vars, NEW r \in Busy'
    PROVE  /\ r \in Busy => req'[r].op = req[r].op
           /\ \/ r \in Busy /\ req'[r].tenant = req[r].tenant
              \/ /\ \A s \in Requests \ {r} : req'[s] = req[s]
                 /\ \/ req'[r].tenant = NoTenant
                    \/ Races(req'[r].tenant) => req'[r].tenant \in raced'
                    \/ req'[r].op = "create" /\ req'[r].tenant \notin used
  <1>0. r \in Requests /\ req'[r].pc # "idle"
    BY DEF Busy
  <1>1. ASSUME NEW b \in Requests, NEW x \in RequestType, Begin(b, x)
        PROVE  /\ r \in Busy => req'[r].op = req[r].op
               /\ \/ r \in Busy /\ req'[r].tenant = req[r].tenant
                  \/ /\ \A s \in Requests \ {r} : req'[s] = req[s]
                     /\ Races(req'[r].tenant) => req'[r].tenant \in raced'
    <2>1. /\ b \notin Busy /\ req'[b] = x /\ \A s \in Requests \ {b} : req'[s] = req[s]
          /\ Races(x.tenant) => x.tenant \in raced'
      BY <1>1, Types DEF Begin
    <2> QED
      BY <1>0, <2>1 DEF Busy
  <1>2. ASSUME NEW b \in Requests, Moves(b), Spares(b)
        PROVE  /\ r \in Busy => req'[r].op = req[r].op
               /\ \/ r \in Busy /\ req'[r].tenant = req[r].tenant
                  \/ /\ \A s \in Requests \ {r} : req'[s] = req[s]
                     /\ \/ req'[r].tenant = NoTenant
                        \/ Races(req'[r].tenant) => req'[r].tenant \in raced'
                        \/ req'[r].op = "create" /\ req'[r].tenant \notin used
    <2>1. CASE r # b
      BY <1>0, <1>2, <2>1 DEF Moves, Busy
    <2>2. CASE r = b
      <3>1. r \in Busy
        BY <1>0, <1>2, <2>2 DEF Spares, Busy
      <3>2. Onward(r) \/ Settles(r) \/ Finds(r) \/ Deletes(r) \/ Admits(r)
        BY <1>0, <1>2, <2>2, Blanks DEF Moves
      <3>3. \A s \in Requests \ {r} : req'[s] = req[s]
        BY <1>2, <2>2 DEF Moves
      <3> QED
        BY <3>1, <3>2, <3>3 DEF Onward, Settles, Finds, Deletes, Admits
    <2> QED
      BY <2>1, <2>2
  <1>3. CASE Watches
    BY <1>0, <1>3 DEF Watches, Busy
  <1> QED
    BY <1>1, <1>2, <1>3, RequestSteps

\* What requests are about is in use.
LEMMA AboutUsed ==
    ASSUME Ground, NEW r \in Requests
    PROVE  req[r].tenant \in used \cup {NoTenant}
  BY RequestFacts DEF Stage

\* A step keeps it so.
LEMMA OverlapKept ==
    ASSUME Ground, OverlapInvariant, [Next]_vars
    PROVE  OverlapInvariant'
  <1>1. /\ used \subseteq used' /\ raced \subseteq raced' /\ used \subseteq Tenants
        /\ NoTenant \notin used
    BY Growth, Types, TenantAssumption
  <1>2. \A p \in posts' : p.tenant \in used
    BY PostSteps DEF OverlapInvariant
  <1>3. ASSUME NEW r \in Busy', NEW s \in Busy', r # s, req'[r].tenant = req'[s].tenant,
               req'[r].tenant # NoTenant, req'[r].tenant \notin raced',
               ~(r \in Busy /\ req'[r].tenant = req[r].tenant)
        PROVE  FALSE
    <2>1. /\ \A q \in Requests \ {r} : req'[q] = req[q]
          /\ \/ Races(req'[r].tenant) => req'[r].tenant \in raced'
             \/ req'[r].tenant \notin used
      BY <1>3, BusySteps
    <2>2. s \in Busy /\ req[s].tenant = req'[r].tenant /\ s \in Requests
      BY <1>3, <2>1 DEF Busy
    <2>3. req'[r].tenant \in used
      BY <1>3, <2>2, AboutUsed
    <2> QED
      BY <1>3, <2>1, <2>2, <2>3 DEF Races
  <1>4. ASSUME NEW r \in Busy', NEW s \in Busy', r # s, req'[r].tenant = req'[s].tenant,
               req'[r].tenant # NoTenant
        PROVE  req'[r].tenant \in raced'
    <2> SUFFICES ASSUME req'[r].tenant \notin raced'
                 PROVE  FALSE
      OBVIOUS
    <2>1. r \in Busy /\ req'[r].tenant = req[r].tenant
      BY <1>3, <1>4
    <2>2. s \in Busy /\ req'[s].tenant = req[s].tenant
      BY <1>3, <1>4
    <2> QED
      BY <1>1, <1>4, <2>1, <2>2 DEF OverlapInvariant
  <1>5. ASSUME NEW p \in posts', NEW r \in Busy', req'[r].tenant = p.tenant,
               req'[r].op \notin {"create", "edit"}
        PROVE  p.tenant \in raced'
    <2>0. p.tenant \in used /\ p.tenant # NoTenant
      BY <1>1, <1>2
    <2>1. CASE r \in Busy /\ req'[r].tenant = req[r].tenant
      <3>1. req'[r].op = req[r].op
        BY <2>1, BusySteps
      <3>2. ASSUME NEW q \in posts, q.tenant = p.tenant
            PROVE  p.tenant \in raced
        BY <1>5, <2>1, <3>1, <3>2 DEF OverlapInvariant
      <3>3. ASSUME NEW a \in Busy, req[a].op \in {"create", "edit"}, p.tenant = req[a].tenant
            PROVE  p.tenant \in raced
        BY <1>5, <2>0, <2>1, <3>1, <3>3 DEF OverlapInvariant
      <3> QED
        BY <1>1, <3>2, <3>3, PostSteps
    <2>2. CASE ~(r \in Busy /\ req'[r].tenant = req[r].tenant)
      <3>1. Races(p.tenant) => p.tenant \in raced'
        BY <1>5, <2>0, <2>2, BusySteps
      <3>2. Races(p.tenant)
        BY <2>0, PostSteps DEF Races
      <3> QED
        BY <3>1, <3>2
    <2> QED
      BY <2>1, <2>2
  <1> QED
    BY <1>1, <1>2, <1>4, <1>5 DEF OverlapInvariant

\* Whoever meets another request about a tenant has raced with it.
THEOREM OverlapInvariantHolds == Spec => []OverlapInvariant
  <1>1. Init => OverlapInvariant
    BY Blanks DEF Init, OverlapInvariant, Busy
  <1>2. Ground /\ OverlapInvariant /\ [Next]_vars => OverlapInvariant'
    BY OverlapKept
  <1> QED
    BY <1>1, <1>2, GroundHolds, PTL DEF Spec

-----------------------------------------------------------------------------
(* Seats: whoever is about to take one about a tenant alone has it. *)

\* Seats are counted.
LEMMA SeatCounts ==
    ASSUME NEW t, NEW m, NEW S, S \subseteq Emails
    PROVE  /\ IsFiniteSet(S) /\ Cardinality(S) \in Nat
           /\ count_active_users_per_module(t, m) = Cardinality(Seated(t, m))
           /\ Seated(t, m) \subseteq Emails
           /\ \A T \in SUBSET S : Cardinality(T) <= Cardinality(S)
           /\ \A e \in Emails : /\ e \in S => Cardinality(S \cup {e}) = Cardinality(S)
                                /\ e \notin S => Cardinality(S \cup {e}) = Cardinality(S) + 1
  <1>1. IsFiniteSet(S)
    BY TenantAssumption, FS_Subset
  <1>2. Cardinality(S) \in Nat /\ \A T \in SUBSET S : Cardinality(T) <= Cardinality(S)
    BY <1>1, FS_CardinalityType, FS_Subset
  <1>3. \A e : /\ e \in S => Cardinality(S \cup {e}) = Cardinality(S)
               /\ e \notin S => Cardinality(S \cup {e}) = Cardinality(S) + 1
    BY <1>1, FS_AddElement
  <1>4. count_active_users_per_module(t, m) = Cardinality(Seated(t, m))
    BY DEF count_active_users_per_module, Seated
  <1> QED
    BY <1>1, <1>2, <1>3, <1>4 DEF Seated

\* A seat of a tenant that nobody races about is taken by the one request about it.
LEMMA SeatSteps ==
    ASSUME Ground, OverlapInvariant, [Next]_vars, NEW t \in Tenants, t \notin raced', NEW m \in Modules
    PROVE  \/ Seated(t, m)' \subseteq Seated(t, m)
           \/ \E r \in Busy : /\ req[r].tenant = t /\ Seats(req[r], m)
                              /\ Seated(t, m)' \subseteq Seated(t, m) \cup {req[r].email}
  <1>1. t \notin raced /\ t # NoTenant
    BY Growth, TenantAssumption
  <1>2. ASSUME NEW e \in Seated(t, m)', e \notin Seated(t, m)
        PROVE  \E r \in Busy : req[r].tenant = t /\ Seats(req[r], m) /\ e = req[r].email
    <2>1. /\ e \in Emails /\ kc'[e].tenant = t /\ kc'[e].role = "tenant_module_user"
          /\ kc'[e].status = "active" /\ m \in kc'[e].mods /\ kc'[e] # kc[e]
      BY <1>2 DEF Seated
    <2>2. ~Emptied(e) /\ \A r \in Requests : ~Founded(r, e)
      BY <2>1 DEF Emptied, Founded
    <2>3. PICK r \in Requests : WrittenBy(r, e)
      BY <2>1, <2>2, UserSteps
    <2> QED
      BY <2>1, <2>3 DEF WrittenBy, Busy
  <1>3. CASE Seated(t, m)' \subseteq Seated(t, m)
    BY <1>3
  <1>4. CASE ~(Seated(t, m)' \subseteq Seated(t, m))
    <2>1. PICK e \in Seated(t, m)' : e \notin Seated(t, m)
      BY <1>4
    <2>2. PICK r \in Busy : req[r].tenant = t /\ Seats(req[r], m) /\ e = req[r].email
      BY <1>2, <2>1
    <2>3. ASSUME NEW f \in Seated(t, m)', f \notin Seated(t, m)
          PROVE  f = req[r].email
      <3>1. PICK s \in Busy : req[s].tenant = t /\ f = req[s].email
        BY <1>2, <2>3
      <3>2. s = r
        BY <1>1, <2>2, <3>1 DEF OverlapInvariant
      <3> QED
        BY <3>1, <3>2
    <2> QED
      BY <2>2, <2>3
  <1> QED
    BY <1>3, <1>4

\* A request that is about to seat a user was so before, or finds a seat.
LEMMA SeatRequests ==
    ASSUME Ground, [Next]_vars, NEW r \in Requests, NEW m \in Modules, Seats(req'[r], m),
           req'[r].tenant \in Tenants, req'[r].tenant \notin raced'
    PROVE  /\ req'[r].email \in Emails
           /\ \/ /\ r \in Busy /\ Seats(req[r], m)
                 /\ req'[r].tenant = req[r].tenant /\ req'[r].email = req[r].email
              \/ /\ kc' = kc
                 /\ \/ Cardinality(Seated(req'[r].tenant, m)) < SeatLimit
                    \/ req'[r].email \in Seated(req'[r].tenant, m)
  <1>0. req'[r].pc # "idle" /\ req'[r].op \in {"create_user", "update_user", "upgrade"}
    BY DEF Seats
  <1>1. Stage(req[r], used, made) /\ (r \in Busy => req[r].email \in Emails)
    <2>1. Stage(req[r], used, made)
      BY RequestFacts
    <2> QED
      BY <2>1 DEF Stage, Busy
  <1>2. ASSUME NEW b \in Requests, NEW x \in RequestType, Begin(b, x), Arrived(x)
        PROVE  /\ req'[r].email \in Emails
               /\ \/ /\ r \in Busy /\ Seats(req[r], m)
                     /\ req'[r].tenant = req[r].tenant /\ req'[r].email = req[r].email
                  \/ kc' = kc /\ req'[r].email \in Seated(req'[r].tenant, m)
    <2>1. kc' = kc /\ req'[b] = x /\ \A s \in Requests \ {b} : req'[s] = req[s]
      BY <1>2, Types DEF Begin
    <2>2. CASE r # b
      BY <1>0, <1>1, <2>1, <2>2 DEF Busy
    <2>3. CASE r = b
      <3>1. req'[r] = x /\ Seats(x, m) /\ Stage(x, used, made)
        BY <1>2, <2>1, <2>3 DEF Arrived
      <3>2. /\ x.op = "upgrade" /\ x.pc = "put" /\ x.seen[x.email] = kc[x.email]
            /\ kc[x.email].role = "tenant_module_user"
            /\ kc[x.email].status = "active" /\ m \in kc[x.email].mods
        BY <1>2, <3>1 DEF Arrived, Seats
      <3>3. x.email \in Emails /\ kc[x.email].tenant = x.tenant
        BY <3>1, <3>2 DEF Stage
      <3> QED
        BY <2>1, <3>1, <3>2, <3>3 DEF Seated
    <2> QED
      BY <2>2, <2>3
  <1>3. ASSUME NEW b \in Requests, Moves(b), Spares(b)
        PROVE  /\ req'[r].email \in Emails
               /\ \/ /\ r \in Busy /\ Seats(req[r], m)
                     /\ req'[r].tenant = req[r].tenant /\ req'[r].email = req[r].email
                  \/ /\ kc' = kc
                     /\ \/ count_active_users_per_module(req'[r].tenant, m) < SeatLimit
                        \/ req'[r].email \in Seated(req'[r].tenant, m)
    <2>1. CASE r # b
      BY <1>0, <1>1, <1>3, <2>1 DEF Moves, Busy
    <2>2. CASE r = b
      <3>1. r \in Busy
        BY <1>3, <2>2 DEF Spares, Busy
      <3>2. Admits(r)
        BY <1>0, <1>3, <2>2, Blanks DEF Moves, Onward, Settles, Finds, Deletes, Seats
      <3> QED
        BY <1>1, <3>1, <3>2 DEF Admits
    <2> QED
      BY <2>1, <2>2
  <1>4. CASE Watches
    BY <1>0, <1>1, <1>4 DEF Watches, Seats, Busy
  <1>5. count_active_users_per_module(req'[r].tenant, m) = Cardinality(Seated(req'[r].tenant, m))
    BY DEF count_active_users_per_module, Seated
  <1> QED
    BY <1>2, <1>3, <1>4, <1>5, RequestSteps

\* A step keeps the seats that are taken, and that are about to be, within the limit.
LEMMA SeatKept ==
    ASSUME Ground, OverlapInvariant, SeatInvariant, [Next]_vars
    PROVE  SeatInvariant'
  <1>1. raced \subseteq raced' /\ SeatLimit \in Nat
    BY Growth DEF SeatLimit
  <1>2. ASSUME NEW t \in Tenants \ raced', NEW m \in Modules
        PROVE  /\ Seated(t, m) \subseteq Emails /\ Seated(t, m)' \subseteq Emails
               /\ Cardinality(Seated(t, m)) <= SeatLimit
               /\ count_active_users_per_module(t, m)' = Cardinality(Seated(t, m)')
    <2>1. count_active_users_per_module(t, m) <= SeatLimit
      BY <1>1, <1>2 DEF SeatInvariant, ModuleSeats
    <2> QED
      BY <2>1 DEF count_active_users_per_module, Seated
  <1>3. ASSUME NEW S, NEW T, S \subseteq T, T \subseteq Emails, Cardinality(T) <= SeatLimit
        PROVE  Cardinality(S) <= SeatLimit
    <2>1. Cardinality(S) <= Cardinality(T) /\ Cardinality(T) \in Nat /\ Cardinality(S) \in Nat
      BY <1>3, SeatCounts
    <2> QED
      BY <1>1, <1>3, <2>1
  <1>4. ASSUME NEW t \in Tenants \ raced', NEW m \in Modules
        PROVE  Cardinality(Seated(t, m)') <= SeatLimit
    <2>1. CASE Seated(t, m)' \subseteq Seated(t, m)
      BY <1>2, <1>3, <2>1
    <2>2. ASSUME NEW r \in Busy, req[r].tenant = t, Seats(req[r], m),
                 Seated(t, m)' \subseteq Seated(t, m) \cup {req[r].email}
          PROVE  Cardinality(Seated(t, m)') <= SeatLimit
      <3>1. Cardinality(Seated(t, m) \cup {req[r].email}) <= SeatLimit
        BY <1>1, <2>2 DEF SeatInvariant, Busy
      <3>2. req[r].email \in Emails
        <4>1. Stage(req[r], used, made)
          BY RequestFacts DEF Busy
        <4> QED
          BY <4>1 DEF Stage, Busy
      <3> QED
        BY <1>2, <1>3, <2>2, <3>1, <3>2
    <2> QED
      BY <2>1, <2>2, SeatSteps
  <1>5. ASSUME NEW r \in Requests, NEW m \in Modules, NEW t \in Tenants \ raced', NEW e,
               t = req'[r].tenant, e = req'[r].email, Seats(req'[r], m)
        PROVE  Cardinality(Seated(t, m)' \cup {e}) <= SeatLimit
    <2>1. e \in Emails
      BY <1>5, SeatRequests
    <2>2. CASE r \in Busy /\ Seats(req[r], m) /\ t = req[r].tenant /\ e = req[r].email
      <3>1. Cardinality(Seated(t, m) \cup {e}) <= SeatLimit
        BY <1>1, <1>5, <2>2 DEF SeatInvariant
      <3>2. Seated(t, m)' \subseteq Seated(t, m) \cup {e}
        <4>1. CASE Seated(t, m)' \subseteq Seated(t, m)
          BY <4>1
        <4>2. ASSUME NEW s \in Busy, req[s].tenant = t,
                     Seated(t, m)' \subseteq Seated(t, m) \cup {req[s].email}
              PROVE  Seated(t, m)' \subseteq Seated(t, m) \cup {e}
          <5>1. s = r
            BY <1>1, <1>5, <2>2, <4>2, TenantAssumption DEF OverlapInvariant
          <5> QED
            BY <2>2, <4>2, <5>1
        <4> QED
          BY <1>5, <4>1, <4>2, SeatSteps
      <3> QED
        BY <1>2, <1>3, <1>5, <2>1, <3>1, <3>2
    <2>3. CASE kc' = kc /\ (Cardinality(Seated(t, m)) < SeatLimit \/ e \in Seated(t, m))
      <3>1. Seated(t, m)' = Seated(t, m)
        BY <2>3 DEF Seated
      <3>2. Seated(t, m) \subseteq Emails /\ Cardinality(Seated(t, m)) <= SeatLimit
        BY <1>2, <1>5
      <3>3. /\ Cardinality(Seated(t, m)) \in Nat
            /\ \/ e \in Seated(t, m) /\ Cardinality(Seated(t, m) \cup {e}) = Cardinality(Seated(t, m))
               \/ e \notin Seated(t, m)
                  /\ Cardinality(Seated(t, m) \cup {e}) = Cardinality(Seated(t, m)) + 1
        BY <2>1, <3>2, SeatCounts
      <3> QED
        BY <1>1, <2>3, <3>1, <3>2, <3>3
    <2> QED
      BY <1>5, <2>2, <2>3, SeatRequests
  <1>6. ModuleSeats'
    BY <1>2, <1>4 DEF ModuleSeats
  <1>7. ASSUME NEW r \in Requests, NEW m \in Modules, req'[r].tenant \in Tenants \ raced',
               Seats(req'[r], m)
        PROVE  (Cardinality(Seated(req[r].tenant, m) \cup {req[r].email}) <= SeatLimit)'
    <2>1. PICK t \in Tenants \ raced' : t = req'[r].tenant
      BY <1>7
    <2>2. PICK e : e = req'[r].email
      OBVIOUS
    <2>3. Cardinality(Seated(t, m)' \cup {e}) <= SeatLimit
      BY <1>5, <1>7, <2>1, <2>2
    <2> QED
      BY <2>1, <2>2, <2>3 DEF Seated
  <1> QED
    BY <1>6, <1>7 DEF SeatInvariant

\* At the start the limit is kept.
LEMMA SeatAtStart ==
    ASSUME Init
    PROVE  SeatInvariant
  <1>1. kc = StartUsers /\ \A r \in Requests : req[r] = Idle
    BY DEF Init
  <1>2. ModuleSeats
    BY <1>1, SeatsAssumption DEF ModuleSeats, count_active_users_per_module
  <1>3. \A r \in Requests, m \in Modules : ~Seats(req[r], m)
    BY <1>1, Blanks DEF Seats
  <1> QED
    BY <1>2, <1>3 DEF SeatInvariant

\* The seats that are taken and that are about to be.
THEOREM SeatInvariantHolds == Spec => []SeatInvariant
  <1>1. Init => SeatInvariant
    BY SeatAtStart
  <1>2. Ground /\ OverlapInvariant /\ SeatInvariant /\ [Next]_vars => SeatInvariant'
    BY SeatKept
  <1> QED
    BY <1>1, <1>2, GroundHolds, OverlapInvariantHolds, PTL DEF Spec

\* A tenant has two active users of a module at most, unless two requests about it
\* overlapped or Keycloak could not be asked.
THEOREM ModuleSeatsHolds == Spec => []ModuleSeats
  <1>1. SeatInvariant => ModuleSeats
    BY DEF SeatInvariant
  <1> QED
    BY <1>1, SeatInvariantHolds, PTL

-----------------------------------------------------------------------------
(* Deletions: what is gone stays gone, and a deletion leaves nothing behind it. *)

\* A tenant gets subscriptions from those that were asked for.
LEMMA SubSteps ==
    ASSUME Ground, [Next]_vars, NEW t, NEW m, <<t, m>> \in subs', <<t, m>> \notin subs
    PROVE  \E p \in posts : p.tenant = t
  <1>1. CASE Unbilled
    BY <1>1 DEF Unbilled
  <1>2. CASE Gateway
    <2>1. PICK p \in posts : tryClaimTrial(p) \/ \E o \in Outcomes : KillBillAnswers(p, o)
      BY <1>2 DEF Gateway
    <2>2. subs' \subseteq subs \cup {<<p.tenant, p.mod>>}
      BY <2>1 DEF tryClaimTrial, KillBillAnswers
    <2> QED
      BY <2>2
  <1>3. CASE \E r \in Requests : Asks(r) \/ GivesUp(r)
    BY <1>3 DEF Asks, GivesUp
  <1> QED
    BY <1>1, <1>2, <1>3, BillingSteps

\* A tenant in use gets users from the requests about it.
LEMMA TenantGains ==
    ASSUME Ground, [Next]_vars, NEW t \in used, NEW e \in Emails, kc'[e].tenant = t, kc[e].tenant # t
    PROVE  \E s \in Busy : req[s].tenant = t /\ req[s].op # "delete"
  <1>1. t # NoTenant
    BY Types, TenantAssumption
  <1>2. ~Emptied(e) /\ kc'[e] # kc[e] /\ \A s \in Requests : ~Founded(s, e)
    BY <1>1 DEF Emptied, Founded
  <1>3. PICK s \in Requests : WrittenBy(s, e)
    BY <1>2, UserSteps
  <1> QED
    BY <1>3 DEF WrittenBy, Busy

\* A tenant that is gone stays gone.
LEMMA GoneStays ==
    ASSUME Ground, DeletionInvariant, [Next]_vars, NEW t \in gone, t \notin raced'
    PROVE  /\ \A e \in Emails : kc'[e].tenant # t
           /\ keys'[t] = {} /\ t \notin data' \cup secrets'
           /\ \A m \in Modules : <<t, m>> \notin subs'
           /\ \A r \in Requests : req'[r].tenant # t
           /\ \A p \in posts' : p.tenant # t
  <1>1. /\ t \in gone \ raced /\ t \in used /\ t \in Tenants /\ t # NoTenant
    BY Growth, Types, TenantAssumption DEF DeletionInvariant
  <1>2. /\ \A e \in Emails : kc[e].tenant # t
        /\ keys[t] = {} /\ t \notin data \cup secrets
        /\ \A m \in Modules : <<t, m>> \notin subs
    BY <1>1 DEF DeletionInvariant, DeletedIsGone
  <1>3. /\ \A r \in Requests : req[r].tenant # t
        /\ \A p \in posts : p.tenant # t
    BY <1>1 DEF DeletionInvariant, Closed
  <1>4. \A e \in Emails : kc'[e].tenant # t
    BY <1>1, <1>2, <1>3, TenantGains DEF Busy
  <1>5. \A p \in posts' : p.tenant # t
    BY <1>3, PostSteps DEF Busy
  <1>6. \A m \in Modules : <<t, m>> \notin subs'
    BY <1>2, <1>3, SubSteps
  <1>7. ASSUME NEW b \in Requests, NEW x \in RequestType, Begin(b, x), Arrived(x)
        PROVE  /\ keys'[t] = {} /\ t \notin data' \cup secrets'
               /\ \A r \in Requests : req'[r].tenant # t
    <2>1. /\ keys' = keys /\ data' = data /\ secrets' = secrets
          /\ req'[b] = x /\ \A s \in Requests \ {b} : req'[s] = req[s]
      BY <1>7, Types DEF Begin, tables
    <2>2. x.tenant # t
      BY <1>1, <1>2, <1>7 DEF Arrived
    <2> QED
      BY <1>2, <1>3, <2>1, <2>2
  <1>8. ASSUME NEW b \in Requests, Moves(b), Spares(b)
        PROVE  /\ keys'[t] = {} /\ t \notin data' \cup secrets'
               /\ \A r \in Requests : req'[r].tenant # t
    <2>1. keys'[t] = {} /\ t \notin data' \cup secrets'
      BY <1>1, <1>2, <1>3, <1>8 DEF Spares
    <2>2. req'[b].tenant # t
      BY <1>1, <1>2, <1>3, <1>8, Blanks DEF Moves, Onward, Settles, Finds, Deletes, Admits
    <2> QED
      BY <1>3, <1>8, <2>1, <2>2 DEF Moves
  <1>9. ASSUME Watches
        PROVE  /\ keys'[t] = {} /\ t \notin data' \cup secrets'
               /\ \A r \in Requests : req'[r].tenant # t
    <2>1. keys'[t] = {}
      BY <1>1, <1>2, <1>9 DEF Watches
    <2>2. t \notin data' \cup secrets'
      BY <1>2, <1>9 DEF Watches
    <2>3. \A r \in Requests : req'[r].tenant # t
      BY <1>3, <1>9 DEF Watches
    <2> QED
      BY <2>1, <2>2, <2>3
  <1>10. /\ keys'[t] = {} /\ t \notin data' \cup secrets'
         /\ \A r \in Requests : req'[r].tenant # t
    BY <1>7, <1>8, <1>9, RequestSteps
  <1> QED
    BY <1>4, <1>5, <1>6, <1>10

\* A deletion that ends without a fault leaves nothing of its tenant.
LEMMA GoneStarts ==
    ASSUME Ground, OverlapInvariant, DeletionInvariant, NEW r \in Requests, Moves(r), Spares(r), Closes(r),
           NEW t \in gone' \ gone, t \notin raced'
    PROVE  /\ \A e \in Emails : kc'[e].tenant # t
           /\ keys'[t] = {} /\ t \notin data' \cup secrets'
           /\ \A m \in Modules : <<t, m>> \notin subs'
           /\ \A s \in Requests : req'[s].tenant # t
           /\ \A p \in posts' : p.tenant # t
  <1>1. /\ t = req[r].tenant /\ ~req[r].bad /\ \A m \in Modules : <<t, m>> \notin subs'
        /\ kc' = kc /\ keys' = keys /\ data' = data /\ secrets' = secrets /\ posts' = posts
        /\ req[r].op = "delete" /\ req[r].pc = "cancel" /\ req'[r] = Idle /\ t \in used
    BY DEF Closes
  <1>2. t \in Tenants /\ t \notin raced /\ t # NoTenant /\ r \in Busy
    BY <1>1, Types, TenantAssumption DEF Spares, Busy
  <1>3. Removed(req[r], t)
    BY <1>1, <1>2 DEF DeletionInvariant
  <1>4. \A e \in Emails : kc[e].tenant # t
    BY <1>1, <1>3 DEF Removed
  <1>5. keys[t] = {} /\ t \notin data \cup secrets
    BY <1>1, <1>3 DEF Removed
  <1>6. ASSUME NEW s \in Requests
        PROVE  req'[s].tenant # t
    <2>1. CASE s = r
      BY <1>1, <1>2, <2>1, Blanks
    <2>2. CASE s # r
      <3>1. req'[s] = req[s]
        BY <2>2 DEF Moves
      <3>2. req[s].tenant = t => s \in Busy
        <4>1. Stage(req[s], used, made)
          BY RequestFacts
        <4> QED
          BY <1>2, <4>1 DEF Stage, Busy
      <3> QED
        BY <1>1, <1>2, <2>2, <3>1, <3>2 DEF OverlapInvariant
    <2> QED
      BY <2>1, <2>2
  <1>7. \A p \in posts : p.tenant # t
    BY <1>1, <1>2 DEF OverlapInvariant
  <1> QED
    BY <1>1, <1>4, <1>5, <1>6, <1>7

\* What a deletion has removed stays removed while it goes on.
LEMMA RemovedStays ==
    ASSUME Ground, OverlapInvariant, DeletionInvariant, [Next]_vars, NEW r \in Requests, NEW t \in Tenants,
           t = req'[r].tenant, t \notin raced', req'[r].op = "delete", ~req'[r].bad
    PROVE  Removed(req[r], t)'
  <1>1. t \notin raced /\ t # NoTenant
    BY Growth, TenantAssumption
  <1>2. ASSUME req[r].op = "delete", req[r].tenant = t
        PROVE  /\ r \in Busy /\ t \in used
               /\ \A s \in Busy \ {r} : req[s].tenant # t
               /\ \A e \in Emails : kc'[e].tenant = t => kc[e].tenant = t
    <2>1. r \in Busy /\ t \in used
      <3>1. Stage(req[r], used, made)
        BY RequestFacts
      <3> QED
        BY <1>1, <1>2, <3>1 DEF Stage, Busy
    <2>2. \A s \in Busy \ {r} : req[s].tenant # t
      BY <1>1, <1>2, <2>1 DEF OverlapInvariant
    <2>3. \A e \in Emails : kc'[e].tenant = t => kc[e].tenant = t
      BY <1>2, <2>1, <2>2, TenantGains
    <2> QED
      BY <2>1, <2>2, <2>3
  <1>3. ASSUME NEW b \in Requests, NEW x \in RequestType, Begin(b, x), Arrived(x)
        PROVE  Removed(req[r], t)'
    <2>1. /\ kc' = kc /\ keys' = keys /\ data' = data /\ secrets' = secrets
          /\ req'[b] = x /\ \A s \in Requests \ {b} : req'[s] = req[s]
      BY <1>3, Types DEF Begin, tables
    <2>2. CASE r = b
      <3>1. x.op = "delete" /\ x.pc = "find" /\ Stage(x, used, made)
        BY <1>3, <2>1, <2>2 DEF Arrived
      <3> QED
        BY <1>1, <2>1, <2>2, <3>1 DEF Stage
    <2>3. CASE r # b
      <3>1. req'[r] = req[r] /\ Removed(req[r], t)
        BY <1>1, <2>1, <2>3 DEF DeletionInvariant
      <3> QED
        BY <2>1, <3>1 DEF Removed
    <2> QED
      BY <2>2, <2>3
  <1>4. ASSUME NEW b \in Requests, Moves(b), Spares(b)
        PROVE  Removed(req[r], t)'
    <2>1. CASE r = b
      <3>1. Finds(r) \/ Deletes(r)
        BY <1>1, <1>4, <2>1, Blanks DEF Moves, Onward, Settles, Admits
      <3>2. CASE Deletes(r)
        <4>1. /\ req[r].op = "delete" /\ req[r].tenant = t /\ ~req[r].bad
              /\ Removed(req[r], req[r].tenant) => Removed(req[r], req[r].tenant)'
          BY <3>2 DEF Deletes
        <4>2. Removed(req[r], req[r].tenant)
          BY <1>1, <4>1 DEF DeletionInvariant
        <4>3. Removed(req[r], req[r].tenant)'
          BY <4>1, <4>2
        <4> QED
          BY <4>3 DEF Removed
      <3>3. CASE Finds(r)
        <4> DEFINE e == req[r].email
        <4>1. /\ req'[r].pc = "users" /\ t = kc[e].tenant /\ e \in Emails /\ kc' = kc
              /\ kc[e].role \notin SubRoles /\ req'[r].todo = {e} \cup SubUsers(t)
          BY <3>3 DEF Finds
        <4>2. ASSUME NEW f \in Emails, kc[f].tenant = t
              PROVE  f \in req'[r].todo
          <5>1. /\ kc[e] \in Known(e) /\ kc[e] \in Users /\ Record(kc[e], used, made)
                /\ kc[f] \in Known(f) /\ kc[f] \in Users /\ Record(kc[f], used, made)
            BY <4>1, RequestFacts
          <5>2. kc[e].role = "tenant_admin"
            BY <1>1, <4>1, <5>1 DEF Record, Users, Roles, SubRoles
          <5>3. kc[f].role = "tenant_admin" \/ kc[f].role \in SubRoles
            BY <1>1, <4>2, <5>1 DEF Record, Users, Roles, SubRoles
          <5>4. CASE kc[f].role = "tenant_admin"
            BY <4>1, <4>2, <5>1, <5>2, <5>4 DEF Ground, OneAdmin
          <5>5. CASE kc[f].role \in SubRoles
            BY <4>1, <4>2, <5>5 DEF SubUsers
          <5> QED
            BY <5>3, <5>4, <5>5
        <4> QED
          BY <4>1, <4>2 DEF Removed
      <3> QED
        BY <3>1, <3>2, <3>3
    <2>2. CASE r # b
      <3>1. req'[r] = req[r] /\ Removed(req[r], t)
        BY <1>1, <1>4, <2>2 DEF Moves, DeletionInvariant
      <3>2. /\ req[b].tenant # t
            /\ \A e \in Emails : kc'[e].tenant = t => kc[e].tenant = t
        BY <1>2, <1>4, <2>2, <3>1 DEF Spares, Busy
      <3>3. /\ keys'[t] = keys[t] \/ keys'[t] = {}
            /\ data' \cup secrets' \subseteq data \cup secrets
        BY <1>4, <3>2 DEF Spares
      <3> QED
        BY <3>1, <3>2, <3>3 DEF Removed
    <2> QED
      BY <2>1, <2>2
  <1>5. ASSUME Watches
        PROVE  Removed(req[r], t)'
    <2>1. /\ req[r].op = "delete" /\ req[r].tenant = t /\ ~req[r].bad
          /\ req'[r].pc = req[r].pc /\ req'[r].todo = req[r].todo
      BY <1>5 DEF Watches
    <2>2. Removed(req[r], t)
      BY <1>1, <2>1 DEF DeletionInvariant
    <2>3. /\ r \in Busy /\ \A e \in Emails : kc'[e].tenant = t => kc[e].tenant = t
      BY <1>2, <2>1
    <2>4. keys'[t] = keys[t] \/ "active" \in keys[t]
      BY <1>5 DEF Watches
    <2>5. t \notin data \cup secrets => t \notin data' \cup secrets'
      BY <1>1, <1>5, <2>1, <2>3 DEF Watches, Races
    <2> QED
      BY <2>1, <2>2, <2>3, <2>4, <2>5 DEF Removed
  <1> QED
    BY <1>3, <1>4, <1>5, RequestSteps

\* A step keeps all of it.
LEMMA DeletionKept ==
    ASSUME Ground, OverlapInvariant, DeletionInvariant, [Next]_vars
    PROVE  DeletionInvariant'
  <1>1. ASSUME NEW t \in gone', t \notin gone
        PROVE  \E r \in Requests : Moves(r) /\ Spares(r) /\ Closes(r) /\ t \in used
    <2>1. ASSUME NEW b \in Requests, NEW x \in RequestType, Begin(b, x)
          PROVE  gone' = gone
      BY <2>1 DEF Begin
    <2>2. Watches => gone' = gone
      BY DEF Watches
    <2>3. PICK r \in Requests : Moves(r) /\ Spares(r)
      BY <1>1, <2>1, <2>2, RequestSteps
    <2>4. Closes(r)
      BY <1>1, <2>3 DEF Spares
    <2>5. t \in used
      BY <1>1, <2>4 DEF Closes
    <2> QED
      BY <2>3, <2>4, <2>5
  <1>2. gone' \subseteq used'
    BY <1>1, Growth DEF DeletionInvariant
  <1>3. ASSUME NEW t \in gone', t \notin raced'
        PROVE  /\ \A e \in Emails : kc'[e].tenant # t
               /\ keys'[t] = {} /\ t \notin data' \cup secrets'
               /\ \A m \in Modules : <<t, m>> \notin subs'
               /\ \A r \in Requests : req'[r].tenant # t
               /\ \A p \in posts' : p.tenant # t
    <2>1. CASE t \in gone
      BY <1>3, <2>1, GoneStays
    <2>2. CASE t \notin gone
      BY <1>1, <1>3, <2>2, GoneStarts
    <2> QED
      BY <2>1, <2>2
  <1>4. DeletedIsGone'
    BY <1>3 DEF DeletedIsGone
  <1>5. \A t \in gone' \ raced' : Closed(t)'
    BY <1>3 DEF Closed
  <1>6. ASSUME NEW r \in Requests, req'[r].op = "delete", req'[r].tenant \in Tenants \ raced',
               ~req'[r].bad
        PROVE  Removed(req[r], req[r].tenant)'
    <2>1. PICK t \in Tenants : t = req'[r].tenant
      BY <1>6
    <2>2. Removed(req[r], t)'
      BY <1>6, <2>1, RemovedStays
    <2> QED
      BY <2>1, <2>2 DEF Removed
  <1> QED
    BY <1>2, <1>4, <1>5, <1>6 DEF DeletionInvariant

\* What deletions have removed, and what is gone.
THEOREM DeletionInvariantHolds == Spec => []DeletionInvariant
  <1>1. Init => DeletionInvariant
    BY Blanks DEF Init, DeletionInvariant, DeletedIsGone
  <1>2. Ground /\ OverlapInvariant /\ DeletionInvariant /\ [Next]_vars => DeletionInvariant'
    BY DeletionKept
  <1> QED
    BY <1>1, <1>2, GroundHolds, OverlapInvariantHolds, PTL DEF Spec

\* A deletion in which nothing failed leaves nothing of the tenant, and nothing of it
\* comes back, whatever tokens and requests there are.
THEOREM DeletedIsGoneHolds == Spec => []DeletedIsGone
  <1>1. DeletionInvariant => DeletedIsGone
    BY DEF DeletionInvariant
  <1> QED
    BY <1>1, DeletionInvariantHolds, PTL

=============================================================================
