---------------------------- MODULE TenantServices ----------------------------
(***************************************************************************)
(* What FlowEngine's account and user handlers share: the users Keycloak   *)
(* keeps, the accounts and subscriptions Kill Bill keeps behind its        *)
(* gateway, the tables of FlowEngine itself, and the requests in progress. *)
(*                                                                         *)
(* A request is a handler between its calls: req[r] holds what the handler *)
(* has read and where it stands.  Every call to another service ends in    *)
(* one of three ways: "ok", "refused" (an error status, nothing was done)  *)
(* or "lost" (it was done, the caller sees an exception).  MaxFaults       *)
(* bounds the calls that do not end well.                                  *)
(***************************************************************************)
EXTENDS Naturals, FiniteSets

CONSTANTS
    Emails, Tenants, Modules,
    Free,           \* SUBSET Modules: the modules with a plan of price 0
    ModuleSets,     \* SUBSET SUBSET Modules: what requests ask for
    Items,          \* [Modules -> SUBSET Features]: their sidebar_items
    Requests,       \* requests that may be in progress at once
    MaxRequests,    \* bound on the requests sent
    MaxFaults,      \* bound on the calls that fail
    NoTenant,       \* tenant of a user without attributes
    StartUsers,     \* [Emails -> Users]: whom Keycloak knows at the start
    StartModules    \* SUBSET Modules: what the tenants of those users subscribe to

Features == {"users", "datasources"}
Outcomes == {"ok", "refused", "lost"}
Roles    == {"tenant_admin", "tenant_co_admin", "tenant_module_user", "none"}
SubRoles == {"tenant_co_admin", "tenant_module_user"}
Statuses == {"active", "inactive"}

\* A user and the attributes FlowEngine writes; id changes when a user is made anew.
Users  == [tenant : Tenants \cup {NoTenant}, role : Roles, status : Statuses,
           mods : SUBSET Modules, id : Nat]
NoUser == [tenant |-> NoTenant, role |-> "none", status |-> "inactive",
           mods |-> {}, id |-> 0]

StartTenants == {StartUsers[e].tenant : e \in Emails} \ {NoTenant}

ASSUME TenantAssumption ==
    /\ NoTenant \notin Tenants
    /\ Free \subseteq Modules /\ StartModules \subseteq Free
    /\ ModuleSets \subseteq SUBSET Modules
    /\ Items \in [Modules -> SUBSET Features]
    /\ IsFiniteSet(Emails)
    /\ StartUsers \in [Emails -> Users]
    /\ MaxRequests \in Nat /\ MaxFaults \in Nat

\* Whom Keycloak knows: ids are its own, an attribute comes with the others, and
\* a tenant has one administrator.
ASSUME StartAssumption ==
    /\ \A e \in Emails :
          /\ StartUsers[e] = NoUser \/ StartUsers[e].id \in 1..Cardinality(Emails)
          /\ StartUsers[e].tenant = NoTenant <=> StartUsers[e].role = "none"
    /\ \A e, f \in Emails :
          StartUsers[e].role = "tenant_admin" /\ StartUsers[f].role = "tenant_admin"
             /\ StartUsers[e].tenant = StartUsers[f].tenant => e = f

VARIABLES
    kc,         \* [Emails -> Users]: Keycloak
    accounts,   \* SUBSET Tenants: Kill Bill accounts, by externalKey
    subs,       \* SUBSET (Tenants \X Modules): ACTIVE subscriptions
    trials,     \* SUBSET (Tenants \X Modules): the gateway's trial_usage
    posts,      \* subscription POSTs the gateway has not answered
    keys,       \* [Tenants -> SUBSET Statuses]: statuses among auth.api_clients
    data,       \* SUBSET Tenants: have rows in eivs.*
    secrets,    \* SUBSET Tenants: have secrets in Vault
    tokens,     \* SUBSET Tenants: a JWT was made by POST /auth/token (it may be used
                \*   as long as it lives: expiry is left out)
    req,        \* [Requests -> request]
    served, made, faults,   \* requests sent, users made, calls that failed
    used,       \* tenant ids generated so far
    granted,    \* ghost: every subscription that was ever active
    gone,       \* ghost: tenants deleted without a fault
    orphans,    \* ghost: tenants whose admin was written by a call that raised
    raced       \* ghost: tenants two requests were about at the same time,
                \*   whose limits could not be counted, or whose deletion was
                \*   asked for an administrator and met a sub-user

billing == <<accounts, subs, trials, posts, granted>>
tables  == <<keys, data, secrets, tokens>>
meters  == <<served, made, faults>>
issued  == <<used, orphans>>
vars    == <<kc, billing, tables, req, meters, issued, gone, raced>>

Idle == [op |-> "none", pc |-> "idle", email |-> "none", tenant |-> NoTenant,
         mods |-> {}, status |-> "active", role |-> "none", todo |-> {},
         seen |-> [e \in Emails |-> NoUser], id |-> 0, tries |-> 0, bad |-> FALSE]

Init ==
    /\ kc       = StartUsers
    /\ accounts = StartTenants
    /\ subs     = StartTenants \X StartModules
    /\ trials   = StartTenants \X StartModules
    /\ granted  = StartTenants \X StartModules
    /\ posts    = {}
    /\ keys     = [t \in Tenants |-> IF t \in StartTenants THEN {"active"} ELSE {}]
    /\ data = {} /\ secrets = {} /\ tokens = {}
    /\ req      = [r \in Requests |-> Idle]
    /\ served = 0 /\ made = Cardinality(Emails) /\ faults = 0
    /\ used = StartTenants
    /\ gone = {} /\ raced = {} /\ orphans = {}

-----------------------------------------------------------------------------
(* The requests. *)

At(r, op, pc) == req[r].op = op /\ req[r].pc = pc

Busy == {r \in Requests : req[r].pc # "idle"}

\* The call a handler makes ends with o.
Call(o) ==
    \/ o = "ok" /\ faults' = faults
    \/ o # "ok" /\ faults < MaxFaults /\ faults' = faults + 1

Done(o)   == o # "refused"
Goto(r, pc)  == req' = [req EXCEPT ![r].pc = pc]
Finish(r)    == req' = [req EXCEPT ![r] = Idle]

\* A request about tenant t arrives while another one about t is in progress, or
\* a subscription it asked for and no longer waits for.
Races(t) ==
    /\ t # NoTenant
    /\ (\E s \in Busy : req[s].tenant = t) \/ (\E p \in posts : p.tenant = t)

Begin(r, x) ==
    /\ r \notin Busy /\ served < MaxRequests
    /\ served' = served + 1
    /\ req' = [req EXCEPT ![r] = x]
    /\ raced' = IF Races(x.tenant) THEN raced \cup {x.tenant} ELSE raced
    /\ UNCHANGED <<kc, billing, tables, made, faults, issued, gone>>

-----------------------------------------------------------------------------
(* Keycloak, as the handlers use its admin API.  A PUT or DELETE names the   *)
(* id the handler has read; Keycloak answers 404 for one it no longer has.   *)

Has(e) == kc[e] # NoUser

SubUsers(t) == {e \in Emails : kc[e].tenant = t /\ kc[e].role \in SubRoles}

PutUser(e, u)     == [kc EXCEPT ![e] = IF @.id = u.id THEN u ELSE @]
DeleteUser(e, id) == [kc EXCEPT ![e] = IF @.id = id THEN NoUser ELSE @]

\* GET /users?email=...: the handler keeps a copy of what it read.
Copy(S) == [e \in Emails |-> IF e \in S THEN kc[e] ELSE NoUser]

-----------------------------------------------------------------------------
(* The gateway in front of Kill Bill.  A POST of a subscription to a free    *)
(* plan first claims the module's trial; the claim is released when Kill     *)
(* Bill answers anything but 201, not when it cannot be reached.             *)

Post(r, t, m) == [by |-> {r}, tenant |-> t, mod |-> m, claimed |-> FALSE]

PostsOf(r) == {p \in posts : p.by = {r}}

\* The answer reaches the handler that waits for it, if one still does.
Answer(p, ok) ==
    req' = [r \in Requests |->
              IF p.by = {r} THEN [req[r] EXCEPT !.bad = @ \/ ~ok] ELSE req[r]]

\* Mutant: INSERT OR REPLACE, which changes a row either way.
ReplaceClaim(p) ==
    /\ p \in posts /\ ~p.claimed
    /\ posts' = (posts \ {p}) \cup {[p EXCEPT !.claimed = TRUE]}
    /\ trials' = trials \cup {<<p.tenant, p.mod>>}
    /\ UNCHANGED <<kc, accounts, subs, tables, meters, issued, granted, gone, raced, req>>

tryClaimTrial(p) ==
    /\ p \in posts /\ ~p.claimed
    /\ IF <<p.tenant, p.mod>> \in trials
       THEN /\ posts' = posts \ {p} /\ Answer(p, FALSE) /\ UNCHANGED trials
       ELSE /\ posts' = (posts \ {p}) \cup {[p EXCEPT !.claimed = TRUE]}
            /\ trials' = trials \cup {<<p.tenant, p.mod>>}
            /\ UNCHANGED req
    /\ UNCHANGED <<kc, accounts, subs, tables, meters, issued, granted, gone, raced>>

releaseTrialClaim(p) == trials' = trials \ {<<p.tenant, p.mod>>}

\* Kill Bill answers the gateway; "lost" is the gateway's connection error.
KillBillAnswers(p, o) ==
    /\ p \in posts /\ p.claimed
    /\ Call(o)
    /\ posts' = posts \ {p}
    /\ IF Done(o)
       THEN /\ subs'    = subs \cup {<<p.tenant, p.mod>>}
            /\ granted' = granted \cup {<<p.tenant, p.mod>>}
            /\ UNCHANGED trials
       ELSE /\ releaseTrialClaim(p) /\ UNCHANGED <<subs, granted>>
    /\ Answer(p, o = "ok")
    /\ UNCHANGED <<kc, accounts, tables, served, made, issued, gone, raced>>

\* The modules a tenant subscribes to; none when Kill Bill cannot be asked.
get_active_modules_from_killbill(t) ==
    IF t \in accounts THEN {m \in Modules : <<t, m>> \in subs} ELSE {}

\* Whether an active subscription's module lists the feature.
CheckKillBillSubscription(t, feature) ==
    \E m \in get_active_modules_from_killbill(t) : feature \in Items[m]

=============================================================================
