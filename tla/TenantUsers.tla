----------------------------- MODULE TenantUsers ------------------------------
(***************************************************************************)
(* modules/users and modules/auth of FlowEngine: the handlers a tenant's   *)
(* administrators manage its users with, logging in, API keys and the      *)
(* tokens made from them, and the check every feature's routes begin with. *)
(* The limits on users are counted in Keycloak by one call and written to  *)
(* it by a later one.                                                      *)
(***************************************************************************)
EXTENDS TenantServices

SeatLimit == 2

\* The users there are at the start keep the limit.
ASSUME SeatsAssumption ==
    \A t \in Tenants, m \in Modules :
        Cardinality({e \in Emails : /\ StartUsers[e].tenant = t
                                   /\ StartUsers[e].role = "tenant_module_user"
                                   /\ StartUsers[e].status = "active"
                                   /\ m \in StartUsers[e].mods}) <= SeatLimit

\* core/middleware/auth: a token's tenant and role are taken from the token,
\* the subscription is looked up now.
require_permission(t, feature) == CheckKillBillSubscription(t, feature)

count_active_co_admins(t) ==
    Cardinality({e \in Emails : /\ kc[e].tenant = t /\ kc[e].role = "tenant_co_admin"
                                /\ kc[e].status = "active"})

count_active_users_per_module(t, m) ==
    Cardinality({e \in Emails : /\ kc[e].tenant = t /\ kc[e].role = "tenant_module_user"
                                /\ kc[e].status = "active" /\ m \in kc[e].mods})

SeatsLeft(t, M) == \A m \in M : count_active_users_per_module(t, m) < SeatLimit

-----------------------------------------------------------------------------
(* POST /users. *)

BeginCreateUser(r, t, e, role, st, M) ==
    /\ require_permission(t, "users")
    /\ Begin(r, [Idle EXCEPT !.op = "create_user", !.pc = "check", !.email = e, !.tenant = t,
                             !.role = role, !.status = st, !.mods = M])

\* A count that cannot be made is 0: the limit is then not enforced.
CheckLimits(r, o) ==
    /\ At(r, "create_user", "check")
    /\ Call(o)
    /\ LET x == req[r]
       IN IF \/ o = "ok" /\ Has(x.email)
             \/ /\ o = "ok" /\ x.role = "tenant_co_admin"
                /\ count_active_co_admins(x.tenant) >= 1
             \/ /\ x.role = "tenant_module_user"
                /\ \/ x.mods = {}
                   \/ o = "ok" /\ x.status = "active" /\ ~SeatsLeft(x.tenant, x.mods)
          THEN Finish(r) ELSE Goto(r, "post")
    /\ raced' = IF o # "ok" THEN raced \cup {req[r].tenant} ELSE raced
    /\ UNCHANGED <<kc, billing, tables, served, made, issued, gone>>

Bare(id) == [NoUser EXCEPT !.status = "active", !.id = id]

\* A user without attributes; Keycloak answers 409 for an e-mail it knows.
PostKeycloakUser(r, o) ==
    /\ At(r, "create_user", "post")
    /\ Call(o)
    /\ IF Has(req[r].email)
       THEN Finish(r) /\ UNCHANGED <<kc, made>>
       ELSE /\ made' = made + 1
            /\ kc' = IF Done(o) THEN [kc EXCEPT ![req[r].email] = Bare(made')] ELSE kc
            /\ IF o = "ok" THEN req' = [req EXCEPT ![r].pc = "attrs", ![r].id = made']
                           ELSE Finish(r)
    /\ UNCHANGED <<billing, tables, served, issued, gone, raced>>

\* The attributes; when they are refused the user is deleted again.  The realm
\* role and the e-mail follow, and undo nothing when they fail.
WriteAttributes(r, o) ==
    /\ At(r, "create_user", "attrs")
    /\ Call(o)
    /\ LET x == req[r]
           u == [tenant |-> x.tenant, role |-> x.role, status |-> x.status, id |-> x.id,
                 mods |-> IF x.role = "tenant_module_user" THEN x.mods ELSE {}]
       IN  kc' = IF Done(o) THEN PutUser(x.email, u) ELSE [kc EXCEPT ![x.email] = NoUser]
    /\ Finish(r)
    /\ UNCHANGED <<billing, tables, served, made, issued, gone, raced>>

create_user(r) ==
    \E o \in Outcomes : CheckLimits(r, o) \/ PostKeycloakUser(r, o) \/ WriteAttributes(r, o)

-----------------------------------------------------------------------------
(* PATCH and DELETE /users/{id}. *)

\* A user of another tenant is reported as not found.
get_user_by_id(t, e) == Has(e) /\ kc[e].tenant = t

BeginUpdateUser(r, t, e, st, M) ==
    /\ require_permission(t, "users")
    /\ Begin(r, [Idle EXCEPT !.op = "update_user", !.pc = "check", !.email = e, !.tenant = t,
                             !.status = st, !.mods = M, !.id = kc[e].id])

\* Mutant: only a user that is activated takes a seat.
CheckActivation(r) ==
    LET x == req[r]
        u == kc[x.email]
    IN  u.role = "tenant_module_user" =>
          (x.status = "active" /\ u.status = "inactive" => SeatsLeft(x.tenant, x.mods))

\* The limits of update_user: for module users, being activated or given modules.
UpdateAllowed(r) ==
    LET x == req[r]
        u == kc[x.email]
    IN  u.role = "tenant_module_user" =>
          /\ x.status = "active" /\ u.status = "inactive" => SeatsLeft(x.tenant, x.mods)
          /\ SeatsLeft(x.tenant, x.mods \ u.mods)

CheckUpdate(r, o) ==
    /\ At(r, "update_user", "check")
    /\ Call(o)
    /\ LET e == req[r].email
       IN IF /\ get_user_by_id(req[r].tenant, e) /\ kc[e].id = req[r].id
             /\ o = "ok" => UpdateAllowed(r)
          THEN req' = [req EXCEPT ![r].pc = "put", ![r].seen = Copy({e})]
          ELSE Finish(r)
    /\ raced' = IF o # "ok" THEN raced \cup {req[r].tenant} ELSE raced
    /\ UNCHANGED <<kc, billing, tables, served, made, issued, gone>>

\* The user read before is written back with the changes.
UpdatePut(r, o) ==
    /\ At(r, "update_user", "put")
    /\ Call(o)
    /\ LET e == req[r].email
           u == [req[r].seen[e] EXCEPT !.status = req[r].status, !.mods = req[r].mods]
       IN  kc' = IF Done(o) THEN PutUser(e, u) ELSE kc
    /\ Finish(r)
    /\ UNCHANGED <<billing, tables, served, made, issued, gone, raced>>

update_user(r) == \E o \in Outcomes : CheckUpdate(r, o) \/ UpdatePut(r, o)

BeginDeleteUser(r, t, e) ==
    /\ require_permission(t, "users")
    /\ get_user_by_id(t, e)
    /\ Begin(r, [Idle EXCEPT !.op = "delete_user", !.pc = "del", !.email = e, !.tenant = t,
                             !.id = kc[e].id])

delete_user(r) ==
    \E o \in Outcomes :
        /\ At(r, "delete_user", "del")
        /\ Call(o)
        /\ kc' = IF Done(o) THEN DeleteUser(req[r].email, req[r].id) ELSE kc
        /\ Finish(r)
        /\ UNCHANGED <<billing, tables, served, made, issued, gone, raced>>

-----------------------------------------------------------------------------
(* Keys, tokens, and what a token is good for. *)

\* The federated login of a Google user makes a user without attributes.
FederatedLogin(e) ==
    /\ ~Has(e) /\ served < MaxRequests
    /\ served' = served + 1 /\ made' = made + 1
    /\ kc' = [kc EXCEPT ![e] = Bare(made')]
    /\ UNCHANGED <<billing, tables, req, faults, issued, gone, raced>>

\* get_tenant_from_api_key lets an active key through, and a JWT is made of it.
generate_token(t) ==
    /\ "active" \in keys[t]
    /\ tokens' = tokens \cup {t}
    /\ UNCHANGED <<kc, billing, keys, data, secrets, req, meters, issued, gone, raced>>

\* A sub-user trades a password for a JWT, if Keycloak says the user is active.
generate_user_token(e) ==
    /\ kc[e].role \in SubRoles /\ kc[e].status # "inactive"
    /\ tokens' = tokens \cup {kc[e].tenant}
    /\ UNCHANGED <<kc, billing, keys, data, secrets, req, meters, issued, gone, raced>>

revoke_api_key(t) ==
    /\ "active" \in keys[t]
    /\ keys' = [keys EXCEPT ![t] = {"inactive"}]
    /\ UNCHANGED <<kc, billing, data, secrets, tokens, req, meters, issued, gone, raced>>

\* A datasource is made with a JWT: rows, and a secret for its password.  While
\* its tenant is being deleted it may slip behind the purge.
UseToken(t) ==
    /\ t \in tokens /\ require_permission(t, "datasources")
    /\ data' = data \cup {t} /\ secrets' = secrets \cup {t}
    /\ raced' = IF Races(t) THEN raced \cup {t} ELSE raced
    /\ UNCHANGED <<kc, billing, keys, tokens, req, meters, issued, gone>>

=============================================================================
