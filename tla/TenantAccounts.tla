---------------------------- MODULE TenantAccounts ----------------------------
(***************************************************************************)
(* modules/accounts of FlowEngine: the handlers that create, delete,       *)
(* upgrade and edit a tenant's account, call by call.  An account exists   *)
(* in three places (Keycloak, Kill Bill, FlowEngine's tables) that no      *)
(* transaction spans; what the handlers do when a call fails between two   *)
(* of them is what this module is about.  account_type, e-mails and the    *)
(* first_login milestone are left out: nothing here depends on them.       *)
(***************************************************************************)
EXTENDS TenantServices

\* The accounts the console offers to edit, upgrade and delete.
list_all_accounts == {e \in Emails : kc[e].role = "tenant_admin"}

-----------------------------------------------------------------------------
(* POST /api/accounts, POST /auth/register, and the Google callback.  *)

BeginCreate(r, e, M) ==
    Begin(r, [Idle EXCEPT !.op = "create", !.pc = "user", !.email = e, !.mods = M])

\* The callback has found that the Google user has no tenant yet.
BeginGoogle(r, e, M) ==
    /\ Has(e) /\ kc[e].tenant = NoTenant
    /\ Begin(r, [Idle EXCEPT !.op = "create", !.pc = "attach", !.email = e, !.mods = M,
                             !.id = kc[e].id])

\* generate_tenant_id is repeated until no user has the id.
NewTenantId == {t \in Tenants \ used : \A e \in Emails : kc[e].tenant # t}

Admin(t, M, id) == [tenant |-> t, role |-> "tenant_admin", status |-> "active",
                    mods |-> M, id |-> id]

\* The duplicate check and the POST of the user, whose 409 says the same.
CreateAdmin(r, o) ==
    /\ At(r, "create", "user")
    /\ Call(o)
    /\ IF Has(req[r].email)
       THEN Finish(r) /\ UNCHANGED <<kc, made, issued>>
       ELSE \E t \in NewTenantId :
              /\ used' = used \cup {t} /\ made' = made + 1
              /\ kc' = IF Done(o) THEN [kc EXCEPT ![req[r].email] = Admin(t, req[r].mods, made')]
                                  ELSE kc
              /\ orphans' = IF o = "lost" THEN orphans \cup {t} ELSE orphans
              /\ IF o = "ok"
                 THEN req' = [req EXCEPT ![r].pc = "account", ![r].tenant = t, ![r].id = made']
                 ELSE Finish(r)
    /\ UNCHANGED <<billing, tables, served, gone, raced>>

\* A Google user's attributes are replaced, whatever they have become meanwhile.
AttachTenant(r, o) ==
    /\ At(r, "create", "attach")
    /\ Call(o)
    /\ \E t \in NewTenantId :
         LET e == req[r].email
             found == kc[e].id = req[r].id
         IN /\ used' = used \cup {t}
            /\ orphans' = IF o = "lost" THEN orphans \cup {t} ELSE orphans
            /\ kc' = IF Done(o) THEN PutUser(e, Admin(t, req[r].mods, req[r].id)) ELSE kc
            /\ IF o = "ok" /\ found
               THEN req' = [req EXCEPT ![r].pc = "account", ![r].tenant = t]
               ELSE Finish(r)
            /\ raced' = IF found /\ kc[e].tenant # NoTenant
                        THEN raced \cup {t, kc[e].tenant} ELSE raced
    /\ UNCHANGED <<billing, tables, served, made, gone>>

ToRollback(r, n) == req' = [req EXCEPT ![r].pc = "rollback", ![r].tries = n]

CreateKbAccount(r, o) ==
    /\ At(r, "create", "account")
    /\ Call(o)
    /\ accounts' = IF Done(o) THEN accounts \cup {req[r].tenant} ELSE accounts
    /\ IF o = "ok" THEN Goto(r, "plans") ELSE ToRollback(r, 1)
    /\ UNCHANGED <<kc, subs, trials, posts, granted, tables, served, made, issued, gone, raced>>

\* The plans are fetched: an error status means no subscriptions, an exception
\* a rollback.  All subscriptions are asked for at once (asyncio.gather).
SubscribeAll(r, o) ==
    /\ At(r, "create", "plans")
    /\ Call(o)
    /\ LET wanted == req[r].mods \cap Free
       IN  posts' = IF o = "ok" THEN posts \cup {Post(r, req[r].tenant, m) : m \in wanted}
                                ELSE posts
    /\ IF o = "lost" THEN ToRollback(r, 2) ELSE Goto(r, "subs")
    /\ UNCHANGED <<kc, accounts, subs, trials, granted, tables, served, made, issued, gone, raced>>

\* gather returns once every call is answered; the answers are not looked at.
AllSubscribed(r) ==
    /\ At(r, "create", "subs") /\ PostsOf(r) = {}
    /\ Goto(r, "key")
    /\ UNCHANGED <<kc, billing, tables, meters, issued, gone, raced>>

Detached(p) == [p EXCEPT !.by = {}]

\* One call times out: gather raises, the calls themselves go on.
SubscribeTimesOut(r) ==
    /\ At(r, "create", "subs") /\ PostsOf(r) # {}
    /\ Call("lost")
    /\ posts' = (posts \ PostsOf(r)) \cup {Detached(p) : p \in PostsOf(r)}
    /\ ToRollback(r, 2)
    /\ UNCHANGED <<kc, accounts, subs, trials, granted, tables, served, made, issued, gone, raced>>

\* Mutant: a failed Kill Bill call is reported without deleting the user.
NoRollback(r, o) ==
    /\ At(r, "create", "rollback")
    /\ Call(o)
    /\ Finish(r)
    /\ UNCHANGED <<kc, billing, tables, served, made, issued, gone, raced>>

\* The Keycloak user is deleted: by both handlers when a subscription fails.
Rollback(r, o) ==
    /\ At(r, "create", "rollback")
    /\ Call(o)
    /\ kc' = IF Done(o) THEN DeleteUser(req[r].email, req[r].id) ELSE kc
    /\ IF req[r].tries > 1 THEN ToRollback(r, req[r].tries - 1) ELSE Finish(r)
    /\ UNCHANGED <<billing, tables, served, made, issued, gone, raced>>

\* tools/create_api_key: the active key is deactivated, a new one inserted.
NewKey(t) == [keys EXCEPT ![t] = IF @ = {} THEN {"active"} ELSE Statuses]

\* Best effort: the account stands without a key.
AutoKey(r, o) ==
    /\ At(r, "create", "key")
    /\ Call(o)
    /\ keys' = IF Done(o) THEN NewKey(req[r].tenant) ELSE keys
    /\ Finish(r)
    /\ UNCHANGED <<kc, billing, data, secrets, tokens, served, made, issued, gone, raced>>

create_account(r) ==
    \/ \E o \in Outcomes : CreateAdmin(r, o) \/ AttachTenant(r, o) \/ CreateKbAccount(r, o)
                             \/ SubscribeAll(r, o) \/ Rollback(r, o) \/ AutoKey(r, o)
    \/ AllSubscribed(r) \/ SubscribeTimesOut(r)

-----------------------------------------------------------------------------
(* DELETE /api/accounts/{email}. *)

BeginDelete(r, e) ==
    /\ e \in list_all_accounts
    /\ Begin(r, [Idle EXCEPT !.op = "delete", !.pc = "find", !.email = e])

\* The account is looked up by its e-mail, whoever has it now, then its sub-users
\* are; a listing that fails is taken for no sub-users.
DeleteFind(r, o) ==
    /\ At(r, "delete", "find")
    /\ Call(o)
    /\ LET t == kc[req[r].email].tenant
       IN  IF t = NoTenant THEN Finish(r)
           ELSE req' = [req EXCEPT ![r].pc = "users", ![r].tenant = t, ![r].bad = o # "ok",
                  ![r].todo = {req[r].email} \cup IF o = "ok" THEN SubUsers(t) ELSE {}]
    /\ LET u == kc[req[r].email]
       IN  raced' = IF Races(u.tenant) \/ u.role \in SubRoles THEN raced \cup {u.tenant} ELSE raced
    /\ UNCHANGED <<kc, billing, tables, served, made, issued, gone>>

\* The admin first, then the others.  The status of the DELETE is not looked at;
\* an exception ends the request.
DeleteOne(r, e, o) ==
    /\ At(r, "delete", "users")
    /\ e \in req[r].todo /\ (req[r].email \in req[r].todo => e = req[r].email)
    /\ Call(o)
    /\ kc' = IF Done(o) THEN [kc EXCEPT ![e] = NoUser] ELSE kc
    /\ IF o = "lost" THEN Finish(r)
       ELSE req' = [req EXCEPT ![r].todo = @ \ {e}, ![r].bad = @ \/ o # "ok"]
    /\ UNCHANGED <<billing, tables, served, made, issued, gone, raced>>

DeleteKeys(r) ==
    /\ At(r, "delete", "users") /\ req[r].todo = {}
    /\ keys' = [keys EXCEPT ![req[r].tenant] = {}]
    /\ Goto(r, "purge")
    /\ UNCHANGED <<kc, billing, data, secrets, tokens, meters, issued, gone, raced>>

\* TenantPurgeService.purge: the five tables in one transaction; returns the
\* paths of the secrets it found.
purge(t) == data' = data \ {t}

\* A purge that fails is only logged; the secrets are deleted after it.
PurgeTenant(r, o) ==
    /\ At(r, "delete", "purge")
    /\ Call(o)
    /\ IF o = "ok" THEN purge(req[r].tenant) /\ secrets' = secrets \ {req[r].tenant}
       ELSE UNCHANGED <<data, secrets>>
    /\ req' = [req EXCEPT ![r].pc = "cancel", ![r].bad = @ \/ o # "ok"]
    /\ UNCHANGED <<kc, billing, keys, tokens, served, made, issued, gone, raced>>

\* DELETE /api/v1/tenant/{id}/purge, which leaves the secrets to its caller.
purge_tenant(t) ==
    /\ purge(t)
    /\ UNCHANGED <<kc, billing, keys, secrets, tokens, req, meters, issued, gone, raced>>

\* Mutant: the subscriptions of a deleted tenant are left as they are.
KeepSubs(r, o) ==
    /\ At(r, "delete", "cancel")
    /\ Call(o)
    /\ subs' = subs
    /\ gone' = IF o = "ok" /\ ~req[r].bad THEN gone \cup {req[r].tenant} ELSE gone
    /\ Finish(r)
    /\ UNCHANGED <<kc, accounts, trials, posts, granted, tables, served, made, issued, raced>>

\* Every subscription is cancelled; a failure leaves some of them, and is logged.
CancelSubs(r, o) ==
    /\ At(r, "delete", "cancel")
    /\ Call(o)
    /\ \E kept \in SUBSET {s \in subs : s[1] = req[r].tenant} :
         /\ o = "ok" => kept = {}
         /\ subs' = {s \in subs : s[1] # req[r].tenant} \cup kept
    /\ gone' = IF o = "ok" /\ ~req[r].bad THEN gone \cup {req[r].tenant} ELSE gone
    /\ Finish(r)
    /\ UNCHANGED <<kc, accounts, trials, posts, granted, tables, served, made, issued, raced>>

delete_account(r) ==
    \/ \E o \in Outcomes : DeleteFind(r, o) \/ PurgeTenant(r, o) \/ CancelSubs(r, o)
    \/ \E o \in Outcomes, e \in Emails : DeleteOne(r, e, o)
    \/ DeleteKeys(r)

-----------------------------------------------------------------------------
(* PATCH /api/accounts/{email}/upgrade and POST /auth/upgrade-to-production. *)

BeginUpgrade(r, e) ==
    /\ Has(e) /\ kc[e].tenant # NoTenant
    /\ Begin(r, [Idle EXCEPT !.op = "upgrade", !.pc = "put", !.email = e,
                             !.tenant = kc[e].tenant, !.seen = Copy({e})])

\* The attributes read before are written back, account_type changed.
UpgradePut(r, o) ==
    /\ At(r, "upgrade", "put")
    /\ Call(o)
    /\ LET u == req[r].seen[req[r].email]
       IN /\ kc' = IF Done(o) THEN PutUser(req[r].email, u) ELSE kc
          /\ IF o = "ok" /\ kc[req[r].email].id = u.id THEN Goto(r, "keys") ELSE Finish(r)
    /\ UNCHANGED <<billing, tables, served, made, issued, gone, raced>>

\* Every key of the tenant is active again, revoked ones included.
UpgradeKeys(r, o) ==
    /\ At(r, "upgrade", "keys")
    /\ Call(o)
    /\ keys' = IF Done(o) THEN [keys EXCEPT ![req[r].tenant] = IF @ = {} THEN {} ELSE {"active"}]
                          ELSE keys
    /\ Finish(r)
    /\ UNCHANGED <<kc, billing, data, secrets, tokens, served, made, issued, gone, raced>>

upgrade_account(r) == \E o \in Outcomes : UpgradePut(r, o) \/ UpgradeKeys(r, o)

-----------------------------------------------------------------------------
(* PATCH /api/accounts/{email}/edit: a new status and the modules M; those the *)
(* account already has stand for a body without "modules".                    *)

BeginEdit(r, e, st, M) ==
    /\ e \in list_all_accounts
    /\ Begin(r, [Idle EXCEPT !.op = "edit", !.pc = "put", !.email = e, !.tenant = kc[e].tenant,
                             !.status = st, !.mods = M, !.seen = Copy({e}),
                             !.todo = get_active_modules_from_killbill(kc[e].tenant)])

EditPut(r, o) ==
    /\ At(r, "edit", "put")
    /\ Call(o)
    /\ LET u == [req[r].seen[req[r].email] EXCEPT !.status = req[r].status]
       IN /\ kc' = IF Done(o) THEN PutUser(req[r].email, u) ELSE kc
          /\ IF o = "ok" /\ kc[req[r].email].id = u.id THEN Goto(r, "sync") ELSE Finish(r)
    /\ UNCHANGED <<billing, tables, served, made, issued, gone, raced>>

\* Kill Bill follows: the modules removed are cancelled, those added, if they
\* have a free plan, are left to subscribe to; an error ends the request.
SyncSubs(r, o) ==
    /\ At(r, "edit", "sync")
    /\ Call(o)
    /\ LET old     == req[r].todo
           removed == old \ req[r].mods
           added   == req[r].mods \ old
       IN IF old = req[r].mods
          THEN Goto(r, "cascade") /\ UNCHANGED subs
          ELSE IF o # "ok" \/ req[r].tenant \notin accounts
          THEN Finish(r) /\ UNCHANGED subs
          ELSE /\ subs' = subs \ ({req[r].tenant} \X removed)
               /\ req' = [req EXCEPT ![r].pc = "add", ![r].todo = added \cap Free,
                                     ![r].bad = ~(added \subseteq Free)]
    /\ UNCHANGED <<kc, accounts, trials, posts, granted, tables, served, made, issued, gone, raced>>

AddSub(r, m) ==
    /\ At(r, "edit", "add") /\ PostsOf(r) = {} /\ m \in req[r].todo
    /\ posts' = posts \cup {Post(r, req[r].tenant, m)}
    /\ req' = [req EXCEPT ![r].todo = @ \ {m}]
    /\ UNCHANGED <<kc, accounts, subs, trials, granted, tables, meters, issued, gone, raced>>

AddTimesOut(r) ==
    /\ At(r, "edit", "add") /\ PostsOf(r) # {}
    /\ Call("lost")
    /\ posts' = (posts \ PostsOf(r)) \cup {Detached(p) : p \in PostsOf(r)}
    /\ Finish(r)
    /\ UNCHANGED <<kc, accounts, subs, trials, granted, tables, served, made, issued, gone, raced>>

\* A module that could not be added makes it an error, and skips the cascade.
Synced(r) ==
    /\ At(r, "edit", "add") /\ PostsOf(r) = {} /\ req[r].todo = {}
    /\ IF req[r].bad THEN Finish(r) ELSE Goto(r, "cascade")
    /\ UNCHANGED <<kc, billing, tables, meters, issued, gone, raced>>

\* Disabling the account disables its sub-users: they are listed, ...
CascadeList(r, o) ==
    /\ At(r, "edit", "cascade")
    /\ Call(o)
    /\ IF req[r].status = "inactive" /\ o = "ok"
       THEN req' = [req EXCEPT ![r].pc = "disable", ![r].todo = SubUsers(req[r].tenant),
                               ![r].seen = Copy(SubUsers(req[r].tenant))]
       ELSE Finish(r)
    /\ UNCHANGED <<kc, billing, tables, served, made, issued, gone, raced>>

\* ... and each is written back as it was read, with the status changed.
CascadePut(r, e, o) ==
    /\ At(r, "edit", "disable") /\ e \in req[r].todo
    /\ Call(o)
    /\ kc' = IF Done(o) THEN PutUser(e, [req[r].seen[e] EXCEPT !.status = "inactive"]) ELSE kc
    /\ IF o = "lost" THEN Finish(r) ELSE req' = [req EXCEPT ![r].todo = @ \ {e}]
    /\ UNCHANGED <<billing, tables, served, made, issued, gone, raced>>

CascadeDone(r) ==
    /\ At(r, "edit", "disable") /\ req[r].todo = {}
    /\ Finish(r)
    /\ UNCHANGED <<kc, billing, tables, meters, issued, gone, raced>>

edit_account(r) ==
    \/ \E o \in Outcomes : EditPut(r, o) \/ SyncSubs(r, o) \/ CascadeList(r, o)
    \/ \E m \in Modules : AddSub(r, m)
    \/ AddTimesOut(r) \/ Synced(r) \/ CascadeDone(r)
    \/ \E o \in Outcomes, e \in Emails : CascadePut(r, e, o)

=============================================================================
