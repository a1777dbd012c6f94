---------------------------- MODULE TenantPlatform ----------------------------
(***************************************************************************)
(* FlowEngine's tenants as a whole: the handlers of TenantAccounts and     *)
(* TenantUsers running at the same time against Keycloak, Kill Bill's      *)
(* gateway and FlowEngine's tables.                                        *)
(***************************************************************************)
EXTENDS TenantAccounts, TenantUsers

Arrive ==
    \E r \in Requests, e \in Emails :
        \/ \E M \in ModuleSets : BeginCreate(r, e, M) \/ BeginGoogle(r, e, M)
        \/ BeginDelete(r, e)
        \/ BeginUpgrade(r, e)
        \/ \E st \in Statuses, M \in ModuleSets : BeginEdit(r, e, st, M)
        \/ \E t \in Tenants, st \in Statuses, M \in ModuleSets :
             \/ \E role \in SubRoles : BeginCreateUser(r, t, e, role, st, M)
             \/ BeginUpdateUser(r, t, e, st, M)
        \/ \E t \in Tenants : BeginDeleteUser(r, t, e)

Handle ==
    \E r \in Requests :
        \/ create_account(r) \/ delete_account(r) \/ upgrade_account(r) \/ edit_account(r)
        \/ create_user(r) \/ update_user(r) \/ delete_user(r)

Gateway ==
    \E p \in posts : tryClaimTrial(p) \/ \E o \in Outcomes : KillBillAnswers(p, o)

Tokens ==
    \/ \E e \in Emails : FederatedLogin(e) \/ generate_user_token(e)
    \/ \E t \in Tenants : \/ generate_token(t) \/ revoke_api_key(t)
                          \/ UseToken(t) \/ purge_tenant(t)

Next == Arrive \/ Handle \/ Gateway \/ Tokens

Spec == Init /\ [][Next]_vars

-----------------------------------------------------------------------------
(* A module's trial is granted to a tenant once: not again after the module  *)
(* was removed by edit_account and added back, nor when a creation that timed *)
(* out and an edit ask for it at the same time (gateway tryClaimTrial).      *)
TrialOnce == [][\A s \in subs' \ subs : s \notin granted]_vars

(* create_account is all or nothing as far as one failed call goes: once it  *)
(* has ended, a tenant administrator in Keycloak has a Kill Bill account.    *)
(* The one call it cannot undo is the POST of the user itself, when its      *)
(* answer is lost (accounts/service.py:255 is outside the try).              *)
AccountsComplete ==
    faults <= 1 =>
        \A e \in Emails :
            kc[e].role = "tenant_admin" =>
                \/ kc[e].tenant \in accounts
                \/ \E r \in Busy : req[r].op = "create" /\ req[r].email = e
                \/ kc[e].tenant \in orphans

(* However users are made, activated and given modules, no more than two     *)
(* active users of a tenant have one module, unless two requests about the   *)
(* tenant overlapped or Keycloak could not be asked for the count.           *)
ModuleSeats ==
    \A t \in Tenants \ raced, m \in Modules :
        count_active_users_per_module(t, m) <= SeatLimit

(* A deletion in which nothing failed leaves nothing of the tenant: no user, *)
(* key, subscription, row or secret, even though JWTs made before live on;   *)
(* they are refused because the subscriptions are gone.                      *)
DeletedIsGone ==
    \A t \in gone \ raced :
        /\ \A e \in Emails : kc[e].tenant # t
        /\ keys[t] = {} /\ t \notin data \cup secrets
        /\ \A m \in Modules : <<t, m>> \notin subs

=============================================================================
