--------------------------- MODULE MCTenantPlatform ---------------------------
(***************************************************************************)
(* A tenant with an administrator and two users, one e-mail nobody has,    *)
(* and room for a second tenant.                                           *)
(***************************************************************************)
EXTENDS TenantPlatform, TLC

CONSTANTS r1, r2, root, ann, bob, eve, T1, T2, m1, m2

MCEmails  == {root, ann, bob, eve}
MCTenants == {T1, T2}
MCModules == {m1, m2}
MCFree    == {m1}
MCModuleSets == {{m1}, {m2}}
MCItems   == (m1 :> {"users", "datasources"}) @@ (m2 :> {})

MCStartUsers ==
    (root :> [tenant |-> T1, role |-> "tenant_admin", status |-> "active", mods |-> {m1}, id |-> 1])
    @@ (ann :> [tenant |-> T1, role |-> "tenant_module_user", status |-> "active",
                mods |-> {m1}, id |-> 2])
    @@ (bob :> [tenant |-> T1, role |-> "tenant_module_user", status |-> "active",
                mods |-> {m1}, id |-> 3])
    @@ (eve :> NoUser)

Symmetry == Permutations({r1, r2})

MCStartModules == {m1}

=============================================================================
