---------------------------- MODULE Configuration -----------------------------
(***************************************************************************)
(* The services that keep the platform's configuration and use it: plans   *)
(* and packs, intents and their routing, datasources and credentials, step *)
(* executors, modules and administrators.  They share no tables with each  *)
(* other, so their interleavings would only multiply states: a behaviour   *)
(* is about one subject, chosen at the start, and everything of the others *)
(* stays as it was.  Within a subject all requests interleave.             *)
(***************************************************************************)
EXTENDS PlanCatalog, IntentRouting, DatasourceVault, StepExecutors, PlatformModules

VARIABLE subject

configurationVars ==
    <<subject, catalogVars, routingVars, vaultVars, executorVars, platformVars>>

Subjects == {"plans", "mappings", "intents", "datasources", "inboxes", "steps", "modules", "admins"}

Init ==
    /\ subject \in Subjects
    /\ CatalogInit /\ RoutingInit /\ VaultInit /\ ExecutorInit /\ PlatformInit

Plans ==
    /\ \/ subject = "plans" /\ CatalogNext
       \/ subject = "mappings" /\ MappingRoutes
    /\ UNCHANGED <<routingVars, vaultVars, executorVars, platformVars>>

Intents ==
    /\ subject = "intents" /\ RoutingNext
    /\ UNCHANGED <<catalogVars, vaultVars, executorVars, platformVars>>

Datasources ==
    /\ \/ subject = "datasources" /\ VaultNext
       \/ subject = "inboxes" /\ InboxNext
    /\ UNCHANGED <<catalogVars, routingVars, executorVars, platformVars>>

Executors ==
    /\ subject = "steps" /\ ExecutorNext
    /\ UNCHANGED <<catalogVars, routingVars, vaultVars, platformVars>>

Platform ==
    /\ \/ subject = "modules" /\ ModuleCatalog
       \/ subject = "admins" /\ AdminAccounts
    /\ UNCHANGED <<catalogVars, routingVars, vaultVars, executorVars>>

Next == UNCHANGED subject /\ (Plans \/ Intents \/ Datasources \/ Executors \/ Platform)

Spec == Init /\ [][Next]_configurationVars

=============================================================================
