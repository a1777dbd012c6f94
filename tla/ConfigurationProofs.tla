------------------------- MODULE ConfigurationProofs -------------------------
(***************************************************************************)
(* Proofs about Configuration for every number of plans, intents,          *)
(* datasources, steps, modules and requests: what each of the five         *)
(* services promises holds in every behaviour.  Every service has its own  *)
(* inductive invariant, over its own variables; a step of Configuration is *)
(* a step of one service and leaves the variables of the others alone.     *)
(***************************************************************************)
EXTENDS Configuration, TLAPS, WellFoundedInduction

-----------------------------------------------------------------------------
(* Datasources, credentials and inboxes: the inductive invariant. *)

SaveRecords   == [op : {"save"}, pc : {"write", "link"}, on : DsNames, cfg : SUBSET CfgIds]
DeleteRecords == [op : {"delete"}, pc : {"count", "delete"}, on : DsIds]

\* Every variable of the vault has its type.
VaultTypeOK ==
    /\ ds      \in [DsIds -> DsRows \cup {NoRow, GoneRow}]
    /\ cfg     \in [CfgIds -> CfgRows \cup {NoRow, GoneRow}]
    /\ rules   \in [RuleIds -> DsIds \cup {NoRow}]
    /\ inboxes \in [InboxIds -> InboxRows \cup {NoRow, GoneRow}]
    /\ vjob    \in [VaultJobs -> {NoVaultJob} \cup SaveRecords \cup DeleteRecords]

\* Who can still tell of the secret under path p.
KnownToConfig(p) == p # NoPath /\ \E c \in RowsOf(cfg) : cfg[c].path = p
KnownToInbox(p)  == \E x \in RowsOf(inboxes) : inboxes[x].path = p
BeingLinked(p)   == \E j \in VaultJobs : vjob[j].pc = "link" /\ vjob[j].on = p

Accounted(p) == KnownToConfig(p) \/ KnownToInbox(p) \/ p \in left \/ BeingLinked(p)

VaultInvariant ==
    /\ VaultTypeOK
    /\ RuleKeepsDatasource
    /\ \A p \in vault : Accounted(p)

-----------------------------------------------------------------------------

\* The pointwise form of SecretsAccounted.
LEMMA AccountedMeaning == SecretsAccounted <=> \A p \in vault : Accounted(p)
BY DEF SecretsAccounted, Accounted, KnownToConfig, KnownToInbox, BeingLinked, PathsOf

\* The rows of a table are its records.
LEMMA VaultRows ==
    ASSUME VaultTypeOK
    PROVE  /\ \A i \in DsIds : i \in RowsOf(ds) <=> ds[i] \in DsRows
           /\ \A c \in CfgIds : c \in RowsOf(cfg) <=> cfg[c] \in CfgRows
           /\ \A x \in InboxIds : x \in RowsOf(inboxes) <=> inboxes[x] \in InboxRows
           /\ \A u \in RuleIds : u \in RowsOf(rules) <=> rules[u] \in DsIds
           /\ RowsOf(ds) \subseteq DsIds /\ RowsOf(cfg) \subseteq CfgIds
           /\ RowsOf(inboxes) \subseteq InboxIds /\ RowsOf(rules) \subseteq RuleIds
BY VaultAssumption DEF VaultTypeOK, RowsOf

\* The same, after a step.
LEMMA VaultRowsNext ==
    ASSUME VaultTypeOK'
    PROVE  /\ \A i \in DsIds : i \in RowsOf(ds)' <=> ds'[i] \in DsRows
           /\ \A c \in CfgIds : c \in RowsOf(cfg)' <=> cfg'[c] \in CfgRows
           /\ \A x \in InboxIds : x \in RowsOf(inboxes)' <=> inboxes'[x] \in InboxRows
           /\ \A u \in RuleIds : u \in RowsOf(rules)' <=> rules'[u] \in DsIds
           /\ RowsOf(ds)' \subseteq DsIds /\ RowsOf(cfg)' \subseteq CfgIds
           /\ RowsOf(inboxes)' \subseteq InboxIds /\ RowsOf(rules)' \subseteq RuleIds
BY VaultAssumption DEF VaultTypeOK, RowsOf

\* An empty vault.
LEMMA InitVault == VaultInit => VaultInvariant
<1> SUFFICES ASSUME VaultInit PROVE VaultInvariant
    OBVIOUS
<1>1. VaultTypeOK
    BY DEF VaultInit, VaultTypeOK
<1>2. RuleKeepsDatasource /\ \A p \in vault : Accounted(p)
    BY DEF VaultInit, RuleKeepsDatasource, RowsOf
<1> QED
    BY <1>1, <1>2 DEF VaultInvariant

\* The rules keep their datasources when no datasource row goes.
LEMMA RulesStay ==
    ASSUME VaultInvariant, VaultTypeOK', rules' = rules,
           \A i \in DsIds : ds[i] \in DsRows => ds'[i] \in DsRows
    PROVE  RuleKeepsDatasource'
BY VaultRows, VaultRowsNext DEF VaultInvariant, RuleKeepsDatasource, VaultTypeOK

\* Creating a datasource or a configuration.
LEMMA CreateVault ==
    ASSUME VaultInvariant,
           NEW n \in DsNames,
           \/ \E i \in DsIds, k \in DsNames, mode \in {"data", "query"} : create_datasource(i, n, k, mode)
           \/ \E c \in CfgIds : create_config(c, n)
    PROVE  VaultInvariant'
<1> USE DEF VaultInvariant
<1>1. VaultTypeOK'
    BY DEF create_datasource, create_config, VaultTypeOK, DsRows, CfgRows
<1>2. RuleKeepsDatasource'
  <2>1. \A i \in DsIds : ds[i] \in DsRows => ds'[i] \in DsRows
      BY VaultAssumption DEF create_datasource, create_config, VaultTypeOK
  <2> QED
      BY <1>1, <2>1, RulesStay DEF create_datasource, create_config
<1>3. \A c \in CfgIds : cfg[c] \in CfgRows => cfg'[c] = cfg[c]
    BY VaultAssumption DEF create_datasource, create_config, VaultTypeOK
<1>4. UNCHANGED <<inboxes, vault, vjob, left>>
    BY DEF create_datasource, create_config
<1>5. \A p \in vault' : Accounted(p)'
    BY <1>1, <1>3, <1>4, VaultRows, VaultRowsNext
       DEF Accounted, KnownToConfig, KnownToInbox, BeingLinked
<1> QED
    BY <1>1, <1>2, <1>5

\* Updating a datasource: its linked configurations keep their paths, or lose
\* them together with the secrets.
LEMMA UpdateDatasourceVault ==
    ASSUME VaultInvariant, NEW i \in DsIds, NEW n \in DsNames, NEW k \in DsNames,
           NEW mode \in {"data", "query"}, NEW ok \in BOOLEAN,
           update_datasource(i, n, k, mode, ok)
    PROVE  VaultInvariant'
<1> USE DEF VaultInvariant
<1> DEFINE linked == ConfigNamed(ds[i].key)
           drop   == mode = "query" /\ ds[i].mode = "data" /\ PathsOf(linked) # {}
<1>1. /\ i \in RowsOf(ds)
      /\ ds' = [ds EXCEPT ![i] = [name |-> n, key |-> k, mode |-> mode]]
      /\ IF drop THEN _delete_vault_secret(PathsOf(linked), ok) ELSE UNCHANGED <<vault, left>>
      /\ cfg' = [c \in CfgIds |->
                   IF c \in linked
                   THEN [name |-> IF ConfigNamed(k) = {} THEN k ELSE ds[i].key,
                         path |-> IF drop THEN NoPath ELSE cfg[c].path]
                   ELSE cfg[c]]
      /\ UNCHANGED <<rules, inboxes, vjob>>
    BY DEF update_datasource
<1>2. linked \subseteq RowsOf(cfg) /\ PathsOf(linked) = {cfg[c].path : c \in linked} \ {NoPath}
    BY DEF ConfigNamed, PathsOf
<1>3. ds[i] \in DsRows
    BY <1>1, VaultRows
<1> HIDE DEF linked, drop
<1>4. VaultTypeOK'
  <2>1. ds' \in [DsIds -> DsRows \cup {NoRow, GoneRow}]
      BY <1>1 DEF VaultTypeOK, DsRows
  <2>2. ASSUME NEW c \in CfgIds, c \in linked PROVE cfg'[c] \in CfgRows
    <3>1. cfg[c].path \in DsNames \cup {NoPath} /\ ds[i].key \in DsNames
        BY <1>2, <1>3, <2>2, VaultRows DEF DsRows, CfgRows
    <3> QED
        BY <1>1, <2>2, <3>1 DEF CfgRows
  <2>3. cfg' \in [CfgIds -> CfgRows \cup {NoRow, GoneRow}]
      BY <1>1, <2>2 DEF VaultTypeOK
  <2> QED
      BY <1>1, <2>1, <2>3 DEF VaultTypeOK
<1>5. RuleKeepsDatasource'
  <2>1. \A h \in DsIds : ds[h] \in DsRows => ds'[h] \in DsRows
      BY <1>1 DEF VaultTypeOK, DsRows
  <2> QED
      BY <1>1, <1>4, <2>1, RulesStay
<1>6. ASSUME NEW p \in vault' PROVE Accounted(p)'
  <2>1. p \in vault /\ Accounted(p)
      BY <1>1, <1>6 DEF _delete_vault_secret
  <2>2. KnownToInbox(p)' = KnownToInbox(p) /\ BeingLinked(p)' = BeingLinked(p)
      BY <1>1 DEF KnownToInbox, BeingLinked, RowsOf
  <2>3. p \in left => p \in left'
      BY <1>1, <1>6 DEF _delete_vault_secret
  <2>4. ASSUME KnownToConfig(p) PROVE KnownToConfig(p)' \/ p \in left'
    <3>1. PICK c \in RowsOf(cfg) : p # NoPath /\ cfg[c].path = p
        BY <2>4 DEF KnownToConfig
    <3>2. c \in CfgIds
        BY <3>1, VaultRows
    <3>3. CASE c \in linked /\ drop
      <4>1. p \in PathsOf(linked)
          BY <1>2, <3>1, <3>3
      <4> QED
          BY <1>1, <1>6, <3>3, <4>1 DEF _delete_vault_secret
    <3>4. CASE ~(c \in linked /\ drop)
      <4>1. cfg'[c].path = p /\ cfg'[c] \in CfgRows
        <5>1. CASE c \in linked
            BY <1>1, <1>3, <3>1, <3>2, <3>4, <5>1, VaultRows DEF CfgRows, DsRows
        <5>2. CASE c \notin linked
            BY <1>1, <3>1, <3>2, <5>2, VaultRows
        <5> QED
            BY <5>1, <5>2
      <4> QED
          BY <1>4, <3>1, <3>2, <4>1, VaultRowsNext DEF KnownToConfig
    <3> QED
        BY <3>3, <3>4
  <2> QED
      BY <2>1, <2>2, <2>3, <2>4 DEF Accounted
<1> QED
    BY <1>4, <1>5, <1>6

\* Renaming a configuration, and the datasource that bears its old name.
LEMMA UpdateConfigVault ==
    ASSUME VaultInvariant, NEW c \in CfgIds, NEW n \in DsNames, update_config(c, n)
    PROVE  VaultInvariant'
<1> USE DEF VaultInvariant
<1>1. /\ cfg[c] \in CfgRows
      /\ cfg' = [cfg EXCEPT ![c].name = n]
      /\ ds' = [i \in DsIds |-> IF i \in RowsOf(ds) /\ ds[i].name = cfg[c].name
                                THEN [ds[i] EXCEPT !.key = n] ELSE ds[i]]
      /\ UNCHANGED <<rules, inboxes, vault, vjob, left>>
    BY VaultRows DEF update_config
<1>2. \A i \in DsIds : ds[i] \in DsRows => ds'[i] \in DsRows
    BY <1>1 DEF DsRows
<1>3. VaultTypeOK'
  <2>1. cfg' \in [CfgIds -> CfgRows \cup {NoRow, GoneRow}]
      BY <1>1 DEF VaultTypeOK, CfgRows
  <2>2. \A i \in DsIds : ds'[i] \in DsRows \cup {NoRow, GoneRow}
      BY <1>1, <1>2 DEF VaultTypeOK, RowsOf
  <2> QED
      BY <1>1, <2>1, <2>2 DEF VaultTypeOK
<1>4. \A b \in CfgIds : cfg[b] \in CfgRows => cfg'[b] \in CfgRows /\ cfg'[b].path = cfg[b].path
    BY <1>1 DEF VaultTypeOK, CfgRows
<1>5. RuleKeepsDatasource'
    BY <1>1, <1>2, <1>3, RulesStay
<1>6. ASSUME NEW p, KnownToConfig(p) PROVE KnownToConfig(p)'
  <2>1. PICK b \in RowsOf(cfg) : p # NoPath /\ cfg[b].path = p
      BY <1>6 DEF KnownToConfig
  <2>2. b \in RowsOf(cfg)' /\ cfg'[b].path = p
      BY <1>3, <1>4, <2>1, VaultRows, VaultRowsNext
  <2> QED
      BY <2>1, <2>2 DEF KnownToConfig
<1>7. \A p \in vault' : Accounted(p)'
    BY <1>1, <1>6 DEF Accounted, KnownToInbox, BeingLinked, RowsOf
<1> QED
    BY <1>3, <1>5, <1>7

\* Deleting configurations deletes the secrets they know of, or gives them up.
LEMMA DropConfigVault ==
    ASSUME VaultInvariant, NEW C \in SUBSET RowsOf(cfg), NEW ok \in BOOLEAN,
           DropConfig(C, ok), UNCHANGED <<ds, rules, inboxes>>,
           vjob' \in [VaultJobs -> {NoVaultJob} \cup SaveRecords \cup DeleteRecords],
           \A p \in vault : BeingLinked(p) => BeingLinked(p)'
    PROVE  VaultInvariant'
<1> USE DEF VaultInvariant
<1>1. cfg' = [c \in CfgIds |-> IF c \in C THEN GoneRow ELSE cfg[c]]
    BY DEF DropConfig
<1>2. VaultTypeOK'
    BY <1>1 DEF VaultTypeOK
<1>3. RuleKeepsDatasource'
    BY <1>2, RulesStay
<1>4. ASSUME NEW p \in vault' PROVE Accounted(p)'
  <2>1. p \in vault /\ Accounted(p) /\ (p \in left => p \in left')
      BY <1>4 DEF DropConfig, _delete_vault_secret
  <2>2. KnownToInbox(p) => KnownToInbox(p)'
      BY DEF KnownToInbox, RowsOf
  <2>3. ASSUME KnownToConfig(p) PROVE KnownToConfig(p)' \/ p \in left'
    <3>1. PICK c \in RowsOf(cfg) : p # NoPath /\ cfg[c].path = p
        BY <2>3 DEF KnownToConfig
    <3>2. CASE c \in C
      <4>1. p \in PathsOf(C)
          BY <3>1, <3>2 DEF PathsOf
      <4> QED
          BY <1>4, <4>1 DEF DropConfig, _delete_vault_secret
    <3>3. CASE c \notin C
        BY <1>1, <1>2, <3>1, <3>3, VaultRows, VaultRowsNext DEF KnownToConfig
    <3> QED
        BY <3>2, <3>3
  <2> QED
      BY <2>1, <2>2, <2>3 DEF Accounted
<1> QED
    BY <1>2, <1>3, <1>4

\* The first step of a deletion, and DELETE of a configuration.
LEMMA DeleteConfigVault ==
    ASSUME VaultInvariant, NEW ok \in BOOLEAN,
           \/ \E c \in CfgIds : delete_config(c, ok)
           \/ \E j \in DeleteJobs, i \in DsIds : BeginDeleteDatasource(j, i, ok)
    PROVE  VaultInvariant'
<1>1. ASSUME NEW c \in CfgIds, delete_config(c, ok) PROVE VaultInvariant'
  <2>1. /\ {c} \in SUBSET RowsOf(cfg) /\ DropConfig({c}, ok)
        /\ UNCHANGED <<ds, rules, inboxes, vjob>>
      BY <1>1 DEF delete_config
  <2>2. \A p \in vault : BeingLinked(p) => BeingLinked(p)'
      BY <2>1 DEF BeingLinked
  <2>3. vjob' \in [VaultJobs -> {NoVaultJob} \cup SaveRecords \cup DeleteRecords]
      BY <2>1 DEF VaultInvariant, VaultTypeOK
  <2> QED
      BY <2>1, <2>2, <2>3, DropConfigVault
<1>2. ASSUME NEW j \in DeleteJobs, NEW i \in DsIds, BeginDeleteDatasource(j, i, ok)
      PROVE  VaultInvariant'
  <2>1. /\ ConfigNamed(ds[i].key) \in SUBSET RowsOf(cfg) /\ DropConfig(ConfigNamed(ds[i].key), ok)
        /\ UNCHANGED <<ds, rules, inboxes>>
      BY <1>2 DEF BeginDeleteDatasource, ConfigNamed
  <2>2. j \in VaultJobs
      BY DEF VaultJobs
  <2>3. \A p \in vault : BeingLinked(p) => BeingLinked(p)'
      BY <1>2, <2>2 DEF BeginDeleteDatasource, BeingLinked, VaultInvariant, VaultTypeOK, NoVaultJob
  <2>4. vjob' \in [VaultJobs -> {NoVaultJob} \cup SaveRecords \cup DeleteRecords]
      BY <1>2, <2>2 DEF BeginDeleteDatasource, VaultInvariant, VaultTypeOK, DeleteRecords
  <2> QED
      BY <2>1, <2>3, <2>4, DropConfigVault
<1> QED
    BY <1>1, <1>2

\* The count and the deletion that follows it: the row goes only when no rule
\* names it at that moment.
LEMMA DeleteDatasourceVault ==
    ASSUME VaultInvariant, NEW j \in DeleteJobs,
           delete_datasource(j) \/ \E ok \in BOOLEAN : CountRules(j, ok)
    PROVE  VaultInvariant'
<1> USE DEF VaultInvariant
<1>1. /\ UNCHANGED <<cfg, rules, inboxes>>
      /\ \/ UNCHANGED <<vault, left>>
         \/ \E P : vault' = vault \ P /\ left' = left \ P
         \/ \E P : vault' = vault /\ left' = left \cup P
    BY DEF delete_datasource, CountRules, _delete_vault_secret
<1>2. j \in VaultJobs
    BY DEF VaultJobs
<1>3. vjob[j] \in DeleteRecords
    BY <1>2 DEF delete_datasource, CountRules, VaultTypeOK, NoVaultJob, SaveRecords
<1>4. /\ vjob' \in [VaultJobs -> {NoVaultJob} \cup SaveRecords \cup DeleteRecords]
      /\ \A h \in VaultJobs : h # j => vjob'[h] = vjob[h]
  <2>1. vjob' \in {[vjob EXCEPT ![j] = NoVaultJob], [vjob EXCEPT ![j].pc = "delete"]}
      BY DEF delete_datasource, CountRules
  <2> QED
      BY <1>2, <1>3, <2>1 DEF VaultTypeOK, DeleteRecords
<1>5. ds' = ds \/ (RulesOn(vjob[j].on) = {} /\ ds' = [ds EXCEPT ![vjob[j].on] = GoneRow])
    BY DEF delete_datasource, CountRules, DeleteRow
<1>6. VaultTypeOK'
    BY <1>1, <1>4, <1>5 DEF VaultTypeOK
<1>7. RuleKeepsDatasource'
  <2>1. CASE ds' = ds
      BY <1>1, <1>6, <2>1, RulesStay
  <2>2. CASE RulesOn(vjob[j].on) = {} /\ ds' = [ds EXCEPT ![vjob[j].on] = GoneRow]
    <3>1. \A u \in RowsOf(rules) : rules[u] \in DsIds /\ ds[rules[u]] \in DsRows
        BY VaultRows DEF RuleKeepsDatasource
    <3>2. \A u \in RowsOf(rules) : rules[u] # vjob[j].on
        BY <2>2, VaultRows DEF RulesOn
    <3>3. \A u \in RowsOf(rules) : ds'[rules[u]] \in DsRows
        BY <2>2, <3>1, <3>2 DEF VaultTypeOK
    <3> QED
        BY <1>1, <1>6, <3>1, <3>3, VaultRowsNext DEF RuleKeepsDatasource
  <2> QED
      BY <1>5, <2>1, <2>2
<1>8. ASSUME NEW p \in vault' PROVE Accounted(p)'
  <2>1. p \in vault /\ Accounted(p) /\ (p \in left => p \in left')
      BY <1>1, <1>8
  <2>2. KnownToConfig(p)' = KnownToConfig(p) /\ KnownToInbox(p)' = KnownToInbox(p)
      BY <1>1 DEF KnownToConfig, KnownToInbox, RowsOf
  <2>3. BeingLinked(p) => BeingLinked(p)'
      BY <1>3, <1>4 DEF BeingLinked, DeleteRecords
  <2> QED
      BY <2>1, <2>2, <2>3 DEF Accounted
<1> QED
    BY <1>6, <1>7, <1>8

\* The validation rules name datasources that are there.
LEMMA RuleRoutesVault ==
    ASSUME VaultInvariant, NEW u \in RuleIds, NEW i \in DsIds,
           \/ create_validation_rule(u, i) \/ update_validation_rule(u, i)
           \/ delete_validation_rule(u)
    PROVE  VaultInvariant'
<1> USE DEF VaultInvariant
<1>1. /\ UNCHANGED <<ds, cfg, inboxes, vault, vjob, left>>
      /\ \/ i \in RowsOf(ds) /\ rules' = [rules EXCEPT ![u] = i]
         \/ rules' = [rules EXCEPT ![u] = NoRow]
    BY DEF create_validation_rule, update_validation_rule, delete_validation_rule
<1>2. VaultTypeOK'
    BY <1>1 DEF VaultTypeOK
<1>3. RuleKeepsDatasource'
    BY <1>1, <1>2, VaultRows, VaultRowsNext, VaultAssumption
       DEF RuleKeepsDatasource, VaultTypeOK
<1>4. \A p \in vault' : Accounted(p)'
    BY <1>1 DEF Accounted, KnownToConfig, KnownToInbox, BeingLinked, RowsOf
<1> QED
    BY <1>2, <1>3, <1>4

\* Saving credentials: written to Vault first, then entered in the
\* configuration; in between the request itself knows the path.
LEMMA SavesVault ==
    ASSUME VaultInvariant, NEW j \in SaveJobs,
           \/ \E i \in DsIds : BeginSave(j, i)
           \/ \E ok \in BOOLEAN : SaveToVault(j, ok)
    PROVE  VaultInvariant'
<1> USE DEF VaultInvariant
<1>1. UNCHANGED <<ds, cfg, rules, inboxes, left>> /\ j \in VaultJobs
    BY DEF BeginSave, SaveToVault, VaultJobs
<1>2. ASSUME NEW i \in DsIds, BeginSave(j, i)
      PROVE  /\ vjob' \in [VaultJobs -> {NoVaultJob} \cup SaveRecords \cup DeleteRecords]
             /\ vault' = vault
             /\ \A p : BeingLinked(p) => BeingLinked(p)'
  <2>1. ds[i] \in DsRows /\ ConfigNamed(ds[i].key) \in SUBSET CfgIds
      BY <1>2, VaultRows DEF BeginSave, ConfigNamed
  <2>2. [op |-> "save", pc |-> "write", on |-> ds[i].name, cfg |-> ConfigNamed(ds[i].key)]
           \in SaveRecords
      BY <2>1 DEF DsRows, SaveRecords
  <2> QED
      BY <1>1, <1>2, <2>2 DEF BeginSave, BeingLinked, VaultTypeOK, NoVaultJob
<1>3. ASSUME NEW ok \in BOOLEAN, SaveToVault(j, ok)
      PROVE  /\ vjob' \in [VaultJobs -> {NoVaultJob} \cup SaveRecords \cup DeleteRecords]
             /\ \A p \in vault' : p \in vault \/ BeingLinked(p)'
             /\ \A p : BeingLinked(p) => BeingLinked(p)'
  <2>1. vjob[j] \in SaveRecords /\ vjob[j].pc = "write"
      BY <1>1, <1>3 DEF SaveToVault, VaultTypeOK, NoVaultJob, DeleteRecords
  <2>2. [vjob[j] EXCEPT !.pc = "link"] \in SaveRecords
        /\ [vjob[j] EXCEPT !.pc = "link"].pc = "link"
        /\ [vjob[j] EXCEPT !.pc = "link"].on = vjob[j].on
      BY <2>1 DEF SaveRecords
  <2> QED
      BY <1>1, <1>3, <2>1, <2>2 DEF SaveToVault, BeingLinked, VaultTypeOK
<1>4. /\ vjob' \in [VaultJobs -> {NoVaultJob} \cup SaveRecords \cup DeleteRecords]
      /\ \A p \in vault' : p \in vault \/ BeingLinked(p)'
      /\ \A p : BeingLinked(p) => BeingLinked(p)'
    BY <1>2, <1>3
<1>5. VaultTypeOK' /\ RuleKeepsDatasource'
    BY <1>1, <1>4 DEF VaultTypeOK, RuleKeepsDatasource, RowsOf
<1>6. \A p \in vault' : Accounted(p)'
    BY <1>1, <1>4 DEF Accounted, KnownToConfig, KnownToInbox, RowsOf
<1> QED
    BY <1>5, <1>6

\* Entering the path: the configuration knows it now, and what it knew before
\* is given up; without a configuration the new secret is.
LEMMA SaveCredentialsVault ==
    ASSUME VaultInvariant, NEW j \in SaveJobs, save_credentials(j)
    PROVE  VaultInvariant'
<1> USE DEF VaultInvariant
<1>0. j \in VaultJobs /\ vjob[j] \in SaveRecords /\ vjob[j].pc = "link"
    BY DEF save_credentials, VaultJobs, VaultTypeOK, NoVaultJob, DeleteRecords
<1>2. PICK q \in DsNames : q = vjob[j].on
    BY <1>0 DEF SaveRecords
<1> DEFINE C == vjob[j].cfg \cap RowsOf(cfg)
<1>1. /\ cfg' = [c \in CfgIds |-> IF c \in C THEN [cfg[c] EXCEPT !.path = q] ELSE cfg[c]]
      /\ left' = left \cup ((IF C = {} THEN {q} ELSE PathsOf(C) \ {q}) \cap vault)
      /\ vjob' = [vjob EXCEPT ![j] = NoVaultJob]
      /\ UNCHANGED <<ds, rules, inboxes, vault>>
    BY <1>2 DEF save_credentials
<1>3. q # NoPath /\ C \subseteq RowsOf(cfg)
    BY <1>2, VaultAssumption
<1> HIDE DEF C
<1>4. \A c \in C : c \in CfgIds /\ cfg'[c] \in CfgRows /\ cfg'[c].path = q
    BY <1>1, <1>3, VaultRows DEF CfgRows
<1>5. VaultTypeOK'
    BY <1>1, <1>4 DEF VaultTypeOK
<1>6. RuleKeepsDatasource'
    BY <1>1, <1>5, RulesStay
<1>7. ASSUME NEW p \in vault' PROVE Accounted(p)'
  <2>1. p \in vault /\ Accounted(p) /\ (p \in left => p \in left')
      BY <1>1, <1>7
  <2>2. KnownToInbox(p) => KnownToInbox(p)'
      BY <1>1 DEF KnownToInbox, RowsOf
  <2>3. KnownToConfig(q)' \/ (C = {} /\ (q \in vault => q \in left'))
    <3>1. CASE C = {}
        BY <1>1, <3>1
    <3>2. CASE C # {}
      <4>1. PICK c \in C : TRUE
          BY <3>2
      <4>2. c \in RowsOf(cfg)' /\ cfg'[c].path = q
          BY <1>4, <1>5, VaultRowsNext
      <4> QED
          BY <1>3, <4>2 DEF KnownToConfig
    <3> QED
        BY <3>1, <3>2
  <2>4. ASSUME KnownToConfig(p) PROVE Accounted(p)'
    <3>1. PICK c \in RowsOf(cfg) : p # NoPath /\ cfg[c].path = p
        BY <2>4 DEF KnownToConfig
    <3>2. CASE c \notin C
      <4>1. c \in CfgIds /\ cfg[c] \in CfgRows
          BY <3>1, VaultRows
      <4>2. cfg'[c] = cfg[c]
          BY <1>1, <3>2, <4>1
      <4>3. c \in RowsOf(cfg)' /\ cfg'[c].path = p
          BY <1>5, <3>1, <4>1, <4>2, VaultRowsNext
      <4> QED
          BY <3>1, <4>3 DEF KnownToConfig, Accounted
    <3>3. CASE c \in C /\ p # q
      <4>1. p \in PathsOf(C) \ {q}
          BY <3>1, <3>3 DEF PathsOf
      <4> QED
          BY <1>1, <2>1, <3>3, <4>1 DEF Accounted
    <3>4. CASE c \in C /\ p = q
        BY <2>1, <2>3, <3>4 DEF Accounted
    <3> QED
        BY <3>2, <3>3, <3>4
  <2>5. ASSUME BeingLinked(p) PROVE Accounted(p)'
    <3>1. PICK h \in VaultJobs : vjob[h].pc = "link" /\ vjob[h].on = p
        BY <2>5 DEF BeingLinked
    <3>2. CASE h = j
      <4>1. p = q
          BY <1>2, <3>1, <3>2
      <4> QED
          BY <2>1, <2>3, <4>1 DEF Accounted
    <3>3. CASE h # j
        BY <1>1, <3>1, <3>3 DEF VaultTypeOK, BeingLinked, Accounted
    <3> QED
        BY <3>2, <3>3
  <2> QED
      BY <2>1, <2>2, <2>4, <2>5 DEF Accounted
<1> QED
    BY <1>5, <1>6, <1>7

\* The page's delete, and leaving for query mode.
LEMMA GatewayVault ==
    ASSUME VaultInvariant, NEW n \in DsNames, NEW ok \in BOOLEAN,
           delete_vault_credentials(n, ok) \/ metadata_confirmed(n, ok)
    PROVE  VaultInvariant'
<1> USE DEF VaultInvariant
<1> DEFINE C == {c \in ConfigNamed(n) : cfg[c].path # NoPath}
<1>1. /\ UNCHANGED <<ds, rules, inboxes, vjob>>
      /\ vault' \subseteq vault /\ \A p \in vault' : p \in left => p \in left'
    BY DEF delete_vault_credentials, metadata_confirmed
<1>2. \/ cfg' = cfg
      \/ /\ cfg' = [c \in CfgIds |-> IF c \in C THEN [cfg[c] EXCEPT !.path = NoPath] ELSE cfg[c]]
         /\ PathsOf(C) \cap vault' \subseteq left'
    BY DEF delete_vault_credentials, metadata_confirmed
<1>3. C \subseteq RowsOf(cfg)
    BY DEF ConfigNamed
<1> HIDE DEF C
<1>4. VaultTypeOK'
  <2>1. \A c \in C : [cfg[c] EXCEPT !.path = NoPath] \in CfgRows
      BY <1>3, VaultRows DEF CfgRows
  <2> QED
      BY <1>1, <1>2, <2>1 DEF VaultTypeOK
<1>5. RuleKeepsDatasource'
    BY <1>1, <1>4, RulesStay
<1>6. ASSUME NEW p \in vault' PROVE Accounted(p)'
  <2>1. p \in vault /\ Accounted(p) /\ (p \in left => p \in left')
      BY <1>1, <1>6
  <2>2. /\ KnownToInbox(p) => KnownToInbox(p)'
        /\ BeingLinked(p) => BeingLinked(p)'
      BY <1>1 DEF KnownToInbox, BeingLinked, RowsOf
  <2>3. ASSUME KnownToConfig(p) PROVE KnownToConfig(p)' \/ p \in left'
    <3>1. PICK c \in RowsOf(cfg) : p # NoPath /\ cfg[c].path = p
        BY <2>3 DEF KnownToConfig
    <3>2. CASE cfg' # cfg /\ c \in C
      <4>1. p \in PathsOf(C)
          BY <3>1, <3>2 DEF PathsOf
      <4> QED
          BY <1>2, <1>6, <3>2, <4>1
    <3>3. CASE cfg' = cfg \/ c \notin C
      <4>1. c \in RowsOf(cfg)' /\ cfg'[c].path = p
          BY <1>2, <1>4, <3>1, <3>3, VaultRows, VaultRowsNext
      <4> QED
          BY <3>1, <4>1 DEF KnownToConfig
    <3> QED
        BY <3>2, <3>3
  <2> QED
      BY <2>1, <2>2, <2>3 DEF Accounted
<1> QED
    BY <1>4, <1>5, <1>6

\* The inboxes: a row that is made, renamed, given a path, or deleted together
\* with the secret it knows of.
LEMMA InboxVault ==
    ASSUME VaultInvariant, NoPath \notin vault,
           NEW x \in InboxIds, NEW m \in Mails, NEW ok \in BOOLEAN,
           \/ create_inbox(x, m) \/ update_inbox(x, m) \/ delete_inbox(x, ok)
           \/ save_email_inbox_credentials(x, m, ok)
    PROVE  VaultInvariant'
<1> USE DEF VaultInvariant
<1>1. UNCHANGED <<ds, cfg, rules, vjob>>
    BY DEF create_inbox, update_inbox, delete_inbox, save_email_inbox_credentials
<1>2. \/ inboxes[x] = NoRow /\ inboxes' = [inboxes EXCEPT ![x] = [mail |-> m, path |-> NoPath]]
         /\ UNCHANGED <<vault, left>>
      \/ inboxes[x] \in InboxRows /\ inboxes' = [inboxes EXCEPT ![x].mail = m]
         /\ UNCHANGED <<vault, left>>
      \/ inboxes[x] \in InboxRows /\ inboxes' = [inboxes EXCEPT ![x] = GoneRow]
         /\ _delete_vault_secret({inboxes[x].path} \ {NoPath}, ok)
      \/ inboxes[x] \in InboxRows /\ inboxes' = [inboxes EXCEPT ![x].path = m]
         /\ vault' = vault \cup {m} /\ left' = left \cup ({inboxes[x].path} \cap (vault \ {m}))
      \/ inboxes' = inboxes /\ vault' = vault \cup {m} /\ left' = left \cup {m}
    BY VaultRows DEF create_inbox, update_inbox, delete_inbox, save_email_inbox_credentials
<1>3. VaultTypeOK'
    BY <1>1, <1>2 DEF VaultTypeOK, InboxRows
<1>4. RuleKeepsDatasource'
    BY <1>1, <1>3, RulesStay
<1>5. ASSUME NEW p \in vault' PROVE Accounted(p)'
  <2>1. /\ KnownToConfig(p)' = KnownToConfig(p)
        /\ BeingLinked(p)' = BeingLinked(p)
      BY <1>1 DEF KnownToConfig, BeingLinked, RowsOf
  <2>2. p \in left => p \in left'
      BY <1>2, <1>5 DEF _delete_vault_secret
  <2>3. ASSUME NEW y \in RowsOf(inboxes), inboxes[y].path = p, y # x
        PROVE  KnownToInbox(p)'
    <3>1. inboxes'[y] = inboxes[y]
        BY <1>2, <2>3, VaultRows DEF VaultTypeOK
    <3>2. y \in RowsOf(inboxes)'
        BY <1>3, <2>3, <3>1, VaultRows, VaultRowsNext
    <3> QED
        BY <2>3, <3>1, <3>2 DEF KnownToInbox
  <2>4. CASE p \in vault
    <3>1. Accounted(p)
        BY <2>4
    <3>2. ASSUME x \in RowsOf(inboxes), inboxes[x].path = p
          PROVE  KnownToInbox(p)' \/ p \in left'
      <4>1. inboxes[x] \in InboxRows
          BY <3>2, VaultRows
      <4>2. CASE inboxes'[x] \in InboxRows /\ inboxes'[x].path = p
          BY <1>3, <4>2, VaultRowsNext DEF KnownToInbox
      <4>3. CASE inboxes'[x] = GoneRow /\ _delete_vault_secret({inboxes[x].path} \ {NoPath}, ok)
          BY <1>5, <2>4, <3>2, <4>3 DEF _delete_vault_secret
      <4>4. CASE /\ inboxes' = [inboxes EXCEPT ![x].path = m]
                 /\ left' = left \cup ({inboxes[x].path} \cap (vault \ {m}))
        <5>1. inboxes'[x] \in InboxRows /\ inboxes'[x].path = m
            BY <4>1, <4>4 DEF VaultTypeOK, InboxRows
        <5> QED
            BY <1>3, <2>4, <3>2, <4>4, <5>1, VaultRowsNext DEF KnownToInbox
      <4> QED
          BY <1>2, <3>2, <4>1, <4>2, <4>3, <4>4, VaultAssumption DEF VaultTypeOK, InboxRows
    <3>3. KnownToInbox(p) => KnownToInbox(p)' \/ p \in left'
      <4>1. ASSUME KnownToInbox(p) PROVE KnownToInbox(p)' \/ p \in left'
        <5>1. PICK y \in RowsOf(inboxes) : inboxes[y].path = p
            BY <4>1 DEF KnownToInbox
        <5> QED
            BY <2>3, <3>2, <5>1
      <4> QED
          BY <4>1
    <3> QED
        BY <2>1, <2>2, <3>1, <3>3 DEF Accounted
  <2>5. CASE p \notin vault
    <3>1. (p = m /\ m \in left') \/ (inboxes[x] \in InboxRows /\ inboxes' = [inboxes EXCEPT ![x].path = m] /\ p = m)
        BY <1>2, <1>5, <2>5 DEF _delete_vault_secret
    <3> QED
        BY <1>3, <3>1, VaultRowsNext DEF KnownToInbox, Accounted, VaultTypeOK, InboxRows
  <2> QED
      BY <2>4, <2>5
<1> QED
    BY <1>3, <1>4, <1>5

\* Nothing is ever stored under the empty path.
LEMMA SecretsHavePaths ==
    ASSUME VaultInvariant, NoPath \notin vault, VaultNext \/ InboxNext
    PROVE  NoPath \notin vault'
<1>1. ASSUME NEW j \in SaveJobs, NEW ok \in BOOLEAN, SaveToVault(j, ok)
      PROVE  NoPath \notin vault'
  <2>1. vjob[j].on \in DsNames
      BY <1>1 DEF SaveToVault, VaultInvariant, VaultTypeOK, VaultJobs, NoVaultJob,
                  SaveRecords, DeleteRecords
  <2> QED
      BY <1>1, <2>1, VaultAssumption DEF SaveToVault
<1>2. ASSUME InboxNext PROVE NoPath \notin vault'
  <2>1. PICK m \in Mails : vault' \subseteq vault \cup {m}
      BY <1>2 DEF InboxNext, create_inbox, update_inbox, delete_inbox,
                  save_email_inbox_credentials, _delete_vault_secret
  <2> QED
      BY <2>1, VaultAssumption
<1>3. ASSUME DatasourceRoutes PROVE vault' \subseteq vault
    BY <1>3 DEF DatasourceRoutes, create_datasource, update_datasource, _delete_vault_secret
<1>4. ASSUME ConfigRoutes PROVE vault' \subseteq vault
    BY <1>4 DEF ConfigRoutes, create_config, update_config, delete_config, DropConfig,
                _delete_vault_secret
<1>5. ASSUME RuleRoutes \/ GatewayRoutes PROVE vault' \subseteq vault
    BY <1>5 DEF RuleRoutes, GatewayRoutes, create_validation_rule, update_validation_rule,
                delete_validation_rule, delete_vault_credentials, metadata_confirmed
<1>6. ASSUME Deletions PROVE vault' \subseteq vault
    BY <1>6 DEF Deletions, CountRules, BeginDeleteDatasource, delete_datasource, DropConfig,
                _delete_vault_secret
<1>7. ASSUME NEW j \in SaveJobs, save_credentials(j) \/ \E i \in DsIds : BeginSave(j, i)
      PROVE  vault' \subseteq vault
    BY <1>7 DEF save_credentials, BeginSave
<1> QED
    BY <1>1, <1>2, <1>3, <1>4, <1>5, <1>6, <1>7 DEF VaultNext, Saves

\* Every step of the vault, one service route after the other.
LEMMA NextVault ==
    ASSUME VaultInvariant, NoPath \notin vault, VaultNext \/ InboxNext
    PROVE  VaultInvariant'
<1>1. ASSUME DatasourceRoutes PROVE VaultInvariant'
    BY <1>1, CreateVault, UpdateDatasourceVault DEF DatasourceRoutes
<1>2. ASSUME ConfigRoutes PROVE VaultInvariant'
    BY <1>2, CreateVault, UpdateConfigVault, DeleteConfigVault DEF ConfigRoutes
<1>3. ASSUME RuleRoutes PROVE VaultInvariant'
    BY <1>3, RuleRoutesVault DEF RuleRoutes
<1>4. ASSUME GatewayRoutes PROVE VaultInvariant'
    BY <1>4, GatewayVault DEF GatewayRoutes
<1>5. ASSUME Deletions PROVE VaultInvariant'
    BY <1>5, DeleteConfigVault, DeleteDatasourceVault DEF Deletions
<1>6. ASSUME Saves PROVE VaultInvariant'
    BY <1>6, SavesVault, SaveCredentialsVault DEF Saves
<1>7. ASSUME InboxNext PROVE VaultInvariant'
    BY <1>7, InboxVault DEF InboxNext
<1> QED
    BY <1>1, <1>2, <1>3, <1>4, <1>5, <1>6, <1>7 DEF VaultNext

\* A step of another service does not touch the vault.
LEMMA VaultStays ==
    ASSUME VaultInvariant, UNCHANGED vaultVars
    PROVE  VaultInvariant'
BY DEF vaultVars, VaultInvariant, VaultTypeOK, RuleKeepsDatasource, Accounted,
       KnownToConfig, KnownToInbox, BeingLinked, RowsOf

\* The invariant of the vault as a whole.
VaultSound == VaultInvariant /\ NoPath \notin vault

\* For any number of datasources, configurations, inboxes and requests, the
\* stores of the tenant stay in step with Vault.
THEOREM VaultSoundHolds == Spec => []VaultSound
<1>1. Init => VaultSound
  <2>1. VaultInit => NoPath \notin vault
      BY DEF VaultInit
  <2> QED
      BY <2>1, InitVault DEF Init, VaultSound
<1>2. VaultSound /\ [Next]_configurationVars => VaultSound'
  <2> SUFFICES ASSUME VaultInvariant, NoPath \notin vault, [Next]_configurationVars
               PROVE  VaultInvariant' /\ NoPath \notin vault'
      BY DEF VaultSound
  <2>1. VaultNext \/ InboxNext \/ UNCHANGED vaultVars
      BY DEF Next, Plans, Intents, Datasources, Executors, Platform, configurationVars
  <2>2. CASE UNCHANGED vaultVars
      BY <2>2, VaultStays DEF vaultVars
  <2> QED
      BY <2>1, <2>2, NextVault, SecretsHavePaths
<1> QED
    BY <1>1, <1>2, PTL DEF Spec

\* Every secret in Vault is known to a configuration or an inbox, is about to
\* be, or is one the code has visibly given up on, whatever requests interleave.
THEOREM SecretsAccountedHolds == Spec => []SecretsAccounted
<1>1. VaultSound => SecretsAccounted
    BY AccountedMeaning DEF VaultSound, VaultInvariant
<1> QED
    BY <1>1, VaultSoundHolds, PTL

\* A validation rule always has its datasource, although a deletion counts the
\* rules long before it deletes the row.
THEOREM RuleKeepsDatasourceHolds == Spec => []RuleKeepsDatasource
<1>1. VaultSound => RuleKeepsDatasource
    BY DEF VaultSound, VaultInvariant
<1> QED
    BY <1>1, VaultSoundHolds, PTL

-----------------------------------------------------------------------------
(* Step executors. *)

ExecRecords ==
    [pc : {"new", "call", "done"}, kind : Kinds \cup {"none"}, answer : Answers \cup {"none"},
     status : {"none", "success", "failed"}, found : BOOLEAN]

\* What a step is waiting for or has got, by how far it is.
StepStage(s) ==
    LET e == exec[s]
    IN  \/ e = NotRun /\ s \notin bundles
        \/ /\ e.pc = "call" /\ e.kind \in Kinds /\ s \notin bundles
           /\ e.status = "none" /\ (e.kind = "sql" => e.found)
        \/ /\ e.pc = "done" /\ e.kind \in Kinds
           /\ e.status = "success" => /\ e.answer \notin {"none", "refused", "lost"}
                                      /\ e.answer = "unreadable" => e.kind = "webhook"
                                      /\ e.kind = "sql" => e.found
           /\ s \in bundles /\ e.kind # "ai_transform" => e.status = "success"

ExecutorInvariant ==
    /\ exec \in [Steps -> ExecRecords]
    /\ bundles \subseteq Steps
    /\ \A s \in Steps : StepStage(s)

\* What the registry says of its executors, as far as the promise needs it: no
\* executor accepts an error status or a lost call, only a webhook an answer it
\* cannot read, and the database executor insists on its datasource.
LEMMA RegistryMeaning ==
    /\ Kinds = {"sql", "rest", "graphql", "webhook", "document_generate", "ai_transform",
                "prompt_run", "adapter_analyze"}
    /\ Registry["sql"].needs = "source"
    /\ \A kind \in Kinds : /\ "none" \notin Registry[kind].accepts
                           /\ "refused" \notin Registry[kind].accepts
                           /\ "lost" \notin Registry[kind].accepts
                           /\ "unreadable" \in Registry[kind].accepts => kind = "webhook"
<1>1. Kinds = {"sql", "rest", "graphql", "webhook", "document_generate", "ai_transform",
               "prompt_run", "adapter_analyze"}
    BY DEF Kinds, Registry
<1>2. /\ Registry["sql"] = SqlExecutor /\ Registry["rest"] = RestExecutor
      /\ Registry["graphql"] = GraphqlExecutor /\ Registry["webhook"] = WebhookExecutor
      /\ Registry["document_generate"] = DocumentGenerateExecutor
      /\ Registry["ai_transform"] = AiTransformExecutor
      /\ Registry["prompt_run"] = PromptRunExecutor
      /\ Registry["adapter_analyze"] = AdapterAnalyzeExecutor
    BY DEF Registry
<1>3. \A kind \in Kinds : /\ "none" \notin Registry[kind].accepts
                          /\ "refused" \notin Registry[kind].accepts
                          /\ "lost" \notin Registry[kind].accepts
                          /\ "unreadable" \in Registry[kind].accepts => kind = "webhook"
    BY <1>1, <1>2 DEF SqlExecutor, RestExecutor, GraphqlExecutor, WebhookExecutor,
                      DocumentGenerateExecutor, AiTransformExecutor, PromptRunExecutor,
                      AdapterAnalyzeExecutor
<1> QED
    BY <1>1, <1>2, <1>3 DEF SqlExecutor

\* A step that looks its datasource up.
LEMMA PrepareStage ==
    ASSUME ExecutorInvariant, NEW s \in Steps, NEW kind \in Kinds, NEW n \in Sources,
           NEW reached \in BOOLEAN, NEW given \in BOOLEAN, Prepare(s, kind, n, reached, given)
    PROVE  ExecutorInvariant'
<1> USE DEF ExecutorInvariant
<1>1. PICK found \in BOOLEAN, can \in BOOLEAN :
        /\ can = Callable(kind, found, given)
        /\ exec' = [exec EXCEPT ![s] = [NotRun EXCEPT !.pc = IF can THEN "call" ELSE "done",
                         !.kind = kind, !.found = found,
                         !.status = IF can THEN "none" ELSE "failed"]]
        /\ bundles' = bundles \/ (~can /\ kind = "ai_transform" /\ bundles' = bundles \cup {s})
  <2> DEFINE found == _get_datasource_config(n, reached)
             can   == Callable(kind, found, given)
  <2>1. found \in BOOLEAN
      BY DEF _get_datasource_config
  <2>2. can \in BOOLEAN
      BY <2>1 DEF Callable
  <2> QED
      BY <2>1, <2>2 DEF Prepare
<1>2. exec[s] = NotRun /\ s \notin bundles
    BY DEF Prepare, StepStage, NotRun
<1>3. exec'[s] = [pc |-> IF can THEN "call" ELSE "done", kind |-> kind, answer |-> "none",
                  status |-> IF can THEN "none" ELSE "failed", found |-> found]
    BY <1>1 DEF NotRun
<1>4. \A h \in Steps : h # s => exec'[h] = exec[h] /\ (h \in bundles' <=> h \in bundles)
    BY <1>1
<1>5. exec' \in [Steps -> ExecRecords] /\ bundles' \subseteq Steps
  <2>1. exec'[s] \in ExecRecords
      BY <1>3 DEF ExecRecords
  <2>2. exec' = [exec EXCEPT ![s] = exec'[s]]
      BY <1>1
  <2> QED
      BY <1>1, <2>1, <2>2
<1>6. kind = "sql" /\ can => found
    BY <1>1, RegistryMeaning DEF Callable
<1>7. StepStage(s)'
    BY <1>1, <1>2, <1>3, <1>6 DEF StepStage
<1>8. \A h \in Steps : h # s => StepStage(h)'
    BY <1>4 DEF StepStage
<1> QED
    BY <1>5, <1>7, <1>8

\* A step that gets its answer.
LEMMA AnswerStage ==
    ASSUME ExecutorInvariant, NEW s \in Steps, NEW a \in Answers, Answer(s, a)
    PROVE  ExecutorInvariant'
<1> USE DEF ExecutorInvariant
<1>1. /\ exec[s].pc = "call" /\ exec[s].kind \in Kinds /\ exec[s].status = "none"
      /\ exec[s].kind = "sql" => exec[s].found
      /\ exec[s] \in ExecRecords /\ s \notin bundles
    BY DEF Answer, StepStage, NotRun
<1>2. exec'[s] = [pc |-> "done", kind |-> exec[s].kind, answer |-> a,
                  status |-> ResultOf(exec[s].kind, a), found |-> exec[s].found]
    BY <1>1 DEF Answer, ExecRecords
<1>3. bundles' = bundles \/ (_save_evidence(exec[s].kind, a) /\ bundles' = bundles \cup {s})
    BY DEF Answer
<1>4. \A h \in Steps : h # s => exec'[h] = exec[h] /\ (h \in bundles' <=> h \in bundles)
    BY <1>3 DEF Answer
<1>5. exec' \in [Steps -> ExecRecords]
  <2>1. exec'[s] \in ExecRecords
      BY <1>1, <1>2 DEF ExecRecords, ResultOf
  <2> QED
      BY <2>1 DEF Answer
<1>6. StepStage(s)'
  <2>1. ResultOf(exec[s].kind, a) = "success" => a \in Registry[exec[s].kind].accepts
      BY DEF ResultOf
  <2>2. /\ ResultOf(exec[s].kind, a) = "success" => a \notin {"none", "refused", "lost"}
        /\ ResultOf(exec[s].kind, a) = "success" /\ a = "unreadable" => exec[s].kind = "webhook"
      BY <1>1, <2>1, RegistryMeaning
  <2>3. s \in bundles' /\ exec[s].kind # "ai_transform" => ResultOf(exec[s].kind, a) = "success"
      BY <1>1, <1>3 DEF _save_evidence, ResultOf
  <2> QED
      BY <1>1, <1>2, <2>2, <2>3 DEF StepStage
<1>7. \A h \in Steps : h # s => StepStage(h)'
    BY <1>4 DEF StepStage
<1> QED
    BY <1>3, <1>5, <1>6, <1>7

\* For any number of steps and datasources, a step is a success only when its
\* call was made and answered, and a database step only with a datasource that
\* was active when it looked.
THEOREM SuccessWasAnsweredHolds == Spec => []SuccessWasAnswered
<1>1. Init => ExecutorInvariant
    BY DEF Init, ExecutorInit, ExecutorInvariant, StepStage, ExecRecords, NotRun
<1>2. ExecutorInvariant /\ [Next]_configurationVars => ExecutorInvariant'
  <2> SUFFICES ASSUME ExecutorInvariant, [Next]_configurationVars PROVE ExecutorInvariant'
      OBVIOUS
  <2>1. ExecutorNext \/ UNCHANGED <<exec, bundles>>
      BY DEF Next, Plans, Intents, Datasources, Executors, Platform, configurationVars, executorVars
  <2>2. CASE UNCHANGED <<exec, bundles>>
      BY <2>2 DEF ExecutorInvariant, StepStage
  <2>3. CASE ExecutorNext
    <3>1. \/ UNCHANGED <<exec, bundles>>
          \/ \E s \in Steps :
               \/ \E kind \in Kinds, n \in Sources, reached \in BOOLEAN, given \in BOOLEAN :
                     Prepare(s, kind, n, reached, given)
               \/ \E a \in Answers : Answer(s, a)
        BY <2>3 DEF ExecutorNext, create_source, update_source, delete_source
    <3> QED
        BY <2>2, <3>1, PrepareStage, AnswerStage
  <2> QED
      BY <2>1, <2>2, <2>3
<1>3. ExecutorInvariant => SuccessWasAnswered
    BY DEF ExecutorInvariant, SuccessWasAnswered, StepStage, NotRun
<1> QED
    BY <1>1, <1>2, <1>3, PTL DEF Spec

-----------------------------------------------------------------------------
(* Modules and their plans. *)

CatalogRequests ==
    {Idle} \cup [op : {"create"}, id : ModIds] \cup [op : {"update"}, id : ModIds, old : ModRows]

ModuleTypeOK ==
    /\ mods \in [ModIds -> ModRows \cup {NoMod}]
    /\ plan \in [ModNames -> {"none", "active", "inactive"}]
    /\ mreq \in CatalogRequests
    /\ unanswered \in BOOLEAN

\* No two modules share a name.
NamesDiffer == \A i, o \in Live : i # o => mods[i].name # mods[o].name

\* The module a request is about is there; no other one takes the name the
\* request would give back.
RequestOnModule ==
    mreq.op # "none" =>
        /\ mreq.id \in Live
        /\ mreq.op = "update" => \A o \in Live : o # mreq.id => mods[o].name # mreq.old.name

\* But for the module a request is about, a free module has its plan; and if
\* that one was free before the request, it has the plan under its old name.
PlansKept ==
    ~unanswered =>
        /\ \A i \in Live : (mreq.op = "none" \/ i # mreq.id) /\ mods[i].free
                              => plan[mods[i].name] # "none"
        /\ mreq.op = "update" /\ mreq.old.free => plan[mreq.old.name] # "none"

ModuleInvariant == ModuleTypeOK /\ NamesDiffer /\ RequestOnModule /\ PlansKept

\* A module is there when its row is one.
LEMMA LiveRows ==
    ASSUME ModuleTypeOK
    PROVE  /\ \A i \in ModIds : i \in Live <=> mods[i] \in ModRows
           /\ Live \subseteq ModIds
BY NoModAssumption DEF ModuleTypeOK, Live

\* The same, after a step.
LEMMA LiveRowsNext ==
    ASSUME ModuleTypeOK'
    PROVE  /\ \A i \in ModIds : i \in Live' <=> mods'[i] \in ModRows
           /\ Live' \subseteq ModIds
BY NoModAssumption DEF ModuleTypeOK, Live

\* A request begins: a row is made or changed under a name that is free.
LEMMA BeginModuleRequest ==
    ASSUME ModuleInvariant, NEW i \in ModIds, NEW n \in ModNames,
           NEW st \in {"active", "inactive"}, NEW free \in BOOLEAN,
           create_module(i, n, st, free) \/ update_module(i, n, st, free)
    PROVE  ModuleInvariant'
<1> USE DEF ModuleInvariant
<1> DEFINE row == [name |-> n, status |-> st, free |-> free]
<1>1. /\ mreq = Idle /\ row \in ModRows /\ row.name = n
      /\ \A o \in Live : o # i => mods[o].name # n
      /\ mods' = [mods EXCEPT ![i] = row]
      /\ UNCHANGED <<plan, unanswered>>
    BY DEF create_module, update_module, Taken, ModRows
<1>2. \/ mreq' = [op |-> "create", id |-> i]
      \/ mreq' = [op |-> "update", id |-> i, old |-> mods[i]] /\ mods[i] \in ModRows
    BY LiveRows DEF create_module, update_module
<1> HIDE DEF row
<1>3. ModuleTypeOK'
    BY <1>1, <1>2 DEF ModuleTypeOK, CatalogRequests
<1>4. /\ mods'[i] = row /\ i \in Live'
      /\ \A o \in ModIds : o # i => mods'[o] = mods[o] /\ (o \in Live' <=> o \in Live)
  <2>1. mods'[i] = row /\ \A o \in ModIds : o # i => mods'[o] = mods[o]
      BY <1>1 DEF ModuleTypeOK
  <2> QED
      BY <1>1, <1>3, <2>1, LiveRows, LiveRowsNext
<1>5. NamesDiffer'
    BY <1>1, <1>3, <1>4, LiveRowsNext DEF NamesDiffer
<1>6. RequestOnModule'
    BY <1>1, <1>2, <1>3, <1>4, LiveRows, LiveRowsNext DEF RequestOnModule, NamesDiffer
<1>7. PlansKept'
  <2>1. mreq.op = "none"
      BY <1>1 DEF Idle
  <2>2. mreq'.op # "none" /\ mreq'.id = i
      BY <1>2
  <2>3. \A o \in Live' : o # i => o \in Live /\ mods'[o] = mods[o]
      BY <1>3, <1>4, LiveRowsNext
  <2>4. mreq'.op = "update" => mreq'.old = mods[i] /\ i \in Live
      BY <1>2, LiveRows
  <2> QED
      BY <1>1, <2>1, <2>2, <2>3, <2>4 DEF PlansKept
<1> QED
    BY <1>3, <1>5, <1>6, <1>7

\* What the gateway did, as FlowEngine sees it.
LEMMA ToldMeaning ==
    ASSUME NEW after, NEW out \in Gateway, NEW ok \in BOOLEAN, Told(after, out, ok)
    PROVE  /\ ok /\ ~unanswered' => plan' = after
           /\ ~ok /\ ~unanswered' => plan' = plan
           /\ plan' \in {plan, after}
           /\ unanswered => unanswered'
BY DEF Told, Gateway

\* The gateway's answer to a creation: the row goes again unless the gateway
\* has the plan.
LEMMA EndCreation ==
    ASSUME ModuleInvariant, NEW out \in Gateway, NEW reached \in BOOLEAN, CreateSync(out, reached)
    PROVE  ModuleInvariant'
<1> USE DEF ModuleInvariant
<1> DEFINE i == mreq.id
           row == mods[i]
<1>1. /\ i \in ModIds /\ row \in ModRows /\ mreq.op = "create"
    BY LiveRows DEF CreateSync, RequestOnModule, ModuleTypeOK, CatalogRequests, Idle
<1>2. PICK ok \in BOOLEAN :
        /\ Told(Synced(row.name, row.free), out, ok)
        /\ mods' = [mods EXCEPT ![i] =
             IF ~ok THEN NoMod
             ELSE IF row.status = "active" /\ ~row.free /\ ~has_plan(row.name, reached)
             THEN [row EXCEPT !.status = "inactive"] ELSE row]
        /\ mreq' = Idle
    BY DEF CreateSync
<1>3. PICK m \in ModIds : m = i
    BY <1>1
<1>4. /\ mods[m] \in ModRows /\ mreq.id = m /\ mreq.op = "create"
      /\ \A o \in ModIds : o # m => mods'[o] = mods[o]
      /\ ~ok => mods'[m] = NoMod
      /\ ok => mods'[m] \in ModRows /\ mods'[m].name = mods[m].name /\ mods'[m].free = mods[m].free
    BY <1>1, <1>2, <1>3 DEF ModuleTypeOK, ModRows
<1>5. PICK n \in ModNames, free \in BOOLEAN : n = mods[m].name /\ free = mods[m].free
    BY <1>4 DEF ModRows
<1>6. Told(Synced(n, free), out, ok)
    BY <1>2, <1>3, <1>5
<1>7. Synced(n, free) \in [ModNames -> {"none", "active", "inactive"}]
      /\ (\A k \in ModNames : plan[k] # "none" => Synced(n, free)[k] # "none")
      /\ (free => Synced(n, free)[n] # "none")
    BY <1>5 DEF Synced, ModuleTypeOK
<1> HIDE DEF i, row
<1>8. ModuleTypeOK'
  <2>1. plan' \in [ModNames -> {"none", "active", "inactive"}] /\ unanswered' \in BOOLEAN
      BY <1>6, <1>7, ToldMeaning DEF Told, ModuleTypeOK
  <2>2. \A o \in ModIds : mods'[o] \in ModRows \cup {NoMod}
      BY <1>4 DEF ModuleTypeOK
  <2>3. mods' \in [ModIds -> ModRows \cup {NoMod}]
      BY <1>2, <2>2 DEF ModuleTypeOK
  <2> QED
      BY <1>2, <2>1, <2>3 DEF ModuleTypeOK, CatalogRequests
<1>9. \A o \in Live' : o \in Live /\ mods'[o].name = mods[o].name /\ mods'[o].free = mods[o].free
  <2>1. \A o \in Live' : o \in ModIds /\ mods'[o] \in ModRows
      BY <1>8, LiveRowsNext
  <2> QED
      BY <1>4, <2>1, LiveRows, NoModAssumption
<1>10. NamesDiffer' /\ RequestOnModule'
    BY <1>2, <1>9 DEF NamesDiffer, RequestOnModule, Idle
<1>11. PlansKept'
  <2> SUFFICES ASSUME ~unanswered', NEW o \in Live', mods'[o].free
               PROVE  plan'[mods'[o].name] # "none"
      BY <1>2 DEF PlansKept, Idle
  <2>1. o \in Live /\ mods[o].free /\ mods[o].name = mods'[o].name /\ mods[o].name \in ModNames
      BY <1>9, LiveRows DEF ModRows
  <2>2. ~unanswered /\ plan' \in {plan, Synced(n, free)} /\ (ok => plan' = Synced(n, free))
      BY <1>6, ToldMeaning
  <2>3. CASE o = m
    <3>1. ok
        BY <1>4, <1>8, <2>3, LiveRowsNext, NoModAssumption
    <3> QED
        BY <1>5, <1>7, <2>1, <2>2, <2>3, <3>1
  <2>4. CASE o # m
      BY <1>4, <1>7, <2>1, <2>2, <2>4 DEF PlansKept
  <2> QED
      BY <2>3, <2>4
<1> QED
    BY <1>8, <1>10, <1>11

\* The gateway's answer to an update: the plans have moved to the new name, or
\* the row has its old name back.
LEMMA EndUpdate ==
    ASSUME ModuleInvariant, NEW out \in Gateway, NEW reached \in BOOLEAN, UpdateSync(out, reached)
    PROVE  ModuleInvariant'
<1> USE DEF ModuleInvariant
<1>1. /\ mreq.op = "update" /\ mreq.id \in ModIds /\ mods[mreq.id] \in ModRows
      /\ mreq.old \in ModRows
    BY LiveRows DEF UpdateSync, RequestOnModule, ModuleTypeOK, CatalogRequests, Idle
<1>2. PICK m \in ModIds, row \in ModRows, old \in ModRows :
        m = mreq.id /\ row = mods[mreq.id] /\ old = mreq.old
    BY <1>1
<1>3. PICK ok \in BOOLEAN :
        /\ ~(old.name # row.name \/ old.free # row.free) => out = "done"
        /\ Told(IF old.name # row.name \/ old.free # row.free
                THEN Renamed(old.name, row.name, row.free) ELSE plan, out, ok)
        /\ mods' = [mods EXCEPT ![m] =
             IF ~ok THEN [row EXCEPT !.name = old.name, !.free = old.free]
             ELSE IF /\ row.status = "active" /\ old.status # "active" /\ ~row.free
                     /\ ~(reached /\ plan'[row.name] = "active")
             THEN [row EXCEPT !.status = old.status] ELSE row]
        /\ mreq' = Idle
    BY <1>2 DEF UpdateSync
<1>4. /\ \A o \in ModIds : o # m => mods'[o] = mods[o]
      /\ mods'[m] \in ModRows
      /\ ~ok => mods'[m].name = old.name /\ mods'[m].free = old.free
      /\ ok => mods'[m].name = row.name /\ mods'[m].free = row.free
    BY <1>3 DEF ModuleTypeOK, ModRows
<1>5. PICK a \in ModNames, b \in ModNames, wasFree \in BOOLEAN, free \in BOOLEAN :
        a = old.name /\ b = row.name /\ wasFree = old.free /\ free = row.free
    BY DEF ModRows
<1> DEFINE after == IF a # b \/ wasFree # free THEN Renamed(a, b, free) ELSE plan
<1>6. Told(after, out, ok)
    BY <1>3, <1>5
<1>7. /\ after \in [ModNames -> {"none", "active", "inactive"}]
      /\ \A k \in ModNames : k # a /\ k # b => after[k] = plan[k]
      /\ free /\ (wasFree => plan[a] # "none") => after[b] # "none"
    BY <1>5 DEF Renamed, ModuleTypeOK
<1> HIDE DEF after
<1>8. ModuleTypeOK'
  <2>1. plan' \in [ModNames -> {"none", "active", "inactive"}] /\ unanswered' \in BOOLEAN
      BY <1>6, <1>7, ToldMeaning DEF Told, ModuleTypeOK
  <2>2. \A o \in ModIds : mods'[o] \in ModRows \cup {NoMod}
      BY <1>4 DEF ModuleTypeOK
  <2>3. mods' \in [ModIds -> ModRows \cup {NoMod}]
      BY <1>3, <2>2 DEF ModuleTypeOK
  <2> QED
      BY <1>3, <2>1, <2>3 DEF ModuleTypeOK, CatalogRequests
<1>9. m \in Live /\ \A o \in Live' : o \in Live /\ o \in ModIds
    BY <1>1, <1>2, <1>4, <1>8, LiveRows, LiveRowsNext
<1>10. \A o \in Live : o # m => mods[o].name # a /\ mods[o].name # b /\ mods[o].name \in ModNames
    BY <1>1, <1>2, <1>5, <1>9, LiveRows DEF RequestOnModule, NamesDiffer, ModRows
<1>11. NamesDiffer'
    BY <1>4, <1>5, <1>9, <1>10 DEF NamesDiffer
<1>12. RequestOnModule'
    BY <1>3 DEF RequestOnModule, Idle
<1>13. PlansKept'
  <2> SUFFICES ASSUME ~unanswered', NEW o \in Live', mods'[o].free
               PROVE  plan'[mods'[o].name] # "none"
      BY <1>3 DEF PlansKept, Idle
  <2>1. ~unanswered /\ plan' \in {plan, after} /\ (ok => plan' = after) /\ (~ok => plan' = plan)
      BY <1>6, ToldMeaning
  <2>2. wasFree => plan[a] # "none"
      BY <1>1, <1>2, <1>5, <2>1 DEF PlansKept
  <2>3. CASE o = m
      BY <1>4, <1>5, <1>7, <2>1, <2>2, <2>3
  <2>4. CASE o # m
    <3>1. mods'[o] = mods[o] /\ o \in Live
        BY <1>4, <1>9, <2>4
    <3>2. plan[mods[o].name] # "none"
        BY <1>2, <2>1, <2>4, <3>1 DEF PlansKept
    <3> QED
        BY <1>7, <1>10, <2>1, <2>4, <3>1, <3>2
  <2> QED
      BY <2>3, <2>4
<1> QED
    BY <1>8, <1>11, <1>12, <1>13

\* A deletion, which asks the gateway first, and a plan an administrator adds.
LEMMA DeleteOrAddPlan ==
    ASSUME ModuleInvariant,
           \/ \E i \in ModIds, out \in Gateway : delete_module(i, out)
           \/ \E n \in ModNames : AddPlan(n)
    PROVE  ModuleInvariant'
<1> USE DEF ModuleInvariant
<1>1. ASSUME NEW n \in ModNames, AddPlan(n) PROVE ModuleInvariant'
  <2>1. UNCHANGED <<mods, mreq, unanswered>> /\ plan' = [plan EXCEPT ![n] = "active"]
      BY <1>1 DEF AddPlan
  <2>2. /\ plan' \in [ModNames -> {"none", "active", "inactive"}]
        /\ \A k \in ModNames : plan[k] # "none" => plan'[k] # "none"
      BY <2>1 DEF ModuleTypeOK
  <2>3. \A i \in Live : mods[i].name \in ModNames
      BY LiveRows DEF ModRows
  <2>4. mreq.op = "update" => mreq.old.name \in ModNames
      BY DEF ModuleTypeOK, CatalogRequests, Idle, ModRows
  <2>5. ModuleTypeOK' /\ NamesDiffer' /\ RequestOnModule'
      BY <2>1, <2>2 DEF ModuleTypeOK, NamesDiffer, RequestOnModule, Live
  <2>6. PlansKept'
      BY <2>1, <2>2, <2>3, <2>4 DEF PlansKept, Live
  <2> QED
      BY <2>5, <2>6
<1>2. ASSUME NEW i \in ModIds, NEW out \in Gateway, delete_module(i, out) PROVE ModuleInvariant'
  <2>1. mreq = Idle /\ mreq' = mreq /\ mods[i] \in ModRows
      BY <1>2, LiveRows DEF delete_module
  <2>2. PICK n \in ModNames : n = mods[i].name
      BY <2>1 DEF ModRows
  <2> DEFINE after == [plan EXCEPT ![n] = IF @ = "none" THEN @ ELSE "inactive"]
  <2>3. PICK ok \in BOOLEAN : Told(after, out, ok)
                              /\ mods' = IF ok THEN [mods EXCEPT ![i] = NoMod] ELSE mods
      BY <1>2, <2>2 DEF delete_module
  <2>4. /\ after \in [ModNames -> {"none", "active", "inactive"}]
        /\ \A k \in ModNames : plan[k] # "none" => after[k] # "none"
      BY DEF ModuleTypeOK
  <2> HIDE DEF after
  <2>5. /\ plan' \in [ModNames -> {"none", "active", "inactive"}]
        /\ unanswered' \in BOOLEAN /\ (unanswered => unanswered')
        /\ \A k \in ModNames : plan[k] # "none" => plan'[k] # "none"
      BY <2>3, <2>4, ToldMeaning DEF Told, ModuleTypeOK
  <2>6. ModuleTypeOK'
      BY <2>1, <2>3, <2>5 DEF ModuleTypeOK
  <2>7. \A o \in Live' : o \in Live /\ mods'[o] = mods[o] /\ mods[o].name \in ModNames
    <3>1. \A o \in ModIds : mods'[o] = mods[o] \/ mods'[o] = NoMod
        BY <2>3 DEF ModuleTypeOK
    <3> QED
        BY <2>6, <3>1, LiveRows, LiveRowsNext, NoModAssumption DEF ModRows
  <2>8. NamesDiffer' /\ RequestOnModule'
      BY <2>1, <2>7 DEF NamesDiffer, RequestOnModule, Idle
  <2>9. PlansKept'
      BY <2>1, <2>5, <2>7 DEF PlansKept, Idle
  <2> QED
      BY <2>6, <2>8, <2>9
<1> QED
    BY <1>1, <1>2

\* For any number of modules and names, a free module has its plan whenever no
\* request is under way and no answer of the gateway was lost.
THEOREM FreeModuleHasPlanHolds == Spec => []FreeModuleHasPlan
<1>1. Init => ModuleInvariant
  <2> SUFFICES ASSUME PlatformInit PROVE ModuleInvariant
      BY DEF Init
  <2> QED
      BY NoModAssumption
         DEF PlatformInit, ModuleInvariant, ModuleTypeOK, NamesDiffer, RequestOnModule,
             PlansKept, CatalogRequests, Idle, Live
<1>2. ModuleInvariant /\ [Next]_configurationVars => ModuleInvariant'
  <2> SUFFICES ASSUME ModuleInvariant, [Next]_configurationVars PROVE ModuleInvariant'
      OBVIOUS
  <2>1. CASE UNCHANGED <<mods, plan, mreq, unanswered>>
      BY <2>1 DEF ModuleInvariant, ModuleTypeOK, NamesDiffer, RequestOnModule, PlansKept, Live
  <2>2. CASE ModuleCatalog
    <3>1. CASE \E j \in AssignJobs :
                 \/ \E i \in ModIds, op \in {"assign", "remove"} : ReadAttribute(j, op, i)
                 \/ \E ok \in BOOLEAN : PutAttribute(j, ok)
        BY <2>1, <3>1 DEF ReadAttribute, PutAttribute
    <3> QED
        BY <2>2, <3>1, BeginModuleRequest, EndCreation, EndUpdate, DeleteOrAddPlan
           DEF ModuleCatalog
  <2>3. CASE AdminAccounts
      BY <2>1, <2>3 DEF AdminAccounts, SeedCheck, RestartApp, SeedCreate, SeedRole, create_admin,
                        update_admin, delete_admin, GrantSuperadmin, adminOnly
  <2>4. ModuleCatalog \/ AdminAccounts \/ UNCHANGED <<mods, plan, mreq, unanswered>>
      BY DEF Next, Plans, Intents, Datasources, Executors, Platform, configurationVars, platformVars
  <2> QED
      BY <2>1, <2>2, <2>3, <2>4
<1>3. ModuleInvariant => FreeModuleHasPlan
    BY DEF ModuleInvariant, FreeModuleHasPlan, PlansKept, Idle
<1> QED
    BY <1>1, <1>2, <1>3, PTL DEF Spec

-----------------------------------------------------------------------------
(* Intents and their routing. *)

Routes == {"none", "MANUAL_REVIEW", "REROUTE", "AUTO_PROCESS"}

RunRecords ==
    [pc : {"new", "asked", "classified", "routed", "validated"}, got : Guesses,
     lang : Languages \cup {"none"}, stored : Routes, routed : Routes, ticket : BOOLEAN,
     checks : SUBSET RawChecks, verdict : {"none", "SUCCESS", "PARTIAL", "FAILED"}]

\* A verdict and the checks it was computed from.
VerdictFits(run) ==
    /\ run.verdict = "SUCCESS" =>
          /\ run.checks # {}
          /\ \A c \in run.checks : _normalize_check(c).passed
    /\ run.verdict = "PARTIAL" =>
          \A c \in run.checks : \/ _normalize_check(c).passed
                                \/ _normalize_check(c).severity # "CRITICAL"

RoutingInvariant ==
    /\ runs \in [IntentRequests -> RunRecords]
    /\ \A r \in IntentRequests : VerdictFits(runs[r])

\* A request that was given no intents is one of the guesses, and so is one.
LEMMA GuessMeaning ==
    /\ <<>> \in Guesses
    /\ \A got \in Guesses : \/ got = <<>>
                            \/ got \in [1 .. 1 -> [code : Codes, conf : Confidences]]
                            \/ got \in [1 .. 2 -> [code : Codes, conf : Confidences]]
<1> DEFINE G(n) == [1 .. n -> [code : Codes, conf : Confidences]]
<1>1. <<>> \in G(0)
    OBVIOUS
<1>2. \A got \in G(0) : got = <<>>
    OBVIOUS
<1>3. \A n \in 0 .. 2 : n = 0 \/ n = 1 \/ n = 2
    OBVIOUS
<1> QED
    BY <1>1, <1>2, <1>3 DEF Guesses

\* The primary intent is one of those that were classified.
LEMMA PrimaryIsGuessed ==
    ASSUME NEW got \in Guesses, got # <<>>
    PROVE  \E i \in DOMAIN got : Primary(got) = got[i]
<1> DEFINE Best(i) == /\ \A j \in DOMAIN got : got[j].conf <= got[i].conf
                      /\ \A j \in 1 .. i - 1 : got[j].conf < got[i].conf
<1>1. \E i \in DOMAIN got : Best(i)
  <2>1. CASE got \in [1 .. 1 -> [code : Codes, conf : Confidences]]
    <3>1. DOMAIN got = {1} /\ got[1].conf \in Nat
      <4>1. 1 .. 1 = {1} /\ got[1] \in [code : Codes, conf : Confidences]
          BY <2>1
      <4> QED
          BY <2>1, <4>1, ConfidencesAssumption
    <3> QED
        BY <3>1
  <2>2. CASE got \in [1 .. 2 -> [code : Codes, conf : Confidences]]
    <3>1. DOMAIN got = {1, 2} /\ got[1].conf \in Nat /\ got[2].conf \in Nat
      <4>1. /\ 1 .. 2 = {1, 2}
            /\ got[1] \in [code : Codes, conf : Confidences]
            /\ got[2] \in [code : Codes, conf : Confidences]
          BY <2>2
      <4> QED
          BY <2>2, <4>1, ConfidencesAssumption
    <3>2. CASE got[2].conf <= got[1].conf
      <4>1. Best(1)
          BY <3>1, <3>2
      <4> QED
          BY <3>1, <4>1
    <3>3. CASE got[1].conf < got[2].conf
      <4>1. \A j \in 1 .. 2 - 1 : j = 1
          OBVIOUS
      <4>2. Best(2)
          BY <3>1, <3>3, <4>1
      <4> QED
          BY <3>1, <4>2
    <3> QED
        BY <3>1, <3>2, <3>3
  <2> QED
      BY <2>1, <2>2, GuessMeaning
<1>2. Primary(got) = got[CHOOSE i \in DOMAIN got : Best(i)]
    BY DEF Primary
<1> HIDE DEF Best
<1> QED
    BY <1>1, <1>2

\* Automatic processing needs an intent whose level is automatic under the rules
\* that were selected, in every mode.
LEMMA AutoHasLevel ==
    ASSUME NEW got \in Guesses, NEW pol, apply_routing_logic(got, pol) = "AUTO_PROCESS"
    PROVE  \E i \in DOMAIN got : Level(pol, got[i]) = "auto"
<1>1. got # <<>>
    BY DEF apply_routing_logic
<1>2. PICK t \in DOMAIN got : Primary(got) = got[t]
    BY <1>1, PrimaryIsGuessed
<1>3. \/ Level(pol, Primary(got)) = "auto"
      \/ "auto" \in {Level(pol, got[i]) : i \in DOMAIN got}
    BY <1>1 DEF apply_routing_logic
<1> QED
    BY <1>2, <1>3

\* An intent whose level is automatic is backed by a rule that was in force.
LEMMA AutoIsBacked ==
    ASSUME NEW got \in Guesses, NEW lang \in Languages \cup {"none"},
           NEW pol \in SelectPolicies(got, lang), NEW i \in DOMAIN got,
           Level(pol, got[i]) = "auto"
    PROVE  Backed(got[i])
<1> DEFINE ci == got[i]
           U  == UNION {SelectedRules(ci.code, l) : l \in Languages \cup {"none"}}
<1>1. pol[ci.code] \in SelectedRules(ci.code, lang)
    BY DEF SelectPolicies
<1>2. pol[ci.code] \in U
    BY <1>1
<1>3. ci.conf >= (IF pol[ci.code] = NoRule THEN DefaultRule ELSE pol[ci.code]).auto
    BY DEF Level
<1>4. CASE pol[ci.code] = NoRule
    BY <1>2, <1>3, <1>4 DEF Backed
<1>5. CASE pol[ci.code] # NoRule
    BY <1>2, <1>3, <1>5 DEF Backed
<1> QED
    BY <1>4, <1>5

\* The verdict fits the checks it was computed from, whatever the agent claims.
LEMMA OverallStatusFits ==
    ASSUME NEW raw \in SUBSET RawChecks, NEW claim
    PROVE  /\ overall_status(raw, claim) \in {"SUCCESS", "PARTIAL", "FAILED"}
           /\ overall_status(raw, claim) = "SUCCESS" =>
                 raw # {} /\ \A c \in raw : _normalize_check(c).passed
           /\ overall_status(raw, claim) = "PARTIAL" =>
                 \A c \in raw : _normalize_check(c).passed \/ _normalize_check(c).severity # "CRITICAL"
BY DEF overall_status

\* One request does one step; what becomes of its record.
LEMMA RequestStep ==
    ASSUME RoutingInvariant, NEW r \in IntentRequests, RequestSteps(r)
    PROVE  /\ RoutingInvariant'
           /\ \A q \in IntentRequests : q # r => runs'[q] = runs[q]
           /\ runs'[r].routed # runs[r].routed => policy_route(r)
<1> USE DEF RoutingInvariant
<1>1. runs[r] \in RunRecords /\ VerdictFits(runs[r]) /\ runs[r].got \in Guesses
    BY DEF RunRecords
<1>2. ASSUME NEW new \in RunRecords, runs' = [runs EXCEPT ![r] = new], VerdictFits(new)
      PROVE  /\ RoutingInvariant' /\ runs'[r] = new
             /\ \A q \in IntentRequests : q # r => runs'[q] = runs[q]
    BY <1>2
<1>3. CASE ProvisionalRun(r) \/ LlmFails(r)
  <2>1. PICK new : /\ runs' = [runs EXCEPT ![r] = new]
                   /\ \/ new = [runs[r] EXCEPT !.pc = "asked", !.stored = "MANUAL_REVIEW"]
                      \/ new = [runs[r] EXCEPT !.pc = "classified"]
    <3>1. CASE ProvisionalRun(r)
      <4>1. runs' = [runs EXCEPT ![r] = [runs[r] EXCEPT !.pc = "asked",
                                                        !.stored = "MANUAL_REVIEW"]]
          BY <1>1, <3>1 DEF ProvisionalRun
      <4> QED
          BY <4>1
    <3>2. CASE LlmFails(r)
      <4>1. runs' = [runs EXCEPT ![r] = [runs[r] EXCEPT !.pc = "classified"]]
          BY <3>2 DEF LlmFails
      <4> QED
          BY <4>1
    <3> QED
        BY <1>3, <3>1, <3>2
  <2>2. new \in RunRecords /\ new.routed = runs[r].routed /\ VerdictFits(new)
      BY <1>1, <2>1 DEF RunRecords, VerdictFits, Routes
  <2> QED
      BY <1>2, <2>1, <2>2
<1>4. CASE \E got \in Guesses, lang \in Languages : Classify(r, got, lang)
  <2>1. PICK got \in Guesses, lang \in Languages, d \in Routes :
          runs' = [runs EXCEPT ![r] = [runs[r] EXCEPT !.pc = "classified", !.got = got,
                                               !.lang = lang, !.stored = d]]
      BY <1>4 DEF Classify, apply_routing_logic, Routes
  <2> DEFINE new == [runs[r] EXCEPT !.pc = "classified", !.got = got, !.lang = lang, !.stored = d]
  <2>2. new \in RunRecords /\ new.routed = runs[r].routed /\ VerdictFits(new)
      BY <1>1 DEF RunRecords, VerdictFits
  <2> QED
      BY <1>2, <2>1, <2>2
<1>5. CASE policy_route(r)
  <2>1. PICK d \in Routes :
          runs' = [runs EXCEPT ![r] = [runs[r] EXCEPT !.pc = "routed", !.got = <<>>,
                                               !.routed = d, !.ticket = (d = "MANUAL_REVIEW")]]
      BY <1>5 DEF policy_route, apply_routing_logic, Routes
  <2> DEFINE new == [runs[r] EXCEPT !.pc = "routed", !.got = <<>>, !.routed = d,
                                    !.ticket = (d = "MANUAL_REVIEW")]
  <2>2. new \in RunRecords /\ VerdictFits(new)
      BY <1>1, GuessMeaning DEF RunRecords, VerdictFits
  <2> QED
      BY <1>2, <1>5, <2>1, <2>2
<1>6. CASE \E ok \in BOOLEAN, raw \in SUBSET RawChecks, claim \in {"SUCCESS", "PARTIAL", "FAILED"} :
             intent_validate(r, ok, raw, claim)
  <2>1. PICK raw \in SUBSET RawChecks, verdict \in {"SUCCESS", "PARTIAL", "FAILED"} :
          /\ runs' = [runs EXCEPT ![r] = [runs[r] EXCEPT !.pc = "validated", !.got = <<>>,
                                               !.checks = raw, !.verdict = verdict]]
          /\ verdict = "SUCCESS" => raw # {} /\ \A c \in raw : _normalize_check(c).passed
          /\ verdict = "PARTIAL" =>
                \A c \in raw : _normalize_check(c).passed \/ _normalize_check(c).severity # "CRITICAL"
    <3>1. PICK ok \in BOOLEAN, raw \in SUBSET RawChecks, claim \in {"SUCCESS", "PARTIAL", "FAILED"} :
            intent_validate(r, ok, raw, claim)
        BY <1>6
    <3>2. CASE ok
        BY <3>1, <3>2, OverallStatusFits DEF intent_validate
    <3>3. CASE ~ok
        BY <3>1, <3>3 DEF intent_validate
    <3> QED
        BY <3>2, <3>3
  <2> DEFINE new == [runs[r] EXCEPT !.pc = "validated", !.got = <<>>, !.checks = raw,
                                    !.verdict = verdict]
  <2>2. /\ new \in RunRecords /\ new.routed = runs[r].routed
        /\ new.checks = raw /\ new.verdict = verdict
      BY <1>1, GuessMeaning DEF RunRecords
  <2> HIDE DEF new
  <2>3. VerdictFits(new)
      BY <2>1, <2>2 DEF VerdictFits
  <2> QED
      BY <1>2, <2>1, <2>2, <2>3 DEF new
<1> QED
    BY <1>3, <1>4, <1>5, <1>6 DEF RequestSteps

\* A step of the routes or of another service leaves the requests alone.
LEMMA RoutingStep ==
    ASSUME RoutingInvariant, [Next]_configurationVars
    PROVE  runs' = runs \/ \E r \in IntentRequests : RequestSteps(r)
<1>1. RoutingNext \/ runs' = runs
    BY DEF Next, Plans, Intents, Datasources, Executors, Platform, configurationVars, routingVars
<1>2. IntentRoutes => runs' = runs
    BY DEF IntentRoutes, create_intent, update_intent, delete_intent, create_intent_policy,
           update_intent_policy, delete_intent_policy
<1> QED
    BY <1>1, <1>2 DEF RoutingNext

\* For any number of requests, a verdict fits the checks it was computed from.
THEOREM RoutingInvariantHolds == Spec => []RoutingInvariant
<1>1. Init => RoutingInvariant
    BY GuessMeaning DEF Init, RoutingInit, RoutingInvariant, RunRecords, NoRun, Routes, VerdictFits
<1>2. RoutingInvariant /\ [Next]_configurationVars => RoutingInvariant'
  <2> SUFFICES ASSUME RoutingInvariant, [Next]_configurationVars PROVE RoutingInvariant'
      OBVIOUS
  <2>1. CASE runs' = runs
      BY <2>1 DEF RoutingInvariant
  <2> QED
      BY <2>1, RoutingStep, RequestStep
<1> QED
    BY <1>1, <1>2, PTL DEF Spec

\* A request counts as safe to process only when the agent reported checks and
\* all of them say they passed, whatever it claims overall.
THEOREM SafeIsVerifiedHolds == Spec => []SafeIsVerified
<1>1. RoutingInvariant => SafeIsVerified
  <2> SUFFICES ASSUME RoutingInvariant, NEW r \in IntentRequests,
                      NEW run \in RunRecords, run = runs[r]
               PROVE  LET Says(c) == \/ c.passed = "true"
                                     \/ c.passed # "false" /\ c.status \in PassWords
                      IN  /\ run.verdict = "SUCCESS" =>
                                run.checks # {} /\ \A c \in run.checks : Says(c)
                          /\ run.verdict = "PARTIAL" =>
                                \A c \in run.checks : Says(c) \/ c.severity = "WARNING"
      BY DEF RoutingInvariant, SafeIsVerified
  <2>1. VerdictFits(run)
      BY DEF RoutingInvariant
  <2>2. \A c : _normalize_check(c).passed =>
                 c.passed = "true" \/ (c.passed # "false" /\ c.status \in PassWords)
      BY DEF _normalize_check
  <2>3. \A c : _normalize_check(c).severity # "CRITICAL" => c.severity = "WARNING"
      BY DEF _normalize_check
  <2> QED
      BY <2>1, <2>2, <2>3 DEF VerdictFits
<1> QED
    BY <1>1, RoutingInvariantHolds, PTL

\* A request is sent to automatic processing only with an intent whose
\* confidence reaches the threshold in force at that moment, however the
\* policies were edited since it was classified.
THEOREM RoutedOnEvidenceHolds == Spec => RoutedOnEvidence
<1>1. RoutingInvariant /\ [Next]_configurationVars
      => [\A r \in IntentRequests :
            (runs'[r].routed = "AUTO_PROCESS" /\ runs[r].routed # "AUTO_PROCESS")
               => \E i \in DOMAIN runs[r].got : Backed(runs[r].got[i])]_routingVars
  <2> SUFFICES ASSUME RoutingInvariant, [Next]_configurationVars, NEW r \in IntentRequests,
                      runs'[r].routed = "AUTO_PROCESS", runs[r].routed # "AUTO_PROCESS"
               PROVE  \E i \in DOMAIN runs[r].got : Backed(runs[r].got[i])
      OBVIOUS
  <2>1. policy_route(r)
      BY RoutingStep, RequestStep
  <2>2. runs[r] \in RunRecords
      BY DEF RoutingInvariant
  <2>3. PICK got \in Guesses, lang \in Languages \cup {"none"} :
          got = runs[r].got /\ lang = runs[r].lang
      BY <2>2 DEF RunRecords
  <2>4. PICK pol \in SelectPolicies(got, lang) : runs'[r].routed = apply_routing_logic(got, pol)
    <3>1. PICK pol \in SelectPolicies(got, lang) :
            runs' = [runs EXCEPT ![r] = [runs[r] EXCEPT !.pc = "routed", !.got = <<>>,
                        !.routed = apply_routing_logic(got, pol),
                        !.ticket = (apply_routing_logic(got, pol) = "MANUAL_REVIEW")]]
        BY <2>1, <2>3 DEF policy_route
    <3> DEFINE d == apply_routing_logic(got, pol)
    <3>2. [runs[r] EXCEPT !.pc = "routed", !.got = <<>>, !.routed = d,
                          !.ticket = (d = "MANUAL_REVIEW")].routed = d
        BY <2>2 DEF RunRecords
    <3>3. runs'[r].routed = d
        BY <3>1, <3>2 DEF RoutingInvariant
    <3> QED
        BY <3>3
  <2>5. PICK i \in DOMAIN got : Level(pol, got[i]) = "auto"
      BY <2>4, AutoHasLevel
  <2> QED
      BY <2>3, <2>5, AutoIsBacked
<1> QED
    BY <1>1, RoutingInvariantHolds, PTL DEF Spec, RoutedOnEvidence

-----------------------------------------------------------------------------
(* Plans and their saved versions. *)

VersionRows == [ver : Nat, row : [name : PlanNames, body : Bodies], steps : SUBSET StepRows]

ReadRows == [name : PlanNames, tenant : PlanTenants \cup {SharedPlan}, body : Bodies,
             steps : SUBSET StepRows, ver : Nat]

PlanOps == {"save", "restore", "clone"}

PlanRequests(op, Args) ==
    [op : {op}, pc : {"steps", "write"}, plan : PlanIds, arg : Args, row : ReadRows]

InstallRequests == [op : {"install"}, pc : {"plan"}, pack : Packs, tenant : PackTenants,
                    left : Seq(PlanNames), inserted : BOOLEAN]

CatalogRequestRows ==
    {NoJob} \cup PlanRequests("save", {NoPlan}) \cup PlanRequests("restore", VersionRows)
    \cup PlanRequests("clone", PlanNames) \cup InstallRequests

CatalogTypeOK ==
    /\ plans \in [PlanIds -> PlanRows \cup {NoPlan}]
    /\ versions \in [PlanIds -> SUBSET VersionRows]
    /\ job \in [Jobs -> CatalogRequestRows]
    /\ planIds \subseteq PlanIds

\* Content c under number v is not newer than the plan, and is the plan's own
\* content if the number is.
Agrees(v, c, p) == v <= p.ver /\ (v = p.ver => c = PlanContent(p))

\* A plan's id was given out; what is not stored has no versions.
IdsGivenOut == \A i \in PlanIds : /\ plans[i] \in PlanRows => i \in planIds
                                  /\ plans[i] \notin PlanRows => versions[i] = {}

VersionsAgree == \A i \in PlanIds : \A s \in versions[i] : Agrees(s.ver, s.row, plans[i])

\* What a request read of its plan is no newer than the plan, and what it would
\* write down under the number it read is what that number stands for.
ReadsAgree ==
    \A j \in Jobs : job[j].op \in PlanOps =>
        /\ job[j].plan \in planIds
        /\ plans[job[j].plan] \in PlanRows =>
              Agrees(job[j].row.ver, PlanContent(job[j].row), plans[job[j].plan])

CatalogInvariant == CatalogTypeOK /\ IdsGivenOut /\ VersionsAgree /\ ReadsAgree

\* A plan is stored when its row is one.
LEMMA StoredRows ==
    ASSUME CatalogTypeOK
    PROVE  /\ \A i \in PlanIds : i \in StoredPlans <=> plans[i] \in PlanRows
           /\ StoredPlans \subseteq PlanIds
BY CatalogAssumption DEF CatalogTypeOK, StoredPlans

\* A request on a plan, whichever it is.
LEMMA PlanJobRows ==
    ASSUME CatalogTypeOK, NEW j \in Jobs, job[j].op \in PlanOps
    PROVE  /\ job[j].plan \in PlanIds /\ job[j].row \in ReadRows
           /\ job[j].op = "save" => job[j] \in PlanRequests("save", {NoPlan})
           /\ job[j].op = "restore" => job[j] \in PlanRequests("restore", VersionRows)
           /\ job[j].op = "clone" => job[j] \in PlanRequests("clone", PlanNames)
<1>1. job[j] \in CatalogRequestRows
    BY DEF CatalogTypeOK
<1> QED
    BY <1>1 DEF CatalogRequestRows, PlanRequests, InstallRequests, NoJob, PlanOps

\* Numbers only go up, and what agreed with a plan agrees with what it becomes.
LEMMA AgreesOnward ==
    ASSUME NEW v \in Nat, NEW c, NEW p \in PlanRows, NEW q \in PlanRows,
           Agrees(v, c, p), Agrees(p.ver, PlanContent(p), q)
    PROVE  Agrees(v, c, q)
<1>1. p.ver \in Nat /\ q.ver \in Nat
    BY DEF PlanRows
<1> QED
    BY <1>1 DEF Agrees

\* A plan agrees with itself.
LEMMA AgreesItself == \A p \in PlanRows : p.ver \in Nat /\ Agrees(p.ver, PlanContent(p), p)
BY DEF Agrees, PlanRows

\* When every plan is new or goes on from what it was, versions and requests
\* still agree with it.
LEMMA StillAgree ==
    ASSUME CatalogInvariant,
           \A i \in PlanIds : plans'[i] \in PlanRows =>
               \/ i \notin planIds
               \/ plans[i] \in PlanRows /\ Agrees(plans[i].ver, PlanContent(plans[i]), plans'[i])
    PROVE  /\ \A i \in PlanIds : plans'[i] \in PlanRows =>
                  \A s \in versions[i] : Agrees(s.ver, s.row, plans'[i])
           /\ \A j \in Jobs : job[j].op \in PlanOps /\ plans'[job[j].plan] \in PlanRows =>
                  Agrees(job[j].row.ver, PlanContent(job[j].row), plans'[job[j].plan])
<1> USE DEF CatalogInvariant
<1>1. ASSUME NEW i \in PlanIds, plans'[i] \in PlanRows, NEW s \in versions[i]
      PROVE  Agrees(s.ver, s.row, plans'[i])
  <2>1. plans[i] \in PlanRows /\ i \in planIds /\ Agrees(s.ver, s.row, plans[i])
      BY <1>1 DEF IdsGivenOut, VersionsAgree
  <2>2. s.ver \in Nat
      BY <1>1 DEF CatalogTypeOK, VersionRows
  <2> QED
      BY <1>1, <2>1, <2>2, AgreesOnward
<1>2. ASSUME NEW j \in Jobs, job[j].op \in PlanOps, plans'[job[j].plan] \in PlanRows
      PROVE  Agrees(job[j].row.ver, PlanContent(job[j].row), plans'[job[j].plan])
  <2>1. job[j].plan \in PlanIds /\ job[j].plan \in planIds /\ job[j].row.ver \in Nat
      BY <1>2, PlanJobRows DEF ReadsAgree, ReadRows
  <2>2. plans[job[j].plan] \in PlanRows
      BY <1>2, <2>1
  <2>3. Agrees(job[j].row.ver, PlanContent(job[j].row), plans[job[j].plan])
      BY <1>2, <2>2 DEF ReadsAgree
  <2> QED
      BY <1>2, <2>1, <2>2, <2>3, AgreesOnward
<1> QED
    BY <1>1, <1>2

\* A new plan, under an id nothing knows.
LEMMA InsertPlanAgrees ==
    ASSUME CatalogInvariant, NEW i \in PlanIds, NEW n \in PlanNames,
           NEW t \in PlanTenants \cup {SharedPlan}, NEW b \in Bodies, NEW S \in SUBSET StepRows,
           InsertPlan(i, n, t, b, S), versions' = versions,
           job' \in [Jobs -> CatalogRequestRows],
           \A j \in Jobs : job'[j] = job[j] \/ job'[j].op \notin PlanOps
    PROVE  CatalogInvariant'
<1> USE DEF CatalogInvariant
<1> DEFINE p == [name |-> n, tenant |-> t, body |-> b, steps |-> S, active |-> TRUE, ver |-> 1]
<1>1. /\ plans' = [plans EXCEPT ![i] = p] /\ planIds' = planIds \cup {i} /\ i \notin planIds
      /\ p \in PlanRows
    BY DEF InsertPlan, NextId, PlanRows
<1> HIDE DEF p
<1>2. CatalogTypeOK'
    BY <1>1 DEF CatalogTypeOK
<1>3. plans'[i] = p /\ \A k \in PlanIds : k # i => plans'[k] = plans[k]
    BY <1>1 DEF CatalogTypeOK
<1>4. \A k \in PlanIds : plans'[k] \in PlanRows =>
          \/ k \notin planIds
          \/ plans[k] \in PlanRows /\ Agrees(plans[k].ver, PlanContent(plans[k]), plans'[k])
    BY <1>1, <1>3, AgreesItself
<1>5. IdsGivenOut'
    BY <1>1, <1>3 DEF IdsGivenOut
<1>6. VersionsAgree'
  <2>1. \A k \in PlanIds : versions[k] # {} => plans'[k] \in PlanRows
      BY <1>1, <1>3 DEF IdsGivenOut
  <2> QED
      BY <1>4, <2>1, StillAgree DEF VersionsAgree
<1>7. ReadsAgree'
    BY <1>1, <1>4, StillAgree DEF ReadsAgree
<1> QED
    BY <1>2, <1>5, <1>6, <1>7

\* What update_plan, delete_plan and SetActive do to one row.
LEMMA ChangePlanAgrees ==
    ASSUME CatalogInvariant, NEW i \in PlanIds,
           \/ \E n \in PlanNames, b \in Bodies, S \in StepSets : update_plan(i, n, b, S)
           \/ delete_plan(i)
           \/ \E on \in BOOLEAN : SetActive(i, on)
    PROVE  CatalogInvariant'
<1> USE DEF CatalogInvariant
<1>1. plans[i] \in PlanRows /\ UNCHANGED <<job, planIds>>
    BY StoredRows DEF update_plan, delete_plan, SetActive
<1>2. PICK p \in PlanRows \cup {NoPlan} :
        /\ plans' = [plans EXCEPT ![i] = p]
        /\ p \in PlanRows => Agrees(plans[i].ver, PlanContent(plans[i]), p) /\ versions' = versions
        /\ p \notin PlanRows => versions' = [versions EXCEPT ![i] = {}]
  <2>1. ASSUME NEW n \in PlanNames, NEW b \in Bodies, NEW S \in StepSets, update_plan(i, n, b, S)
        PROVE  \E p \in PlanRows : /\ plans' = [plans EXCEPT ![i] = p] /\ versions' = versions
                                   /\ Agrees(plans[i].ver, PlanContent(plans[i]), p)
    <3>1. PICK T \in SUBSET StepRows, v \in Nat, w \in Nat :
            T = S /\ v = plans[i].ver /\ w = v + 1
        BY <1>1 DEF PlanRows, StepRows
    <3> DEFINE p == [plans[i] EXCEPT !.name = n, !.body = b, !.steps = T, !.ver = w]
    <3>2. p \in PlanRows /\ p.ver = w
        BY <1>1 DEF PlanRows
    <3>3. plans' = [plans EXCEPT ![i] = p] /\ versions' = versions
        BY <2>1, <3>1 DEF update_plan
    <3> HIDE DEF p
    <3>4. Agrees(plans[i].ver, PlanContent(plans[i]), p)
        BY <3>1, <3>2 DEF Agrees
    <3> QED
        BY <3>2, <3>3, <3>4
  <2>2. ASSUME NEW on \in BOOLEAN, SetActive(i, on)
        PROVE  \E p \in PlanRows : /\ plans' = [plans EXCEPT ![i] = p] /\ versions' = versions
                                   /\ Agrees(plans[i].ver, PlanContent(plans[i]), p)
    <3> DEFINE p == [plans[i] EXCEPT !.active = on]
    <3>1. plans' = [plans EXCEPT ![i] = p] /\ versions' = versions
        BY <2>2 DEF SetActive
    <3>2. /\ p \in PlanRows /\ p.ver = plans[i].ver /\ plans[i].ver \in Nat
          /\ p.name = plans[i].name /\ p.body = plans[i].body
        BY <1>1 DEF PlanRows
    <3> HIDE DEF p
    <3>3. Agrees(plans[i].ver, PlanContent(plans[i]), p)
        BY <3>2 DEF Agrees, PlanContent
    <3> QED
        BY <3>1, <3>2, <3>3
  <2>3. ASSUME delete_plan(i)
        PROVE  plans' = [plans EXCEPT ![i] = NoPlan] /\ versions' = [versions EXCEPT ![i] = {}]
      BY <2>3 DEF delete_plan
  <2> QED
      BY <2>1, <2>2, <2>3, CatalogAssumption
<1>3. /\ plans'[i] = p /\ \A k \in PlanIds : k # i => plans'[k] = plans[k]
      /\ \A k \in PlanIds : versions'[k] = IF k = i /\ p \notin PlanRows THEN {} ELSE versions[k]
    BY <1>2 DEF CatalogTypeOK
<1>4. CatalogTypeOK'
    BY <1>1, <1>2 DEF CatalogTypeOK
<1>5. \A k \in PlanIds : plans'[k] \in PlanRows =>
          \/ k \notin planIds
          \/ plans[k] \in PlanRows /\ Agrees(plans[k].ver, PlanContent(plans[k]), plans'[k])
    BY <1>1, <1>2, <1>3, AgreesItself
<1>6. IdsGivenOut'
    BY <1>1, <1>3 DEF IdsGivenOut
<1>7. VersionsAgree'
  <2>1. \A k \in PlanIds : versions'[k] # {} => plans'[k] \in PlanRows /\ versions'[k] = versions[k]
      BY <1>1, <1>3 DEF IdsGivenOut
  <2> QED
      BY <1>5, <2>1, StillAgree DEF VersionsAgree
<1>8. ReadsAgree'
    BY <1>1, <1>5, StillAgree DEF ReadsAgree
<1> QED
    BY <1>4, <1>6, <1>7, <1>8

\* A step that changes only what requests know of plans.
LEMMA JobAgrees ==
    ASSUME CatalogInvariant, NEW j \in Jobs, UNCHANGED <<plans, versions, planIds>>,
           NEW new \in CatalogRequestRows, job' = [job EXCEPT ![j] = new],
           new.op \in PlanOps =>
               /\ new.plan \in planIds
               /\ plans[new.plan] \in PlanRows =>
                     Agrees(new.row.ver, PlanContent(new.row), plans[new.plan])
    PROVE  CatalogInvariant'
<1> USE DEF CatalogInvariant
<1>1. CatalogTypeOK' /\ IdsGivenOut' /\ VersionsAgree'
    BY DEF CatalogTypeOK, IdsGivenOut, VersionsAgree
<1>2. \A k \in Jobs : job'[k] = IF k = j THEN new ELSE job[k]
    BY DEF CatalogTypeOK
<1>3. ReadsAgree'
    BY <1>2 DEF ReadsAgree
<1> QED
    BY <1>1, <1>3

\* A request reads its plan's row, and later its steps.
LEMMA ReadingAgrees ==
    ASSUME CatalogInvariant, NEW j \in Jobs,
           \/ \E i \in PlanIds : \/ BeginOnPlan(j, "save", i, NoPlan)
                                 \/ \E s \in versions[i] : BeginOnPlan(j, "restore", i, s)
                                 \/ \E n \in PlanNames : BeginOnPlan(j, "clone", i, n)
           \/ ReadSteps(j)
    PROVE  CatalogInvariant'
<1> USE DEF CatalogInvariant
<1>1. ASSUME NEW i \in PlanIds, NEW op \in PlanOps, NEW arg, BeginOnPlan(j, op, i, arg),
             PlanRequests(op, {arg}) \subseteq CatalogRequestRows
      PROVE  CatalogInvariant'
  <2> DEFINE new == [op |-> op, pc |-> "steps", plan |-> i, arg |-> arg, row |-> Read(plans[i])]
  <2>1. /\ plans[i] \in PlanRows /\ job' = [job EXCEPT ![j] = new]
        /\ UNCHANGED <<plans, versions, planIds>>
      BY <1>1, StoredRows DEF BeginOnPlan
  <2>2. /\ Read(plans[i]) \in ReadRows /\ Read(plans[i]).ver = plans[i].ver
        /\ PlanContent(Read(plans[i])) = PlanContent(plans[i])
        /\ plans[i].ver \in Nat
      BY <2>1 DEF Read, ReadRows, PlanRows, PlanContent
  <2>3. new \in CatalogRequestRows
      BY <1>1, <2>2 DEF PlanRequests
  <2>4. /\ i \in planIds
        /\ Agrees(Read(plans[i]).ver, PlanContent(Read(plans[i])), plans[i])
      BY <2>1, <2>2 DEF IdsGivenOut, Agrees
  <2>5. new.plan = i /\ new.row = Read(plans[i])
      OBVIOUS
  <2> HIDE DEF new
  <2> QED
      BY <2>1, <2>3, <2>4, <2>5, JobAgrees
<1>2. CASE \E i \in PlanIds : BeginOnPlan(j, "save", i, NoPlan)
  <2>1. PlanRequests("save", {NoPlan}) \subseteq CatalogRequestRows
      BY DEF CatalogRequestRows
  <2> QED
      BY <1>1, <1>2, <2>1 DEF PlanOps
<1>3. CASE \E i \in PlanIds : \E s \in versions[i] : BeginOnPlan(j, "restore", i, s)
  <2>1. \A s \in VersionRows : PlanRequests("restore", {s}) \subseteq CatalogRequestRows
      BY DEF CatalogRequestRows, PlanRequests
  <2>2. \A i \in PlanIds : versions[i] \subseteq VersionRows
      BY DEF CatalogTypeOK
  <2> QED
      BY <1>1, <1>3, <2>1, <2>2 DEF PlanOps
<1>4. CASE \E i \in PlanIds : \E n \in PlanNames : BeginOnPlan(j, "clone", i, n)
  <2>1. \A n \in PlanNames : PlanRequests("clone", {n}) \subseteq CatalogRequestRows
      BY DEF CatalogRequestRows, PlanRequests
  <2> QED
      BY <1>1, <1>4, <2>1 DEF PlanOps
<1>5. CASE ReadSteps(j)
  <2>1. job[j].pc = "steps" /\ job[j] \in CatalogRequestRows
      BY <1>5 DEF ReadSteps, CatalogTypeOK
  <2>2. job[j].op \in PlanOps
      BY <2>1 DEF CatalogRequestRows, PlanRequests, InstallRequests, NoJob, PlanOps
  <2>3. PICK S \in SUBSET StepRows :
          /\ job' = [job EXCEPT ![j].pc = "write", ![j].row.steps = S]
          /\ UNCHANGED <<plans, versions, planIds>>
    <3>1. \A i \in StoredPlans : plans[i].steps \in SUBSET StepRows
        BY StoredRows DEF PlanRows
    <3> DEFINE S == IF job[j].plan \in StoredPlans THEN plans[job[j].plan].steps ELSE {}
    <3>2. S \in SUBSET StepRows
        BY <3>1
    <3>3. /\ job' = [job EXCEPT ![j].pc = "write", ![j].row.steps = S]
          /\ UNCHANGED <<plans, versions, planIds>>
        BY <1>5 DEF ReadSteps
    <3> HIDE DEF S
    <3> QED
        BY <3>2, <3>3
  <2> DEFINE row == [job[j].row EXCEPT !.steps = S]
             new == [job[j] EXCEPT !.pc = "write", !.row = row]
  <2>4. job[j].row \in ReadRows /\ job[j].plan \in PlanIds
      BY <2>2, PlanJobRows
  <2>5. row \in ReadRows /\ row.ver = job[j].row.ver /\ PlanContent(row) = PlanContent(job[j].row)
      BY <2>4 DEF ReadRows, PlanContent
  <2>6. job' = [job EXCEPT ![j] = new]
      BY <2>3
  <2> HIDE DEF row
  <2>7. new \in CatalogRequestRows /\ new.plan = job[j].plan /\ new.row = row
    <3>1. ASSUME NEW op, NEW Args, job[j] \in PlanRequests(op, Args)
          PROVE  new \in PlanRequests(op, Args) /\ new.plan = job[j].plan /\ new.row = row
        BY <2>5, <3>1 DEF PlanRequests
    <3> QED
        BY <2>2, <3>1, PlanJobRows DEF CatalogRequestRows, PlanOps
  <2>8. /\ job[j].plan \in planIds
        /\ plans[job[j].plan] \in PlanRows =>
              Agrees(job[j].row.ver, PlanContent(job[j].row), plans[job[j].plan])
      BY <2>2 DEF ReadsAgree
  <2> HIDE DEF new
  <2> QED
      BY <2>3, <2>5, <2>6, <2>7, <2>8, JobAgrees DEF Agrees
<1> QED
    BY <1>2, <1>3, <1>4, <1>5

\* What a saved version gives back of its steps are steps a plan can have.
LEMMA BareStepsAreRows ==
    ASSUME NEW S \in SUBSET StepRows
    PROVE  BareSteps(S) \in SUBSET StepRows
<1>1. \A x \in StepRows : x.key \in StepKeys
  <2>1. \A x \in UNION StepSets : x.key \in StepKeys
      BY DEF StepKeys
  <2>2. \A x \in [key : StepKeys, detail : BOOLEAN] : x.key \in StepKeys
      OBVIOUS
  <2> QED
      BY <2>1, <2>2 DEF StepRows
<1>2. \A k \in StepKeys : [key |-> k, detail |-> FALSE] \in StepRows
  <2>1. \A k \in StepKeys : [key |-> k, detail |-> FALSE] \in [key : StepKeys, detail : BOOLEAN]
      OBVIOUS
  <2>2. [key : StepKeys, detail : BOOLEAN] \subseteq StepRows
      BY DEF StepRows
  <2> QED
      BY <2>1, <2>2
<1> QED
    BY <1>1, <1>2 DEF BareSteps

\* A request that ends, and the steps of an installation that make no plan.
LEMMA OtherJobsAgree ==
    ASSUME CatalogInvariant, NEW j \in Jobs,
           \/ AbandonJob(j)
           \/ \E k \in Packs, t \in PackTenants : BeginInstall(j, k, t)
           \/ SkipPackPlan(j) \/ InstallDone(j) \/ InstallFails(j)
    PROVE  CatalogInvariant'
<1> USE DEF CatalogInvariant
<1>1. UNCHANGED <<plans, versions, planIds>>
    BY DEF AbandonJob, BeginInstall, SkipPackPlan, InstallDone, InstallFails
<1>2. PICK new \in CatalogRequestRows : job' = [job EXCEPT ![j] = new] /\ new.op \notin PlanOps
  <2>1. CASE AbandonJob(j) \/ InstallDone(j) \/ InstallFails(j)
    <3>1. NoJob \in CatalogRequestRows /\ NoJob.op \notin PlanOps
        BY DEF CatalogRequestRows, NoJob, PlanOps
    <3> QED
        BY <2>1, <3>1 DEF AbandonJob, InstallDone, InstallFails, EndJob
  <2>2. ASSUME NEW k \in Packs, NEW t \in PackTenants, BeginInstall(j, k, t)
        PROVE  \E new \in InstallRequests : job' = [job EXCEPT ![j] = new]
    <3>1. [op |-> "install", pc |-> "plan", pack |-> k, tenant |-> t, left |-> PackPlans[k],
           inserted |-> FALSE] \in InstallRequests
        BY CatalogAssumption DEF InstallRequests
    <3> QED
        BY <2>2, <3>1 DEF BeginInstall
  <2>3. CASE SkipPackPlan(j)
    <3>1. job[j] \in InstallRequests /\ job[j].left # <<>>
        BY <2>3 DEF SkipPackPlan, JobAt, CatalogTypeOK, CatalogRequestRows, PlanRequests, NoJob
    <3> DEFINE new == [job[j] EXCEPT !.left = Tail(job[j].left)]
    <3>2. Tail(job[j].left) \in Seq(PlanNames)
        BY <3>1 DEF InstallRequests
    <3>3. new \in InstallRequests
        BY <3>1, <3>2 DEF InstallRequests
    <3>4. job' = [job EXCEPT ![j] = new]
        BY <2>3 DEF SkipPackPlan
    <3> QED
        BY <3>3, <3>4 DEF CatalogRequestRows, InstallRequests, PlanOps
  <2>4. \A new \in InstallRequests : new \in CatalogRequestRows /\ new.op \notin PlanOps
      BY DEF CatalogRequestRows, InstallRequests, PlanOps
  <2> QED
      BY <2>1, <2>2, <2>3, <2>4
<1> QED
    BY <1>1, <1>2, JobAgrees

\* The requests that make a plan: a clone and a pack's plan.
LEMMA MakingAgrees ==
    ASSUME CatalogInvariant, NEW i \in PlanIds,
           \/ \E j \in Jobs : clone_plan(j, i)
           \/ \E j \in Jobs, b \in Bodies, S \in StepSets : CreatePackPlan(j, i, b, S)
           \/ \E n \in PlanNames, b \in Bodies, S \in StepSets, t \in PlanTenants :
                 create_plan(i, n, t, b, S)
    PROVE  CatalogInvariant'
<1> USE DEF CatalogInvariant
<1>1. ASSUME NEW j \in Jobs, clone_plan(j, i) PROVE CatalogInvariant'
  <2>1. job[j].op = "clone" /\ job[j].op \in PlanOps
      BY <1>1 DEF clone_plan, JobAt, PlanOps
  <2>2. job[j].arg \in PlanNames /\ job[j].row \in ReadRows
      BY <2>1, PlanJobRows DEF PlanRequests
  <2>3. PICK n \in PlanNames, t \in PlanTenants \cup {SharedPlan}, b \in Bodies,
             S \in SUBSET StepRows : InsertPlan(i, n, t, b, S)
      BY <1>1, <2>2 DEF clone_plan, ReadRows
  <2>4. /\ versions' = versions /\ job' \in [Jobs -> CatalogRequestRows]
        /\ \A k \in Jobs : job'[k] = job[k] \/ job'[k].op \notin PlanOps
      BY <1>1 DEF clone_plan, EndJob, CatalogTypeOK, CatalogRequestRows, NoJob, PlanOps
  <2> QED
      BY <2>3, <2>4, InsertPlanAgrees
<1>2. ASSUME NEW j \in Jobs, NEW b \in Bodies, NEW S \in StepSets, CreatePackPlan(j, i, b, S)
      PROVE  CatalogInvariant'
  <2>1. job[j] \in InstallRequests /\ job[j].left # <<>>
      BY <1>2 DEF CreatePackPlan, JobAt, CatalogTypeOK, CatalogRequestRows, PlanRequests, NoJob
  <2>2. Head(job[j].left) \in PlanNames /\ Tail(job[j].left) \in Seq(PlanNames)
      BY <2>1 DEF InstallRequests
  <2> DEFINE new == [job[j] EXCEPT !.left = Tail(job[j].left), !.inserted = TRUE]
  <2>3. new \in InstallRequests
      BY <2>1, <2>2 DEF InstallRequests
  <2>4. job' = [job EXCEPT ![j] = new] /\ versions' = versions
      BY <1>2 DEF CreatePackPlan
  <2>5. new \in CatalogRequestRows /\ new.op \notin PlanOps
      BY <2>3 DEF CatalogRequestRows, InstallRequests, PlanOps
  <2> HIDE DEF new
  <2>6. /\ job' \in [Jobs -> CatalogRequestRows]
        /\ \A k \in Jobs : job'[k] = job[k] \/ job'[k].op \notin PlanOps
      BY <2>4, <2>5 DEF CatalogTypeOK
  <2>7. InsertPlan(i, Head(job[j].left), SharedPlan, b, S) /\ S \in SUBSET StepRows
      BY <1>2 DEF CreatePackPlan, StepRows
  <2> QED
      BY <2>2, <2>4, <2>6, <2>7, InsertPlanAgrees
<1>3. ASSUME NEW n \in PlanNames, NEW b \in Bodies, NEW S \in StepSets, NEW t \in PlanTenants,
             create_plan(i, n, t, b, S)
      PROVE  CatalogInvariant'
  <2>1. /\ InsertPlan(i, n, t, b, S) /\ S \in SUBSET StepRows
        /\ versions' = versions /\ job' = job
      BY <1>3 DEF create_plan, StepRows
  <2> QED
      BY <2>1, InsertPlanAgrees DEF CatalogTypeOK
<1> QED
    BY <1>1, <1>2, <1>3

\* Saving and restoring: what is written down was read earlier, and agrees with
\* the plan as it is now.
LEMMA SavingAgrees ==
    ASSUME CatalogInvariant, NEW j \in Jobs, save_plan_version(j) \/ restore_plan_version(j)
    PROVE  CatalogInvariant'
<1> USE DEF CatalogInvariant
<1>1. job[j].op \in PlanOps
    BY DEF save_plan_version, restore_plan_version, JobAt, PlanOps
<1>2. PICK i \in PlanIds, r \in ReadRows : i = job[j].plan /\ r = job[j].row
    BY <1>1, PlanJobRows
<1> DEFINE s == [ver |-> r.ver, row |-> PlanContent(r), steps |-> r.steps]
<1>3. /\ plans[i] \in PlanRows /\ versions' = [versions EXCEPT ![i] = versions[i] \cup {s}]
      /\ job' = [job EXCEPT ![j] = NoJob] /\ planIds' = planIds
    BY <1>2, StoredRows DEF save_plan_version, restore_plan_version, InsertVersion, EndJob
<1>4. s \in VersionRows /\ s.ver = r.ver /\ s.row = PlanContent(r) /\ r.ver \in Nat
    BY DEF VersionRows, ReadRows, PlanContent
<1>5. Agrees(r.ver, PlanContent(r), plans[i])
    BY <1>1, <1>2, <1>3 DEF ReadsAgree
<1> HIDE DEF s
<1>6. PICK p \in PlanRows :
        plans' = [plans EXCEPT ![i] = p] /\ Agrees(plans[i].ver, PlanContent(plans[i]), p)
  <2>1. plans[i].ver \in Nat
      BY <1>3 DEF PlanRows
  <2>2. CASE save_plan_version(j)
    <3>1. plans' = [plans EXCEPT ![i] = plans[i]]
        BY <2>2 DEF save_plan_version, CatalogTypeOK
    <3> QED
        BY <1>3, <3>1, AgreesItself
  <2>3. CASE restore_plan_version(j)
    <3>1. job[j] \in PlanRequests("restore", VersionRows)
        BY <1>1, <2>3, PlanJobRows DEF restore_plan_version, JobAt
    <3>2. PICK v \in VersionRows : v = job[j].arg
        BY <3>1 DEF PlanRequests
    <3>3. plans' = [plans EXCEPT ![i] = Restored(plans[i], v)]
        BY <1>2, <2>3, <3>2 DEF restore_plan_version
    <3>4. BareSteps(v.steps) \in SUBSET StepRows
        BY BareStepsAreRows DEF VersionRows
    <3>5. PICK T \in SUBSET StepRows :
            Restored(plans[i], v) = [plans[i] EXCEPT !.name = v.row.name, !.body = v.row.body,
                                        !.ver = plans[i].ver + 1, !.steps = T]
      <4>1. plans[i].steps \in SUBSET StepRows
          BY <1>3 DEF PlanRows
      <4> QED
          BY <3>4, <4>1 DEF Restored
    <3> DEFINE q == [name |-> v.row.name, tenant |-> plans[i].tenant, body |-> v.row.body,
                     steps |-> T, active |-> plans[i].active, ver |-> plans[i].ver + 1]
    <3>6. Restored(plans[i], v) = q
        BY <1>3, <3>5 DEF PlanRows
    <3>7. q \in PlanRows /\ q.ver = plans[i].ver + 1
        BY <1>3, <2>1 DEF PlanRows, VersionRows
    <3> HIDE DEF q
    <3>8. Agrees(plans[i].ver, PlanContent(plans[i]), q)
        BY <2>1, <3>7 DEF Agrees
    <3> QED
        BY <3>3, <3>6, <3>7, <3>8
  <2> QED
      BY <2>2, <2>3
<1>7. CatalogTypeOK'
    BY <1>3, <1>4, <1>6 DEF CatalogTypeOK, CatalogRequestRows
<1>8. /\ plans'[i] = p /\ versions'[i] = versions[i] \cup {s}
      /\ \A k \in PlanIds : k # i => plans'[k] = plans[k] /\ versions'[k] = versions[k]
      /\ \A k \in Jobs : job'[k] = job[k] \/ job'[k].op \notin PlanOps
    BY <1>3, <1>6 DEF CatalogTypeOK, NoJob, PlanOps
<1>9. \A k \in PlanIds : plans'[k] \in PlanRows =>
          \/ k \notin planIds
          \/ plans[k] \in PlanRows /\ Agrees(plans[k].ver, PlanContent(plans[k]), plans'[k])
    BY <1>3, <1>6, <1>8, AgreesItself
<1>10. IdsGivenOut'
    BY <1>3, <1>8 DEF IdsGivenOut
<1>11. VersionsAgree'
  <2>1. Agrees(s.ver, s.row, p)
      BY <1>3, <1>4, <1>5, <1>6, AgreesOnward
  <2>2. \A k \in PlanIds : versions[k] # {} => plans'[k] \in PlanRows
      BY <1>6, <1>8 DEF IdsGivenOut
  <2>3. \A k \in PlanIds : \A v \in versions[k] : Agrees(v.ver, v.row, plans'[k])
      BY <1>9, <2>2, StillAgree
  <2> QED
      BY <1>8, <2>1, <2>3 DEF VersionsAgree
<1>12. ReadsAgree'
    BY <1>3, <1>8, <1>9, StillAgree DEF ReadsAgree
<1> QED
    BY <1>7, <1>10, <1>11, <1>12

\* For any number of plans and requests, a version number never stands for two
\* contents: what requests read agrees with the plan for as long as they live.
THEOREM CatalogInvariantHolds == Spec => []CatalogInvariant
<1>1. Init => CatalogInvariant
  <2> SUFFICES ASSUME CatalogInit PROVE CatalogInvariant
      BY DEF Init
  <2> QED
      BY CatalogAssumption
         DEF CatalogInit, CatalogInvariant, CatalogTypeOK, IdsGivenOut, VersionsAgree, ReadsAgree,
             CatalogRequestRows, NoJob, PlanOps
<1>2. CatalogInvariant /\ [Next]_configurationVars => CatalogInvariant'
  <2> SUFFICES ASSUME CatalogInvariant, [Next]_configurationVars PROVE CatalogInvariant'
      OBVIOUS
  <2>1. CASE UNCHANGED <<plans, versions, job, planIds>>
      BY <2>1 DEF CatalogInvariant, CatalogTypeOK, IdsGivenOut, VersionsAgree, ReadsAgree
  <2>2. CASE PlanRoutes
      BY <2>2, MakingAgrees, ChangePlanAgrees DEF PlanRoutes, activate_plan, deactivate_plan
  <2>3. ASSUME NEW j \in Jobs, VersionJobs(j) PROVE CatalogInvariant'
      BY <2>3, ReadingAgrees, MakingAgrees, SavingAgrees, OtherJobsAgree DEF VersionJobs
  <2>4. ASSUME NEW j \in Jobs, install_domain_pack(j) PROVE CatalogInvariant'
      BY <2>4, MakingAgrees, OtherJobsAgree DEF install_domain_pack
  <2>5. ASSUME MappingRoutes PROVE UNCHANGED <<plans, versions, job, planIds>>
      BY <2>5 DEF MappingRoutes, create_intent_plan_mapping, update_intent_plan_mapping,
                  delete_intent_plan_mapping, PutMapping
  <2>6. ASSUME NEW k \in Packs, NEW t \in PackTenants, uninstall_domain_pack(k, t)
        PROVE  UNCHANGED <<plans, versions, job, planIds>>
      BY <2>6 DEF uninstall_domain_pack
  <2>7. CatalogNext \/ MappingRoutes \/ UNCHANGED <<plans, versions, job, planIds>>
      BY DEF Next, Plans, Intents, Datasources, Executors, Platform, configurationVars, catalogVars
  <2> QED
      BY <2>1, <2>2, <2>3, <2>4, <2>5, <2>6, <2>7 DEF CatalogNext
<1> QED
    BY <1>1, <1>2, PTL DEF Spec

\* A saved version is never newer than its plan, and under the plan's own number
\* it is the plan as it stands.
THEOREM SavedIsCurrentHolds == Spec => []SavedIsCurrent
<1>1. CatalogInvariant => SavedIsCurrent
    BY StoredRows DEF CatalogInvariant, SavedIsCurrent, VersionsAgree, Agrees
<1> QED
    BY <1>1, CatalogInvariantHolds, PTL

-----------------------------------------------------------------------------
(* Intent to plan. *)

\* Of any mappings there are, some have the lowest rank.
LEMMA LowestRankExists ==
    ASSUME NEW M \in SUBSET MappingRows, M # {}
    PROVE  LowestRank(M) # {}
<1> DEFINE T == {m.rank : m \in M}
           Less == OpToRel(<, Nat)
<1>1. \A m \in M : m.rank \in Nat
    BY CatalogAssumption DEF MappingRows
<1>2. T \subseteq Nat /\ T # {}
    BY <1>1
<1>3. PICK k \in T : \A l \in T : <<l, k>> \notin Less
  <2>1. IsWellFoundedOn(Less, Nat)
      BY NatLessThanWellFounded
  <2> HIDE DEF Less, T
  <2> QED
      BY <1>2, <2>1, WFMin
<1>4. \A l \in T : k <= l
  <2>1. Less = {ss \in Nat \X Nat : ss[1] < ss[2]}
      BY DEF OpToRel
  <2> HIDE DEF Less
  <2>2. \A a, b \in Nat : a < b => <<a, b>> \in Less
      BY <2>1
  <2>3. ASSUME NEW l \in T PROVE k <= l
    <3>1. k \in Nat /\ l \in Nat /\ ~(l < k)
        BY <1>2, <1>3, <2>2
    <3> QED
        BY <3>1
  <2> QED
      BY <2>3
<1>5. PICK m \in M : m.rank = k
    OBVIOUS
<1>6. m \in LowestRank(M)
    BY <1>4, <1>5 DEF LowestRank
<1> QED
    BY <1>6

\* The two fallbacks of the resolution find the closest active mapping.
LEMMA ResolvedIsClosest ==
    ASSUME mappings \subseteq MappingRows
    PROVE  ResolvedIsBest
<1> SUFFICES ASSUME NEW x \in MapIntents, NEW c \in Channels, NEW l \in Locales
             PROVE  LET R  == resolve_plan_for_intent(x, c, l)
                        on == {m \in mappings : m.intent = x /\ m.active}
                    IN  /\ R = {} <=> on = {}
                        /\ \A m \in R, o \in on :
                             \/ Closeness(m, c, l) > Closeness(o, c, l)
                             \/ Closeness(m, c, l) = Closeness(o, c, l) /\ m.rank <= o.rank
    BY DEF ResolvedIsBest
<1> DEFINE on == {m \in mappings : m.intent = x /\ m.active}
           E  == {m \in on : m.channel = c /\ m.locale = l}
           U  == {m \in on : m.channel = c /\ m.locale = "multi"}
           S  == IF E # {} THEN E ELSE IF U # {} THEN U ELSE on
<1>1. resolve_plan_for_intent(x, c, l) = LowestRank(S)
    BY DEF resolve_plan_for_intent
<1>2. S \subseteq on /\ (S = {} <=> on = {}) /\ S \in SUBSET MappingRows
    OBVIOUS
<1> HIDE DEF S
<1>3. LowestRank(S) = {} <=> on = {}
  <2>1. LowestRank({}) = {}
      BY DEF LowestRank
  <2>2. S # {} => LowestRank(S) # {}
      BY <1>2, LowestRankExists
  <2> QED
      BY <1>2, <2>1, <2>2
<1>4. ASSUME NEW m \in LowestRank(S), NEW o \in on
      PROVE  \/ Closeness(m, c, l) > Closeness(o, c, l)
             \/ Closeness(m, c, l) = Closeness(o, c, l) /\ m.rank <= o.rank
  <2>1. m \in S /\ (o \in S => m.rank <= o.rank)
      BY DEF LowestRank
  <2>2. o \in S => Closeness(m, c, l) = Closeness(o, c, l)
      BY <2>1 DEF Closeness, S
  <2>3. o \notin S => Closeness(m, c, l) > Closeness(o, c, l)
      BY <2>1 DEF Closeness, S
  <2> QED
      BY <2>1, <2>2, <2>3
<1> QED
    BY <1>1, <1>3, <1>4 DEF S

\* For any number of mappings, channels and locales, an intent that has an
\* active mapping is answered with one than which none is closer.
THEOREM ResolvedIsBestHolds == Spec => []ResolvedIsBest
<1> DEFINE Typed == mappings \subseteq MappingRows
<1>1. Init => Typed
    BY DEF Init, CatalogInit
<1>2. Typed /\ [Next]_configurationVars => Typed'
  <2> SUFFICES ASSUME Typed, [Next]_configurationVars PROVE Typed'
      OBVIOUS
  <2>1. MappingRoutes => Typed'
      BY DEF MappingRoutes, create_intent_plan_mapping, update_intent_plan_mapping,
             delete_intent_plan_mapping, PutMapping
  <2>2. CatalogNext => mappings' = mappings
      BY DEF CatalogNext, PlanRoutes, VersionJobs, install_domain_pack, create_plan, update_plan,
             delete_plan, activate_plan, deactivate_plan, SetActive, BeginOnPlan, ReadSteps,
             clone_plan, save_plan_version, restore_plan_version, AbandonJob, BeginInstall,
             SkipPackPlan, CreatePackPlan, InstallDone, InstallFails, uninstall_domain_pack
  <2>3. CatalogNext \/ MappingRoutes \/ mappings' = mappings
      BY DEF Next, Plans, Intents, Datasources, Executors, Platform, configurationVars, catalogVars
  <2> QED
      BY <2>1, <2>2, <2>3
<1>3. Typed => ResolvedIsBest
    BY ResolvedIsClosest
<1> QED
    BY <1>1, <1>2, <1>3, PTL DEF Spec

=============================================================================
