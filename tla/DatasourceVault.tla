--------------------------- MODULE DatasourceVault ----------------------------
(***************************************************************************)
(* One tenant's datasources, their configurations, the validation rules    *)
(* that use them and the credentials in Vault (FlowEngine modules          *)
(* datasources, validation_rules, credential_gateway and email_inboxes).   *)
(* A datasource is tied to its configuration by a name only: the           *)
(* configuration is called what the datasource's connection_key says.  A   *)
(* secret is kept under the datasource's own name, and the configuration   *)
(* remembers the path.  Saving credentials and deleting a datasource are   *)
(* taken in the steps other requests can come between; Vault may refuse    *)
(* any call, which the code logs and passes over.                          *)
(***************************************************************************)
EXTENDS Naturals, FiniteSets

CONSTANTS
    DsIds, CfgIds, RuleIds, InboxIds,
    DsNames, Mails,
    SaveJobs, DeleteJobs,       \* requests to save credentials, to delete a datasource
    NoRow, GoneRow, NoPath

\* The columns of the three tables.
DsRows    == [name : DsNames, key : DsNames, mode : {"data", "query"}]
CfgRows   == [name : DsNames, path : DsNames \cup {NoPath}]
InboxRows == [mail : Mails, path : Mails \cup {NoPath}]

\* No row and a deleted row are no rows; the empty path is nobody's name.
ASSUME VaultAssumption ==
    /\ NoRow \notin DsRows \cup CfgRows \cup InboxRows \cup DsIds
    /\ GoneRow \notin DsRows \cup CfgRows \cup InboxRows \cup DsIds
    /\ NoPath \notin DsNames \cup Mails
    /\ SaveJobs \cap DeleteJobs = {}

VARIABLES
    ds,         \* eivs.datasources by id
    cfg,        \* eivs.datasource_configs by id
    rules,      \* eivs.validation_rules: the datasource of each
    inboxes,    \* eivs.email_inboxes by id
    vault,      \* the paths a secret is stored under
    vjob,       \* requests to save credentials or delete a datasource
    left        \* ghost: paths nothing in the database was able to keep track of

vaultVars == <<ds, cfg, rules, inboxes, vault, vjob, left>>

NoVaultJob == [op |-> "none", pc |-> "none"]

VaultJobs  == SaveJobs \cup DeleteJobs

VaultInit ==
    /\ ds = [i \in DsIds |-> NoRow] /\ cfg = [c \in CfgIds |-> NoRow]
    /\ rules = [u \in RuleIds |-> NoRow] /\ inboxes = [x \in InboxIds |-> NoRow]
    /\ vault = {} /\ left = {}
    /\ vjob = [j \in VaultJobs |-> NoVaultJob]

RowsOf(f)      == {k \in DOMAIN f : f[k] \notin {NoRow, GoneRow}}
Keys           == {ds[i].key : i \in RowsOf(ds)}
ConfigNamed(n) == {c \in RowsOf(cfg) : cfg[c].name = n}
PathsOf(C)     == {cfg[c].path : c \in C} \ {NoPath}

\* A secret is deleted when Vault answers; if not, nobody tries again.
_delete_vault_secret(P, ok) ==
    /\ vault' = IF ok THEN vault \ P ELSE vault
    /\ left' = IF ok THEN left \ P ELSE left \cup P

-----------------------------------------------------------------------------
(* The datasource routes but for the deletion. *)

\* Names are UNIQUE, connection keys are looked up first.
create_datasource(i, n, k, mode) ==
    /\ ds[i] = NoRow /\ k \notin Keys
    /\ \A o \in RowsOf(ds) : ds[o].name # n
    /\ ds' = [ds EXCEPT ![i] = [name |-> n, key |-> k, mode |-> mode]]
    /\ UNCHANGED <<cfg, rules, inboxes, vault, vjob, left>>

\* To data mode only when the configuration has credentials; to query mode they
\* are deleted.  The configuration follows a new connection key unless another
\* one has that name (the update of the datasource stays).
update_datasource(i, n, k, mode, ok) ==
    /\ i \in RowsOf(ds)
    /\ LET old    == ds[i]
           linked == ConfigNamed(old.key)
           drop   == mode = "query" /\ old.mode = "data" /\ PathsOf(linked) # {}
       IN  /\ old.mode = "query" /\ mode = "data" => PathsOf(linked) # {}
           /\ \A o \in RowsOf(ds) \ {i} : ds[o].name # n
           /\ k # old.key => k \notin Keys
           /\ ds' = [ds EXCEPT ![i] = [name |-> n, key |-> k, mode |-> mode]]
           /\ IF drop THEN _delete_vault_secret(PathsOf(linked), ok) ELSE UNCHANGED <<vault, left>>
           /\ cfg' = [c \in CfgIds |->
                        IF c \in linked
                        THEN [name |-> IF ConfigNamed(k) = {} THEN k ELSE old.key,
                              path |-> IF drop THEN NoPath ELSE cfg[c].path]
                        ELSE cfg[c]]
    /\ UNCHANGED <<rules, inboxes, vjob>>

-----------------------------------------------------------------------------
(* The configuration routes. *)

create_config(c, n) ==
    /\ cfg[c] = NoRow /\ (\A o \in CfgIds : o < c => cfg[o] # NoRow) /\ ConfigNamed(n) = {}
    /\ cfg' = [cfg EXCEPT ![c] = [name |-> n, path |-> NoPath]]
    /\ UNCHANGED <<ds, rules, inboxes, vault, vjob, left>>

\* The datasource that follows a new name is the one CALLED what the
\* configuration was called, not the one whose connection_key named it.
update_config(c, n) ==
    /\ c \in RowsOf(cfg) /\ ConfigNamed(n) = {}
    /\ cfg' = [cfg EXCEPT ![c].name = n]
    /\ ds' = [i \in DsIds |-> IF i \in RowsOf(ds) /\ ds[i].name = cfg[c].name
                              THEN [ds[i] EXCEPT !.key = n] ELSE ds[i]]
    /\ UNCHANGED <<rules, inboxes, vault, vjob, left>>

\* Mutant: the row goes, the secret stays.
DropConfigOnly(C, ok) ==
    /\ UNCHANGED <<vault, left>>
    /\ cfg' = [c \in CfgIds |-> IF c \in C THEN GoneRow ELSE cfg[c]]

\* The secret first, then the row.
DropConfig(C, ok) ==
    /\ _delete_vault_secret(PathsOf(C), ok)
    /\ cfg' = [c \in CfgIds |-> IF c \in C THEN GoneRow ELSE cfg[c]]

delete_config(c, ok) ==
    /\ c \in RowsOf(cfg)
    /\ DropConfig({c}, ok)
    /\ UNCHANGED <<ds, rules, inboxes, vjob>>

-----------------------------------------------------------------------------
(* DELETE /datasources/{id}: the configuration and its secret go before the *)
(* service is asked, which refuses while a validation rule uses it.         *)

BeginDeleteDatasource(j, i, ok) ==
    /\ vjob[j] = NoVaultJob /\ i \in RowsOf(ds)
    /\ DropConfig(ConfigNamed(ds[i].key), ok)
    /\ vjob' = [vjob EXCEPT ![j] = [op |-> "delete", pc |-> "count", on |-> i]]
    /\ UNCHANGED <<ds, rules, inboxes>>

RulesOn(i) == {u \in RuleIds : rules[u] = i}

\* A configuration of that name may have come back in the meantime.
CountRules(j, ok) ==
    /\ vjob[j].op = "delete" /\ vjob[j].pc = "count"
    /\ LET i == vjob[j].on
       IN IF i \in RowsOf(ds) /\ RulesOn(i) = {}
          THEN /\ _delete_vault_secret(PathsOf(ConfigNamed(ds[i].key)), ok)
               /\ vjob' = [vjob EXCEPT ![j].pc = "delete"]
          ELSE vjob' = [vjob EXCEPT ![j] = NoVaultJob] /\ UNCHANGED <<vault, left>>
    /\ UNCHANGED <<ds, cfg, rules, inboxes>>

\* Mutant: the rows of validation_rules do not hold their datasource.
DeleteRowOnly(i) == ds' = [ds EXCEPT ![i] = GoneRow]

\* The foreign key of validation_rules: a rule made since the count stops it.
DeleteRow(i) == ds' = IF RulesOn(i) = {} THEN [ds EXCEPT ![i] = GoneRow] ELSE ds

delete_datasource(j) ==
    /\ vjob[j].op = "delete" /\ vjob[j].pc = "delete"
    /\ DeleteRow(vjob[j].on)
    /\ vjob' = [vjob EXCEPT ![j] = NoVaultJob]
    /\ UNCHANGED <<cfg, rules, inboxes, vault, left>>

-----------------------------------------------------------------------------
(* modules/validation_rules: a rule names a datasource that exists. *)

create_validation_rule(u, i) ==
    /\ rules[u] = NoRow /\ i \in RowsOf(ds)
    /\ rules' = [rules EXCEPT ![u] = i]
    /\ UNCHANGED <<ds, cfg, inboxes, vault, vjob, left>>

update_validation_rule(u, i) ==
    /\ u \in RowsOf(rules) /\ i \in RowsOf(ds)
    /\ rules' = [rules EXCEPT ![u] = i]
    /\ UNCHANGED <<ds, cfg, inboxes, vault, vjob, left>>

delete_validation_rule(u) ==
    /\ u \in RowsOf(rules)
    /\ rules' = [rules EXCEPT ![u] = NoRow]
    /\ UNCHANGED <<ds, cfg, inboxes, vault, vjob, left>>

-----------------------------------------------------------------------------
(* The credential gateway. *)

\* The page was given the datasource's name and, by its connection key, its
\* configuration; the mode is looked up again.
BeginSave(j, i) ==
    /\ vjob[j] = NoVaultJob /\ i \in RowsOf(ds) /\ ds[i].mode # "query"
    /\ vjob' = [vjob EXCEPT ![j] = [op |-> "save", pc |-> "write", on |-> ds[i].name,
                                    cfg |-> ConfigNamed(ds[i].key)]]
    /\ UNCHANGED <<ds, cfg, rules, inboxes, vault, left>>

SaveToVault(j, ok) ==
    /\ vjob[j].op = "save" /\ vjob[j].pc = "write"
    /\ vault' = IF ok THEN vault \cup {vjob[j].on} ELSE vault
    /\ vjob' = [vjob EXCEPT ![j] = IF ok THEN [vjob[j] EXCEPT !.pc = "link"] ELSE NoVaultJob]
    /\ UNCHANGED <<ds, cfg, rules, inboxes, left>>

\* The configuration is told the path, if there is one still; another path it
\* had is forgotten.
save_credentials(j) ==
    /\ vjob[j].op = "save" /\ vjob[j].pc = "link"
    /\ LET C == vjob[j].cfg \cap RowsOf(cfg)
       IN  /\ cfg' = [c \in CfgIds |-> IF c \in C THEN [cfg[c] EXCEPT !.path = vjob[j].on] ELSE cfg[c]]
           /\ left' = left \cup ((IF C = {} THEN {vjob[j].on} ELSE PathsOf(C) \ {vjob[j].on}) \cap vault)
    /\ vjob' = [vjob EXCEPT ![j] = NoVaultJob]
    /\ UNCHANGED <<ds, rules, inboxes, vault>>

\* The path is the client's; the configuration keeps it.
delete_vault_credentials(p, ok) ==
    /\ p \in vault
    /\ vault' = IF ok THEN vault \ {p} ELSE vault
    /\ left' = IF ok THEN left \ {p} ELSE left
    /\ UNCHANGED <<ds, cfg, rules, inboxes, vjob>>

\* For query mode: the secret under the datasource's name, and the path of the
\* configuration that has this name.
metadata_confirmed(n, ok) ==
    LET C == {c \in ConfigNamed(n) : cfg[c].path # NoPath}
    IN  /\ vault' = IF ok THEN vault \ {n} ELSE vault
        /\ left' = (IF ok THEN left \ {n} ELSE left) \cup (PathsOf(C) \cap vault')
        /\ cfg' = [c \in CfgIds |-> IF c \in C THEN [cfg[c] EXCEPT !.path = NoPath] ELSE cfg[c]]
        /\ UNCHANGED <<ds, rules, inboxes, vjob>>

-----------------------------------------------------------------------------
(* modules/email_inboxes.  An inbox's secret is kept under the user name it  *)
(* was saved with.                                                           *)

create_inbox(x, m) ==
    /\ inboxes[x] = NoRow /\ \A o \in RowsOf(inboxes) : inboxes[o].mail # m
    /\ inboxes' = [inboxes EXCEPT ![x] = [mail |-> m, path |-> NoPath]]
    /\ UNCHANGED <<ds, cfg, rules, vault, vjob, left>>

update_inbox(x, m) ==
    /\ x \in RowsOf(inboxes) /\ \A o \in RowsOf(inboxes) : inboxes[o].mail # m
    /\ inboxes' = [inboxes EXCEPT ![x].mail = m]
    /\ UNCHANGED <<ds, cfg, rules, vault, vjob, left>>

\* Vault first, then the row, if it is there and the update succeeds.
save_email_inbox_credentials(x, m, ok) ==
    /\ inboxes[x] # NoRow
    /\ vault' = vault \cup {m}
    /\ LET here == ok /\ x \in RowsOf(inboxes)
       IN  /\ inboxes' = IF here THEN [inboxes EXCEPT ![x].path = m] ELSE inboxes
           /\ left' = left \cup (IF here THEN {inboxes[x].path} \cap (vault \ {m}) ELSE {m})
    /\ UNCHANGED <<ds, cfg, rules, vjob>>

\* The row first, then the secret.
delete_inbox(x, ok) ==
    /\ x \in RowsOf(inboxes)
    /\ _delete_vault_secret({inboxes[x].path} \ {NoPath}, ok)
    /\ inboxes' = [inboxes EXCEPT ![x] = GoneRow]
    /\ UNCHANGED <<ds, cfg, rules, vjob>>

InboxNext ==
    \E x \in InboxIds, m \in Mails, ok \in BOOLEAN :
        \/ create_inbox(x, m) \/ update_inbox(x, m) \/ delete_inbox(x, ok)
        \/ save_email_inbox_credentials(x, m, ok)

-----------------------------------------------------------------------------

DatasourceRoutes ==
    \E i \in DsIds, n \in DsNames, k \in DsNames, mode \in {"data", "query"} :
        \/ create_datasource(i, n, k, mode)
        \/ \E ok \in BOOLEAN : update_datasource(i, n, k, mode, ok)

ConfigRoutes ==
    \E c \in CfgIds, n \in DsNames, ok \in BOOLEAN :
        create_config(c, n) \/ update_config(c, n) \/ delete_config(c, ok)

RuleRoutes ==
    \E u \in RuleIds, i \in DsIds :
        create_validation_rule(u, i) \/ update_validation_rule(u, i) \/ delete_validation_rule(u)

GatewayRoutes ==
    \E n \in DsNames, ok \in BOOLEAN : delete_vault_credentials(n, ok) \/ metadata_confirmed(n, ok)

Deletions ==
    \E j \in DeleteJobs :
        \/ \E ok \in BOOLEAN : CountRules(j, ok) \/ \E i \in DsIds : BeginDeleteDatasource(j, i, ok)
        \/ delete_datasource(j)

Saves ==
    \E j \in SaveJobs :
        \/ \E i \in DsIds : BeginSave(j, i)
        \/ \E ok \in BOOLEAN : SaveToVault(j, ok)
        \/ save_credentials(j)

VaultNext ==
    \/ DatasourceRoutes \/ ConfigRoutes \/ RuleRoutes \/ GatewayRoutes
    \/ Deletions \/ Saves

-----------------------------------------------------------------------------
(* What the store promises. *)

\* Every secret in Vault is one a configuration or an inbox knows the path of,
\* one a request is just about to enter there, or one of those the code has
\* visibly given up on (Vault refused the deletion, the row to remember it was
\* gone, or a new path took the place of the old one).  Deleting a
\* configuration, a datasource or an inbox and leaving data mode leave no other
\* secret behind, whatever else runs at the same time.
SecretsAccounted ==
    vault \subseteq
        PathsOf(RowsOf(cfg)) \cup {inboxes[x].path : x \in RowsOf(inboxes)} \cup left
        \cup {vjob[j].on : j \in {k \in VaultJobs : vjob[k].pc = "link"}}

\* A validation rule always has its datasource: the deletion counts the rules
\* first and deletes later, and a rule made in between must stop it.
RuleKeepsDatasource == \A u \in RowsOf(rules) : rules[u] \in RowsOf(ds)

=============================================================================
