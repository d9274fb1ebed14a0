--------------------------- MODULE NodeConfigProofs ----------------------------
(***************************************************************************)
(* What restoreConfig and restoreOrganization promise, for every number of *)
(* handlers, plan, configuration, backup and starting database.            *)
(*                                                                         *)
(* Each property needs to know what a restore has behind it at each of its *)
(* labels, and that is only true as long as nothing else takes it away.    *)
(* NodeInv says both, in parts: where a handler can be (PlanInv), that the *)
(* collections can be counted (FiniteInv), what a restore that looks for a *)
(* living node has found (FoundInv), that an undisturbed restore is alone  *)
(* (AloneInv), what it has put back so far (FilledInv), and whose a        *)
(* restored account is (KeptInv).                                          *)
(***************************************************************************)
EXTENDS NodeConfig, TLAPS, FiniteSetTheorems

CreateOrganizationLabels ==
    {"co_account", "co_title", "co_owner", "co_counter", "co_insert"}
CreateAccountLabels == {"ca_address", "ca_email", "ca_creator", "ca_organization",
                        "ca_insert", "ca_detail"}
Halted == {"idle", "done", "failed", "dead"}

\* The labels of a handler that was asked op.
LabelsOf(op) ==
    CASE op = "getConfig" -> {"gc_organizations", "gc_keys", "gc_accounts", "gc_details"}
      [] op = "restoreConfig" -> Restoring
      [] op = "backupOrganization" -> {"bo_organization", "bo_key", "bo_members"}
      [] op = "restoreOrganization" ->
           Adding \cup {"ro_members", "ro_update"} \cup CreateAccountLabels
      [] op = "createAccount" -> CreateAccountLabels
      [] op = "createOrganization" -> CreateOrganizationLabels
      [] OTHER -> {}

\* A handler is at the labels of what it was asked; only restoreOrganization has
\* members to create; and a creation goes on to the end of its own route.
PlanInv ==
    /\ plan \in [Handlers -> NodeOps \cup Ops \cup {None}]
    /\ pc \in [Handlers -> Halted \cup AdminPC \cup CreateOrganizationLabels
                                  \cup CreateAccountLabels]
    /\ DOMAIN input = Handlers /\ DOMAIN call = Handlers
    /\ DOMAIN data = Handlers /\ DOMAIN members = Handlers
    /\ \A h \in Handlers :
         /\ pc[h] \in LabelsOf(plan[h]) \cup Halted
         /\ members[h] # None => plan[h] = "restoreOrganization"
         /\ pc[h] \in CreateOrganizationLabels => input[h].op = "createOrganization"
         /\ pc[h] \in CreateAccountLabels => input[h].op = "createAccount"

AccountFields(docs) ==
    \A a \in docs : {"id", "address", "organization"} \subseteq DOMAIN a

\* A configuration that can be put back, whole or torn.
ConfigOK(c) ==
    /\ DOMAIN c = DOMAIN NoConfig
    /\ IsFiniteSet(c.organizations) /\ IsFiniteSet(c.accounts)
    /\ AccountFields(c.accounts)

\* The collections, and the configurations in the hands of handlers, are finite.
FiniteInv ==
    /\ IsFiniteSet(organizations) /\ IsFiniteSet(accounts) /\ AccountFields(accounts)
    /\ \A h \in Handlers :
         plan[h] \in {"getConfig", "restoreConfig"} /\ pc[h] # "idle" => ConfigOK(data[h])

\* A backup that can be put back.
BackupOK(b) == /\ DOMAIN b = {"organization", "members"}
               /\ \A m \in b.members : m.address \in Address

\* The addresses of accounts, stored, saved or about to be created, are addresses: no
\* id that a handler gives can be mistaken for one that a restore gives.
AddressInv ==
    /\ \A a \in accounts : a.address \in Address
    /\ \A h \in Handlers :
         /\ plan[h] \in {"getConfig", "restoreConfig"} /\ pc[h] # "idle" =>
              \A a \in data[h].accounts : a.address \in Address
         /\ plan[h] = "restoreOrganization" /\ pc[h] # "idle" => BackupOK(data[h])
         /\ plan[h] = "backupOrganization" /\ pc[h] \notin {"idle", "failed", "dead"} =>
              BackupOK(data[h])
         /\ members[h] # None => \A m \in members[h] : m.address \in Address
         /\ pc[h] \in CreateAccountLabels => call[h].address \in Address

AtMostOne(S) == \A x, y \in S : x = y

\* What a restore found is what it counted: past a count, of the organizations or of
\* the accounts it found one at most is still there.
FoundInv ==
    /\ started \in [Handlers -> [accounts : SUBSET accounts,
                                 organizations : SUBSET organizations]]
    /\ \A h \in Handlers :
         /\ pc[h] \in {"rc_count_accounts", "rc_clear_organizations"} =>
              AtMostOne(started[h].organizations)
         /\ pc[h] \in {"rc_clear_organizations", "rc_clear_keys", "rc_clear_accounts"} =>
              AtMostOne(started[h].accounts)

\* Only a restoreConfig can take away what a restore relies on, and it disturbs it.
AloneInv ==
    /\ disturbed \subseteq Handlers
    /\ \A h \in Handlers \ disturbed :
         /\ plan[h] = "restoreConfig" /\ pc[h] \in Restoring \cup {"done"} =>
              \A g \in Handlers \ {h} : pc[g] \notin Restoring
         /\ pc[h] \in Adding => \A g \in Handlers : pc[g] \notin Restoring

\* What an undisturbed restore has done is done: at each label, what it has put back is
\* there, what it has cleared away is not; and no organization that had a key when
\* restoreOrganization was called has the id that it is about to write.
Filled(h) ==
    /\ pc[h] \in {"rc_clear_details", "rc_fill_accounts", "rc_fill_details",
                  "rc_fill_organizations", "rc_fill_keys"} => started[h].accounts = {}
    /\ pc[h] \in {"rc_fill_details", "rc_fill_organizations", "rc_fill_keys"} =>
         \A a \in data[h].accounts : AccountsOf(a.address) # {}
    /\ pc[h] \in {"rc_fill_organizations", "rc_fill_keys"} => data[h].details \subseteq details
    /\ pc[h] = "rc_fill_keys" => data[h].organizations \subseteq organizations
    /\ pc[h] = "ro_count" =>
         \A o \in started[h].organizations : o.organizationId \in organizationKeys
    /\ pc[h] \in {"ro_key", "ro_organization"} =>
         \A o \in started[h].organizations : o.organizationId # RestoredId(h)
FilledInv == \A h \in Handlers \ disturbed : Filled(h)

\* An account with the id that a restore gives has its organization from the
\* configuration; and once an undisturbed restore has filled in the organizations, each
\* id of theirs is taken, by one of them or by one put back.
Placed(h) ==
    \A o \in data[h].organizations :
      /\ OrganizationsWith(o.organizationId) # {}
      /\ \A p \in OrganizationsWith(o.organizationId) :
           p \in data[h].organizations \/ PutBack(p)
Kept(h) ==
    /\ \A a \in accounts : a.id = <<h, a.address>> =>
         /\ plan[h] = "restoreConfig" /\ pc[h] # "idle"
         /\ \E b \in data[h].accounts : b.organization = a.organization
    /\ h \notin disturbed /\ plan[h] = "restoreConfig" /\ pc[h] \in {"rc_fill_keys", "done"} =>
         Placed(h)
KeptInv == \A h \in Handlers : Kept(h)

NodeInv == PlanInv /\ FiniteInv /\ AddressInv /\ FoundInv /\ AloneInv /\ FilledInv /\ KeptInv
--------------------------------------------------------------------------------
\* Every step leaves a handler at the labels of what it was asked.
LEMMA PlanStep == PlanInv /\ [NodeNext]_nodeVars => PlanInv'
<1> SUFFICES ASSUME PlanInv, [NodeNext]_nodeVars PROVE PlanInv'
  OBVIOUS
<1> USE DEF PlanInv, LabelsOf, Halted, Restoring, Adding, AdminPC, NodeOps,
            CreateOrganizationLabels, CreateAccountLabels, Continue, db, local, node
<1>1. ASSUME NEW h \in Handlers, StartAsUser(h), input'[h].op = plan[h],
             UNCHANGED <<plan, data, members>>
      PROVE  PlanInv'
  <2>1. PICK i \in Inputs : \E p : Begin(h, i, p)
    BY <1>1 DEF StartAsUser
  <2>2. i.op \in {"createOrganization", "createAccount"} /\ input'[h] = i
    BY <2>1, NodeAssumption DEF Begin
  <2>3. /\ i.op = "createOrganization" => Entry(i.op) = "co_account"
        /\ i.op = "createAccount" => Entry(i.op) = "ca_address"
    BY <2>2 DEF Entry
  <2> QED
    BY <1>1, <2>1, <2>2, <2>3 DEF Begin
<1>2. ASSUME NEW h \in Handlers, CreateOrganizationStep(h), UNCHANGED <<plan, data, members>>
      PROVE  PlanInv'
  BY <1>2 DEF CreateOrganizationStep, CheckOwnerHasNoAccount, CheckTitleIsFree,
              CheckOwnerIsFree, GetNewOrganizationIdentifier, InsertOrganization,
              AfterOrganization, Check
<1>3. ASSUME NEW h \in Handlers, CreateAccountStep(h), UNCHANGED <<plan, data, members>>
      PROVE  PlanInv'
  BY <1>3 DEF CreateAccountStep, CheckAddressIsFree, CheckEmailIsFree, ReadCreator,
              CheckCreatorOrganization, InsertAccount, InsertDetail, AfterAccount, Check
<1>4. ASSUME NEW h \in Handlers, FailedAccess(h) PROVE PlanInv'
  BY <1>4 DEF FailedAccess, Abort
<1>5. ASSUME NEW h \in Handlers, GetConfig(h) PROVE PlanInv'
  BY <1>5 DEF GetConfig, StartGetConfig, StartAdmin, GetOrganizations, GetKeys, GetAccounts,
              GetDetails, Hold
<1>6. ASSUME NEW h \in Handlers, BackupOrganization(h) PROVE PlanInv'
  BY <1>6 DEF BackupOrganization, StartBackup, StartAdmin, BackupOrganizationDoc, BackupKey,
              BackupMembers, Hold, Check
<1>7. ASSUME NEW h \in Handlers, StartRestoreConfig(h) \/ StartRestoreOrganization(h)
      PROVE  PlanInv'
  BY <1>7 DEF StartRestoreConfig, StartRestoreOrganization, StartAdmin
<1>8. ASSUME NEW h \in Handlers,
             EnsureFewOrganizations(h) \/ EnsureFewAccounts(h) \/ RefuseExisting(h)
      PROVE  PlanInv'
  BY <1>8 DEF EnsureFewOrganizations, EnsureFewAccounts, RefuseExisting, Check
<1>9. ASSUME NEW h \in Handlers,
             \/ ClearOrganizations(h) \/ ClearKeys(h) \/ ClearAccounts(h) \/ ClearDetails(h)
             \/ UpsertKey(h)
      PROVE  PlanInv'
  BY <1>9 DEF ClearOrganizations, ClearKeys, ClearAccounts, ClearDetails, UpsertKey, Restore
<1>10. ASSUME NEW h \in Handlers,
              FillAccounts(h) \/ FillDetails(h) \/ FillOrganizations(h) \/ FillKeys(h)
       PROVE  PlanInv'
  BY <1>10 DEF FillAccounts, FillDetails, FillOrganizations, FillKeys, Bulk, Restore
<1>11. ASSUME NEW h \in Handlers, UpsertOrganization(h) \/ UpdateRestored(h) PROVE PlanInv'
  BY <1>11 DEF UpsertOrganization, UpdateRestored
<1>12. ASSUME NEW h \in Handlers, NextMember(h) \/ LastMember(h) PROVE PlanInv'
  BY <1>12 DEF NextMember, LastMember, Looping
<1>13. ASSUME NEW id \in keyInserts, StoreOrLoseKey(id) PROVE PlanInv'
  BY <1>13 DEF StoreOrLoseKey, StoreKey, LoseKey
<1>14. CASE CheckBuiltIn
  BY <1>14 DEF CheckBuiltIn, ProbeAccount, CreateBuiltIn, ProbeOrganization,
               InsertOrganization0, CheckFails, Boot
<1>15. CASE Start
  BY <1>15 DEF Start, vars
<1>16. CASE Crash
  BY <1>16 DEF Crash, Stopped
<1>17. CASE UNCHANGED nodeVars
  BY <1>17 DEF nodeVars, vars
<1> QED
  BY <1>1, <1>2, <1>3, <1>4, <1>5, <1>6, <1>7, <1>8, <1>9, <1>10, <1>11, <1>12, <1>13,
     <1>14, <1>15, <1>16, <1>17
     DEF NodeNext, OnboardingStep, RestoreConfig, RestoreOrganization
\* What a handler was asked, by its label.
LEMMA Asked ==
    ASSUME PlanInv, NEW h \in Handlers
    PROVE  /\ pc[h] \in {"gc_organizations", "gc_keys", "gc_accounts", "gc_details"} =>
                plan[h] = "getConfig"
           /\ pc[h] \in Restoring => plan[h] = "restoreConfig"
           /\ pc[h] \in {"bo_organization", "bo_key", "bo_members"} =>
                plan[h] = "backupOrganization"
           /\ pc[h] \in Adding \cup {"ro_members", "ro_update"} =>
                plan[h] = "restoreOrganization"
           /\ pc[h] \in CreateAccountLabels =>
                plan[h] \in {"createAccount", "restoreOrganization"}
           /\ pc[h] \in CreateOrganizationLabels => plan[h] = "createOrganization"
  BY DEF PlanInv, LabelsOf, Halted, Restoring, Adding, CreateAccountLabels,
         CreateOrganizationLabels

\* A handler's labels are functions of the handlers.
LEMMA Local ==
    ASSUME PlanInv
    PROVE  /\ DOMAIN pc = Handlers /\ DOMAIN input = Handlers /\ DOMAIN call = Handlers
           /\ DOMAIN data = Handlers /\ DOMAIN members = Handlers /\ DOMAIN plan = Handlers
           /\ \A h \in Handlers :
                /\ members[h] # None => plan[h] = "restoreOrganization"
                /\ pc[h] \in CreateOrganizationLabels => input[h].op = "createOrganization"
                /\ pc[h] \in CreateAccountLabels => input[h].op = "createAccount"
  BY DEF PlanInv

--------------------------------------------------------------------------------
\* The documents put back are as many as those saved, at most, with the same fields.
LEMMA RenewedFinite ==
    ASSUME NEW h, NEW docs, IsFiniteSet(docs), AccountFields(docs)
    PROVE  IsFiniteSet(Renewed(h, docs)) /\ AccountFields(Renewed(h, docs))
<1> DEFINE f == [a \in docs |-> [a EXCEPT !.id = <<h, a.address>>]]
<1>1. f \in Surjection(docs, Renewed(h, docs))
  BY DEF Surjection, Renewed
<1>2. AccountFields(Renewed(h, docs))
  BY DEF AccountFields, Renewed
<1> QED
  BY <1>1, <1>2, FS_Surjection

\* What insertMany leaves is what was there and some of what was given.
LEMMA BulkBounds ==
    ASSUME NEW h \in Handlers, NEW at, NEW next, NEW old, NEW new, NEW refused, NEW result,
           Bulk(h, at, next, old, new, refused, result)
    PROVE  old \subseteq result /\ result \subseteq old \cup new
  BY DEF Bulk

\* Every step leaves finite collections, and a configuration that can be put back in
\* the hands of whoever takes one.
LEMMA FiniteStep == PlanInv /\ FiniteInv /\ [NodeNext]_nodeVars => FiniteInv'
<1> SUFFICES ASSUME PlanInv, FiniteInv, [NodeNext]_nodeVars PROVE FiniteInv'
  OBVIOUS
<1> DEFINE Collections == IsFiniteSet(organizations') /\ IsFiniteSet(accounts')
                          /\ AccountFields(accounts')
           Holds == \A h \in Handlers :
                      plan'[h] \in {"getConfig", "restoreConfig"} /\ pc'[h] # "idle" =>
                        ConfigOK(data'[h])
<1>1. PlanInv'
  BY PlanStep
<1>2. ASSUME UNCHANGED <<plan, data>>, \A h \in Handlers : pc[h] = "idle" => \/ pc'[h] = "idle"
                                      \/ plan[h] \notin {"getConfig", "restoreConfig"}
      PROVE  Holds
  BY <1>2 DEF FiniteInv
<1>3. ASSUME UNCHANGED <<accounts, organizations>> PROVE Collections
  BY <1>3 DEF FiniteInv
<1>4. ASSUME NEW S, NEW x, IsFiniteSet(S) PROVE IsFiniteSet(S \cup {x})
  BY <1>4, FS_AddElement
<1>5. ASSUME NEW h \in Handlers, StartAsUser(h), input'[h].op = plan[h],
             UNCHANGED <<plan, data>>
      PROVE  Collections /\ Holds
  <2>1. PICK i \in Inputs : \E p : Begin(h, i, p)
    BY <1>5 DEF StartAsUser
  <2>2. i.op \in {"createOrganization", "createAccount"} /\ input'[h] = i
    BY <2>1, NodeAssumption DEF Begin, PlanInv
  <2> HIDE DEF Collections, Holds
  <2> QED
    BY <1>2, <1>3, <1>5, <2>1, <2>2 DEF Begin, Continue, PlanInv, db
<1>6. ASSUME NEW h \in Handlers, CreateOrganizationStep(h), UNCHANGED <<plan, data>>
      PROVE  Collections /\ Holds
  <2>1. Holds
    BY <1>2, <1>6 DEF CreateOrganizationStep, CheckOwnerHasNoAccount, CheckTitleIsFree,
              CheckOwnerIsFree, GetNewOrganizationIdentifier, InsertOrganization, Check,
              Continue, PlanInv
  <2>2. accounts' = accounts /\ \E o : organizations' \in {organizations, organizations \cup {o}}
    BY <1>6 DEF CreateOrganizationStep, CheckOwnerHasNoAccount, CheckTitleIsFree,
              CheckOwnerIsFree, GetNewOrganizationIdentifier, InsertOrganization, Check, db
  <2> QED
    BY <1>4, <2>1, <2>2 DEF FiniteInv
<1>7. ASSUME NEW h \in Handlers, CreateAccountStep(h), UNCHANGED <<plan, data>>
      PROVE  Collections /\ Holds
  <2>1. Holds
    BY <1>2, <1>7 DEF CreateAccountStep, CheckAddressIsFree, CheckEmailIsFree, ReadCreator,
              CheckCreatorOrganization, InsertAccount, InsertDetail, Check, Continue, PlanInv
  <2>2. /\ organizations' = organizations
        /\ accounts' \in {accounts, accounts \cup {NewAccount(h, call[h])}}
    BY <1>7 DEF CreateAccountStep, CheckAddressIsFree, CheckEmailIsFree, ReadCreator,
              CheckCreatorOrganization, InsertAccount, InsertDetail, Check, db
  <2>3. AccountFields({NewAccount(h, call[h])})
    BY DEF AccountFields, NewAccount
  <2> QED
    BY <1>4, <2>1, <2>2, <2>3 DEF FiniteInv, AccountFields
<1>8. ASSUME NEW h \in Handlers, GetConfig(h) PROVE Collections /\ Holds
  <2>1. UNCHANGED <<accounts, organizations, plan>>
    BY <1>8 DEF GetConfig, StartGetConfig, StartAdmin, GetOrganizations, GetKeys, GetAccounts,
              GetDetails, Hold, db
  <2>2. ConfigOK(data'[h])
    <3>1. CASE StartGetConfig(h)
      BY <3>1, FS_EmptySet DEF StartGetConfig, StartAdmin, NoConfig, ConfigOK, AccountFields,
                               PlanInv
    <3>2. CASE GetOrganizations(h) \/ GetKeys(h) \/ GetAccounts(h) \/ GetDetails(h)
      <4>1. pc[h] \in {"gc_organizations", "gc_keys", "gc_accounts", "gc_details"}
        BY <3>2 DEF GetOrganizations, GetKeys, GetAccounts, GetDetails, Hold
      <4>2. plan[h] = "getConfig"
        BY <4>1 DEF PlanInv, LabelsOf, Halted, Restoring, Adding, CreateAccountLabels,
                    CreateOrganizationLabels
      <4>3. ConfigOK(data[h])
        BY <4>1, <4>2 DEF FiniteInv
      <4>4. \/ data'[h] = [data[h] EXCEPT !.organizations = organizations]
            \/ data'[h] = [data[h] EXCEPT !.keys = organizationKeys]
            \/ data'[h] = [data[h] EXCEPT !.accounts = accounts]
            \/ data'[h] = [data[h] EXCEPT !.details = details]
        BY <3>2 DEF GetOrganizations, GetKeys, GetAccounts, GetDetails, Hold, PlanInv
      <4> QED
        BY <4>3, <4>4 DEF ConfigOK, NoConfig, FiniteInv
    <3> QED
      BY <1>8, <3>1, <3>2 DEF GetConfig
  <2>3. \A g \in Handlers \ {h} : pc'[g] = pc[g] /\ data'[g] = data[g]
    BY <1>8 DEF GetConfig, StartGetConfig, StartAdmin, GetOrganizations, GetKeys, GetAccounts,
              GetDetails, Hold, Continue, PlanInv
  <2> QED
    BY <2>1, <2>2, <2>3 DEF FiniteInv
<1>9. ASSUME NEW h \in Handlers, BackupOrganization(h) PROVE Collections /\ Holds
  <2>1. UNCHANGED <<accounts, organizations, plan>>
    BY <1>9 DEF BackupOrganization, StartBackup, StartAdmin, BackupOrganizationDoc, BackupKey,
              BackupMembers, Hold, Check, db, node
  <2>2. plan[h] \notin {"getConfig", "restoreConfig"}
    BY <1>9 DEF BackupOrganization, StartBackup, StartAdmin, BackupOrganizationDoc, BackupKey,
              BackupMembers, Hold, Check, PlanInv, LabelsOf, Halted, Restoring
  <2>3. \A g \in Handlers \ {h} : pc'[g] = pc[g] /\ data'[g] = data[g]
    BY <1>9 DEF BackupOrganization, StartBackup, StartAdmin, BackupOrganizationDoc, BackupKey,
              BackupMembers, Hold, Check, Continue, PlanInv, node
  <2> QED
    BY <2>1, <2>2, <2>3 DEF FiniteInv
<1>10. ASSUME NEW h \in Handlers, StartRestoreConfig(h) PROVE Collections /\ Holds
  <2>1. PICK c \in Configs : StartAdmin(h, "restoreConfig", "rc_count_organizations", c)
    BY <1>10 DEF StartRestoreConfig
  <2>2. ConfigOK(c)
    <3>1. CASE c \in SavedConfigs
      BY <3>1, NodeAssumption DEF ConfigOK, AccountFields, NoConfig
    <3>2. CASE \E g \in Handlers : c = data[g] /\ pc[g] = "done" /\ plan[g] = "getConfig"
      BY <3>2 DEF FiniteInv
    <3> QED
      BY <3>1, <3>2 DEF Configs
  <2> QED
    BY <2>1, <2>2 DEF StartAdmin, Continue, PlanInv, FiniteInv, db
<1>11. ASSUME NEW h \in Handlers, StartRestoreOrganization(h) PROVE Collections /\ Holds
  <2>1. PICK b : StartAdmin(h, "restoreOrganization", "ro_count", b)
    BY <1>11 DEF StartRestoreOrganization
  <2> QED
    BY <2>1 DEF StartAdmin, Continue, PlanInv, FiniteInv, db
<1>12. ASSUME NEW h \in Handlers,
              \/ EnsureFewOrganizations(h) \/ EnsureFewAccounts(h) \/ RefuseExisting(h)
              \/ ClearKeys(h) \/ ClearDetails(h) \/ UpsertKey(h) \/ FailedAccess(h)
              \/ NextMember(h) \/ LastMember(h)
       PROVE  Collections /\ Holds
  <2> HIDE DEF Collections, Holds
  <2> QED
    BY <1>2, <1>3, <1>12 DEF EnsureFewOrganizations, EnsureFewAccounts, RefuseExisting, Check,
              ClearKeys, ClearDetails, UpsertKey, Restore, FailedAccess, Abort, NextMember,
              LastMember, Looping, Continue, PlanInv, Stopped, db, node
<1>13. ASSUME NEW h \in Handlers, ClearOrganizations(h) \/ ClearAccounts(h)
       PROVE  Collections /\ Holds
  <2>1. Holds
    BY <1>2, <1>13 DEF ClearOrganizations, ClearAccounts, Restore, Continue, PlanInv
  <2>2. Collections
    BY <1>13, FS_EmptySet DEF ClearOrganizations, ClearAccounts, AccountFields, FiniteInv
  <2> QED
    BY <2>1, <2>2
<1>14. ASSUME NEW h \in Handlers,
              FillAccounts(h) \/ FillDetails(h) \/ FillOrganizations(h) \/ FillKeys(h)
       PROVE  Collections /\ Holds
  <2>1. pc[h] \in Restoring /\ UNCHANGED <<plan, data>>
        /\ \A g \in Handlers \ {h} : pc'[g] = pc[g]
    BY <1>14 DEF FillAccounts, FillDetails, FillOrganizations, FillKeys, Bulk, Restore,
                 Restoring, Continue, PlanInv
  <2>2. plan[h] = "restoreConfig" /\ pc[h] # "idle"
    BY <2>1 DEF PlanInv, LabelsOf, Halted, Restoring, Adding, CreateAccountLabels,
                CreateOrganizationLabels
  <2>3. Holds
    BY <1>2, <2>1, <2>2
  <2>4. ConfigOK(data[h])
    BY <2>2 DEF FiniteInv
  <2>5. /\ accounts' \subseteq accounts \cup Renewed(h, data[h].accounts)
        /\ organizations' \subseteq organizations \cup data[h].organizations
    BY <1>14, BulkBounds DEF FillAccounts, FillDetails, FillOrganizations, FillKeys
  <2>6. /\ IsFiniteSet(accounts \cup Renewed(h, data[h].accounts))
        /\ IsFiniteSet(organizations \cup data[h].organizations)
        /\ AccountFields(Renewed(h, data[h].accounts))
    BY <2>4, RenewedFinite, FS_Union DEF ConfigOK, FiniteInv
  <2> QED
    BY <2>3, <2>5, <2>6, FS_Subset DEF FiniteInv, AccountFields
<1>15. ASSUME NEW h \in Handlers, UpsertOrganization(h) \/ UpdateRestored(h)
       PROVE  Collections /\ Holds
  <2>1. Holds
    BY <1>2, <1>15 DEF UpsertOrganization, UpdateRestored, Continue, PlanInv
  <2>2. /\ accounts' = accounts
        /\ organizations' \subseteq organizations \cup {data[h].organization}
    BY <1>15 DEF UpsertOrganization, UpdateRestored
  <2> QED
    BY <1>4, <2>1, <2>2, FS_Subset DEF FiniteInv
<1>16. ASSUME NEW id \in keyInserts, StoreOrLoseKey(id) PROVE Collections /\ Holds
  <2> HIDE DEF Collections, Holds
  <2> QED
    BY <1>2, <1>3, <1>16 DEF StoreOrLoseKey, StoreKey, LoseKey, node
<1>17. ASSUME CheckBuiltIn PROVE Collections /\ Holds
  <2>1. Holds
    BY <1>2, <1>17 DEF CheckBuiltIn, ProbeAccount, CreateBuiltIn, ProbeOrganization,
              InsertOrganization0, CheckFails, Boot
  <2>2. /\ accounts' = accounts \/ accounts' = accounts \cup {BuiltInDoc}
        /\ organizations' = organizations \/ organizations' = organizations \cup {Organization0}
    BY <1>17 DEF CheckBuiltIn, ProbeAccount, CreateBuiltIn, ProbeOrganization,
              InsertOrganization0, CheckFails, Boot, db
  <2>3. AccountFields({BuiltInDoc})
    BY DEF AccountFields, BuiltInDoc
  <2>4. AccountFields(accounts')
    BY <2>2, <2>3 DEF FiniteInv, AccountFields
  <2>5. IsFiniteSet(accounts \cup {BuiltInDoc}) /\ IsFiniteSet(organizations \cup {Organization0})
    BY <1>4 DEF FiniteInv
  <2> QED
    BY <2>1, <2>2, <2>4, <2>5 DEF FiniteInv
<1>18. ASSUME Start \/ Crash \/ UNCHANGED nodeVars PROVE Collections /\ Holds
  <2> HIDE DEF Collections, Holds
  <2> QED
    BY <1>2, <1>3, <1>18 DEF Start, Crash, nodeVars, vars, db, node, Stopped, Looping, PlanInv
<1> HIDE DEF Collections, Holds
<1>19. Collections /\ Holds
  BY <1>5, <1>6, <1>7, <1>8, <1>9, <1>10, <1>11, <1>12, <1>13, <1>14, <1>15, <1>16, <1>17, <1>18
     DEF NodeNext, OnboardingStep, RestoreConfig, RestoreOrganization
<1> QED
  BY <1>19 DEF FiniteInv, Collections, Holds
--------------------------------------------------------------------------------
\* Every step leaves addresses where addresses belong.
LEMMA AddressStep == PlanInv /\ FiniteInv /\ AddressInv /\ [NodeNext]_nodeVars => AddressInv'
<1> SUFFICES ASSUME PlanInv, FiniteInv, AddressInv, [NodeNext]_nodeVars PROVE AddressInv'
  OBVIOUS
<1> USE Asked, Local DEF AddressInv, CreateOrganizationLabels, CreateAccountLabels,
                         Restoring, Adding, Continue, db, local, node
<1>1. ASSUME NEW h \in Handlers, StartAsUser(h), input'[h].op = plan[h],
             UNCHANGED <<plan, data, members>>
      PROVE  AddressInv'
  <2>1. PICK i \in Inputs : \E p : Begin(h, i, p)
    BY <1>1 DEF StartAsUser
  <2>2. PICK p : Begin(h, i, p)
    BY <2>1
  <2>3. i.address \in Address
    BY InputsAssumption DEF InputDoc
  <2>4. CallFor(i, p).address \in Address
    BY <2>3 DEF CallFor
  <2>5. \A g \in Handlers : call'[g] = call[g] \/ call'[g] = CallFor(i, p)
    BY <2>2 DEF Begin
  <2>6. plan[h] \in {"createOrganization", "createAccount"}
    BY <1>1, <2>2, NodeAssumption DEF Begin
  <2>7. \A g \in Handlers \ {h} : pc'[g] = pc[g] /\ call'[g] = call[g]
    BY <2>2 DEF Begin
  <2>8. call'[h] = call[h] \/ call'[h] = CallFor(i, p)
    BY <2>2 DEF Begin
  <2> QED
    BY <1>1, <2>2, <2>4, <2>6, <2>7, <2>8 DEF Begin
<1>2. ASSUME NEW h \in Handlers, CreateOrganizationStep(h), UNCHANGED <<plan, data, members>>
      PROVE  AddressInv'
  BY <1>2 DEF CreateOrganizationStep, CheckOwnerHasNoAccount, CheckTitleIsFree,
              CheckOwnerIsFree, GetNewOrganizationIdentifier, InsertOrganization,
              AfterOrganization, Check
<1>3. ASSUME NEW h \in Handlers, CreateAccountStep(h), UNCHANGED <<plan, data, members>>
      PROVE  AddressInv'
  BY <1>3 DEF CreateAccountStep, CheckAddressIsFree, CheckEmailIsFree, ReadCreator,
              CheckCreatorOrganization, InsertAccount, NewAccount, InsertDetail,
              AfterAccount, Check
<1>4. ASSUME NEW h \in Handlers, FailedAccess(h) PROVE AddressInv'
  BY <1>4 DEF FailedAccess, Abort, Stopped, BackupOK
<1>5. ASSUME NEW h \in Handlers, GetConfig(h) PROVE AddressInv'
  <2>1. CASE StartGetConfig(h)
    BY <2>1 DEF StartGetConfig, StartAdmin, NoConfig
  <2>2. CASE GetOrganizations(h)
    BY <2>2 DEF GetOrganizations, Hold, NoConfig, FiniteInv, ConfigOK
  <2>3. CASE GetKeys(h)
    BY <2>3 DEF GetKeys, Hold, NoConfig, FiniteInv, ConfigOK
  <2>4. CASE GetAccounts(h)
    BY <2>4 DEF GetAccounts, Hold, NoConfig, FiniteInv, ConfigOK
  <2>5. CASE GetDetails(h)
    BY <2>5 DEF GetDetails, Hold, NoConfig, FiniteInv, ConfigOK
  <2> QED
    BY <1>5, <2>1, <2>2, <2>3, <2>4, <2>5 DEF GetConfig
<1>6. ASSUME NEW h \in Handlers, BackupOrganization(h) PROVE AddressInv'
  <2>1. CASE StartBackup(h)
    BY <2>1 DEF StartBackup, StartAdmin, BackupOK
  <2>2. CASE BackupOrganizationDoc(h)
    BY <2>2 DEF BackupOrganizationDoc, Hold, BackupOK
  <2>3. CASE BackupKey(h)
    BY <2>3 DEF BackupKey, Check
  <2>4. CASE BackupMembers(h)
    BY <2>4 DEF BackupMembers, Hold, MemberCall, BackupOK
  <2> QED
    BY <1>6, <2>1, <2>2, <2>3, <2>4 DEF BackupOrganization
<1>7. ASSUME NEW h \in Handlers, StartRestoreConfig(h) PROVE AddressInv'
  <2>1. PICK c \in Configs : StartAdmin(h, "restoreConfig", "rc_count_organizations", c)
    BY <1>7 DEF StartRestoreConfig
  <2>2. \A a \in c.accounts : a.address \in Address
    BY NodeAssumption DEF Configs
  <2> QED
    BY <2>1, <2>2 DEF StartAdmin
<1>8. ASSUME NEW h \in Handlers, StartRestoreOrganization(h) PROVE AddressInv'
  <2>1. PICK b \in Backups : StartAdmin(h, "restoreOrganization", "ro_count", b)
    BY <1>8 DEF StartRestoreOrganization
  <2>2. BackupOK(b)
    <3>1. CASE b \in SavedBackups
      BY <3>1, NodeAssumption DEF BackupOK
    <3>2. CASE \E g \in Handlers : b = data[g] /\ pc[g] = "done" /\ plan[g] = "backupOrganization"
      BY <3>2
    <3> QED
      BY <3>1, <3>2 DEF Backups
  <2>3. /\ data' = [data EXCEPT ![h] = b] /\ pc' = [pc EXCEPT ![h] = "ro_count"]
        /\ plan[h] = "restoreOrganization" /\ UNCHANGED <<accounts, plan, members, call>>
    BY <2>1 DEF StartAdmin
  <2> QED
    BY <2>2, <2>3 DEF BackupOK
<1>9. ASSUME NEW h \in Handlers,
             EnsureFewOrganizations(h) \/ EnsureFewAccounts(h) \/ RefuseExisting(h)
      PROVE  AddressInv'
  BY <1>9 DEF EnsureFewOrganizations, EnsureFewAccounts, RefuseExisting, Check
<1>10. ASSUME NEW h \in Handlers,
              \/ ClearOrganizations(h) \/ ClearKeys(h) \/ ClearAccounts(h) \/ ClearDetails(h)
              \/ UpsertKey(h)
       PROVE  AddressInv'
  BY <1>10 DEF ClearOrganizations, ClearKeys, ClearAccounts, ClearDetails, UpsertKey, Restore
<1>11. ASSUME NEW h \in Handlers, FillAccounts(h) PROVE AddressInv'
  <2>1. accounts' \subseteq accounts \cup Renewed(h, data[h].accounts)
    BY <1>11, BulkBounds DEF FillAccounts
  <2>2. plan[h] = "restoreConfig" /\ pc[h] # "idle"
    BY <1>11 DEF FillAccounts, Bulk
  <2>3. \A a \in data[h].accounts : "address" \in DOMAIN a /\ a.address \in Address
    BY <2>2 DEF FiniteInv, ConfigOK, AccountFields
  <2>4. \A a \in Renewed(h, data[h].accounts) : a.address \in Address
    BY <2>3 DEF Renewed
  <2> QED
    BY <1>11, <2>1, <2>4 DEF FillAccounts, Bulk, Restore
<1>12. ASSUME NEW h \in Handlers, FillDetails(h) \/ FillOrganizations(h) \/ FillKeys(h)
       PROVE  AddressInv'
  <2>1. CASE FillDetails(h)
    BY <2>1 DEF FillDetails, Bulk, Restore
  <2>2. CASE FillOrganizations(h)
    BY <2>2 DEF FillOrganizations, Bulk, Restore
  <2>3. CASE FillKeys(h)
    BY <2>3 DEF FillKeys, Bulk, Restore
  <2> QED
    BY <1>12, <2>1, <2>2, <2>3
<1>13. ASSUME NEW h \in Handlers, UpsertOrganization(h) PROVE AddressInv'
  <2>1. plan[h] = "restoreOrganization" /\ pc[h] # "idle"
    BY <1>13 DEF UpsertOrganization
  <2>2. \A m \in data[h].members : m.address \in Address
    BY <2>1 DEF BackupOK
  <2>3. members'[h] = members[h] \/ members'[h] = data[h].members
    BY <1>13 DEF UpsertOrganization
  <2>4. members'[h] # None => \A m \in members'[h] : m.address \in Address
    BY <2>2, <2>3
  <2>5. UNCHANGED <<plan, data, accounts, call>> /\ pc'[h] \in {"ro_members", "failed"}
    BY <1>13 DEF UpsertOrganization
  <2>6. \A g \in Handlers \ {h} : pc'[g] = pc[g] /\ members'[g] = members[g]
    BY <1>13 DEF UpsertOrganization
  <2> QED
    BY <2>1, <2>4, <2>5, <2>6 DEF BackupOK
<1>14. ASSUME NEW h \in Handlers, UpdateRestored(h) PROVE AddressInv'
  BY <1>14 DEF UpdateRestored
<1>15. ASSUME NEW h \in Handlers, NextMember(h) PROVE AddressInv'
  <2>1. PICK m \in members[h] : /\ members' = [members EXCEPT ![h] = @ \ {m}]
                                /\ call' = [call EXCEPT ![h] = m]
    BY <1>15 DEF NextMember
  <2>2. m.address \in Address
    BY <1>15 DEF NextMember, Looping
  <2> QED
    BY <1>15, <2>1, <2>2 DEF NextMember, Looping
<1>16. ASSUME NEW h \in Handlers, LastMember(h) PROVE AddressInv'
  BY <1>16 DEF LastMember, Looping
<1>17. ASSUME NEW id \in keyInserts, StoreOrLoseKey(id) PROVE AddressInv'
  BY <1>17 DEF StoreOrLoseKey, StoreKey, LoseKey
<1>18. CASE CheckBuiltIn
  BY <1>18, NodeAssumption
     DEF CheckBuiltIn, ProbeAccount, CreateBuiltIn, BuiltInDoc, ProbeOrganization,
         InsertOrganization0, CheckFails, Boot
<1>19. CASE Start
  BY <1>19 DEF Start, vars
<1>20. CASE Crash
  BY <1>20 DEF Crash, Stopped, Looping
<1>21. CASE UNCHANGED nodeVars
  BY <1>21 DEF nodeVars, vars
<1> QED
  BY <1>1, <1>2, <1>3, <1>4, <1>5, <1>6, <1>7, <1>8, <1>9, <1>10, <1>11, <1>12, <1>13,
     <1>14, <1>15, <1>16, <1>17, <1>18, <1>19, <1>20, <1>21
     DEF NodeNext, OnboardingStep, RestoreConfig, RestoreOrganization
--------------------------------------------------------------------------------
\* What every step but those of a restore leaves of a restore: no handler comes to a
\* label of one, nothing is taken away, and nothing that comes takes an id in use, of an
\* organization or of a restored account.
Calm ==
    /\ UNCHANGED <<plan, started>>
    /\ disturbed \subseteq disturbed' /\ disturbed' \subseteq Handlers
    /\ \A h \in Handlers :
         /\ pc'[h] # pc[h] => /\ pc'[h] \notin Restoring \cup Adding \cup {"idle"}
                              /\ plan[h] = "restoreConfig" => pc'[h] # "done"
         /\ plan[h] \in {"restoreConfig", "restoreOrganization"} => data'[h] = data[h]
    /\ accounts \subseteq accounts' /\ details \subseteq details'
    /\ organizations \subseteq organizations' /\ organizationKeys \subseteq organizationKeys'
    /\ \A a \in accounts' \ accounts, h \in Handlers : a.id # <<h, a.address>>
    /\ \A o \in organizations' \ organizations, p \in organizations :
         o.organizationId # p.organizationId

\* The steps of a restore.
RestoreStep(h) ==
    \/ StartRestoreConfig(h) \/ EnsureFewOrganizations(h) \/ EnsureFewAccounts(h)
    \/ ClearOrganizations(h) \/ ClearKeys(h) \/ ClearAccounts(h) \/ ClearDetails(h)
    \/ FillAccounts(h) \/ FillDetails(h) \/ FillOrganizations(h) \/ FillKeys(h)
    \/ StartRestoreOrganization(h) \/ RefuseExisting(h)
    \/ UpsertKey(h) \/ UpsertOrganization(h) \/ UpdateRestored(h)

\* The server's starts are counted.
LEMMA BootsStep == boots \in Nat /\ [NodeNext]_nodeVars => boots' \in Nat
<1> SUFFICES ASSUME boots \in Nat, [NodeNext]_nodeVars PROVE boots' \in Nat
  OBVIOUS
<1> USE DEF node
<1>1. ASSUME NEW h \in Handlers,
             OnboardingStep(h) \/ FailedAccess(h) \/ GetConfig(h) \/ BackupOrganization(h)
      PROVE  boots' = boots
  BY <1>1 DEF OnboardingStep, FailedAccess, GetConfig, StartGetConfig, StartAdmin,
              GetOrganizations, GetKeys, GetAccounts, GetDetails, Hold, BackupOrganization,
              StartBackup, BackupOrganizationDoc, BackupKey, BackupMembers
<1>2. ASSUME NEW h \in Handlers, RestoreConfig(h) PROVE boots' = boots
  BY <1>2 DEF RestoreConfig, StartRestoreConfig, StartAdmin, EnsureFewOrganizations,
              EnsureFewAccounts, ClearOrganizations, ClearKeys, ClearAccounts, ClearDetails,
              FillAccounts, FillDetails, FillOrganizations, FillKeys, Bulk, Restore
<1>3. ASSUME NEW h \in Handlers, RestoreOrganization(h) PROVE boots' = boots
  BY <1>3 DEF RestoreOrganization, StartRestoreOrganization, StartAdmin, RefuseExisting,
              UpsertKey, Restore, UpsertOrganization, NextMember, LastMember, UpdateRestored
<1>4. ASSUME NEW id \in keyInserts, StoreOrLoseKey(id) PROVE boots' = boots
  BY <1>4 DEF StoreOrLoseKey
<1>5. CASE CheckBuiltIn
  BY <1>5 DEF CheckBuiltIn, ProbeAccount, CreateBuiltIn, ProbeOrganization,
              InsertOrganization0, CheckFails, Boot
<1>6. CASE Start \/ Crash \/ UNCHANGED nodeVars
  BY <1>6 DEF Start, Crash, nodeVars
<1> QED
  BY <1>1, <1>2, <1>3, <1>4, <1>5, <1>6 DEF NodeNext

\* A step is one of a restore, or calm.
LEMMA CalmStep ==
    ASSUME PlanInv, AddressInv, boots \in Nat, disturbed \subseteq Handlers,
           [NodeNext]_nodeVars
    PROVE  (\E h \in Handlers : RestoreStep(h)) \/ Calm
<1> USE Asked, Local DEF Calm, CreateOrganizationLabels, CreateAccountLabels,
                         Restoring, Adding, Continue, db, node
<1>1. ASSUME NEW h \in Handlers, StartAsUser(h), input'[h].op = plan[h],
             UNCHANGED <<plan, data, members, started>>,
             IF pc[h] = "co_insert" THEN Disturb ELSE UNCHANGED disturbed
      PROVE  Calm
  <2>1. PICK i \in Inputs : \E p : Begin(h, i, p)
    BY <1>1 DEF StartAsUser
  <2>2. i.op \in {"createOrganization", "createAccount"}
    BY <2>1, NodeAssumption DEF Begin
  <2>3. Entry(i.op) \in {"co_account", "ca_address"}
    BY <2>2 DEF Entry
  <2> QED
    BY <1>1, <2>1, <2>3 DEF Begin, StartAsUser
<1>2. ASSUME NEW h \in Handlers, CreateOrganizationStep(h), UNCHANGED <<plan, data, started>>,
             IF pc[h] = "co_insert" THEN Disturb ELSE UNCHANGED disturbed
      PROVE  Calm
  <2>1. plan[h] = "createOrganization" /\ input[h].op = "createOrganization"
    BY <1>2 DEF CreateOrganizationStep, CheckOwnerHasNoAccount, CheckTitleIsFree,
                CheckOwnerIsFree, GetNewOrganizationIdentifier, InsertOrganization, Check
  <2>2. CASE InsertOrganization(h)
    BY <1>2, <2>1, <2>2 DEF InsertOrganization, AfterOrganization, Disturb
  <2>3. CASE ~InsertOrganization(h)
    BY <1>2, <2>1, <2>3
       DEF CreateOrganizationStep, CheckOwnerHasNoAccount, CheckTitleIsFree,
           CheckOwnerIsFree, GetNewOrganizationIdentifier, Check
  <2> QED
    BY <2>2, <2>3
<1>3. ASSUME NEW h \in Handlers, CreateAccountStep(h), UNCHANGED <<plan, data, started>>,
             IF pc[h] = "co_insert" THEN Disturb ELSE UNCHANGED disturbed
      PROVE  Calm
  <2>1. /\ plan[h] # "restoreConfig" /\ input[h].op = "createAccount"
        /\ UNCHANGED disturbed
    BY <1>3 DEF CreateAccountStep, CheckAddressIsFree, CheckEmailIsFree, ReadCreator,
                CheckCreatorOrganization, InsertAccount, InsertDetail, Check
  <2>2. CASE InsertAccount(h)
    <3>1. NewAccount(h, call[h]).address \in Address
      BY <2>2 DEF InsertAccount, NewAccount, AddressInv
    <3>2. \A g \in Handlers : NewAccount(h, call[h]).id
                                # <<g, NewAccount(h, call[h]).address>>
      BY <3>1, NodeAssumption DEF NewAccount, DocId
    <3> QED
      BY <1>3, <2>2, <3>2 DEF InsertAccount
  <2>3. CASE ~InsertAccount(h)
    BY <1>3, <2>1, <2>3
       DEF CreateAccountStep, CheckAddressIsFree, CheckEmailIsFree, ReadCreator,
           CheckCreatorOrganization, InsertDetail, AfterAccount, Check
  <2> QED
    BY <2>2, <2>3
<1>4. ASSUME NEW h \in Handlers, FailedAccess(h) PROVE Calm
  BY <1>4 DEF FailedAccess, Abort
<1>5. ASSUME NEW h \in Handlers, GetConfig(h) PROVE Calm
  BY <1>5 DEF GetConfig, StartGetConfig, StartAdmin, GetOrganizations, GetKeys, GetAccounts,
              GetDetails, Hold
<1>6. ASSUME NEW h \in Handlers, BackupOrganization(h) PROVE Calm
  BY <1>6 DEF BackupOrganization, StartBackup, StartAdmin, BackupOrganizationDoc, BackupKey,
              BackupMembers, Hold, Check
<1>7. ASSUME NEW h \in Handlers, NextMember(h) \/ LastMember(h) PROVE Calm
  BY <1>7 DEF NextMember, LastMember, Looping
<1>8. ASSUME NEW id \in keyInserts, StoreOrLoseKey(id) PROVE Calm
  BY <1>8 DEF StoreOrLoseKey, StoreKey, LoseKey
<1>9. CASE CreateBuiltIn
  <2>1. \A g \in Handlers : BuiltInDoc.id # <<g, BuiltInDoc.address>>
    BY NodeAssumption DEF BuiltInDoc
  <2> QED
    BY <1>9, <2>1 DEF CreateBuiltIn, Boot
<1>10. CASE InsertOrganization0
  BY <1>10 DEF InsertOrganization0, Clash, Boot
<1>11. CASE ProbeAccount \/ ProbeOrganization \/ CheckFails
  BY <1>11 DEF ProbeAccount, ProbeOrganization, CheckFails, Boot
<1>12. CASE Start
  BY <1>12 DEF Start, vars
<1>13. CASE Crash
  BY <1>13 DEF Crash, Stopped, Looping
<1>14. CASE UNCHANGED nodeVars
  BY <1>14 DEF nodeVars, vars
<1> HIDE DEF Calm, CreateOrganizationLabels, CreateAccountLabels, Restoring, Adding,
             Continue, db, node
<1>15. ASSUME NEW h \in Handlers, OnboardingStep(h) PROVE Calm
  BY <1>1, <1>2, <1>3, <1>15 DEF OnboardingStep
<1> QED
  BY <1>4, <1>5, <1>6, <1>7, <1>8, <1>9, <1>10, <1>11, <1>12, <1>13, <1>14, <1>15
     DEF NodeNext, RestoreConfig, RestoreOrganization, RestoreStep, CheckBuiltIn
--------------------------------------------------------------------------------
\* An organization put back from a backup remains one.
LEMMA PutBackStays ==
    ASSUME plan' = plan,
           \A g \in Handlers : /\ pc[g] # "idle" => pc'[g] # "idle"
                               /\ plan[g] = "restoreOrganization" /\ pc[g] # "idle" =>
                                    data'[g] = data[g]
    PROVE  \A o : PutBack(o) => PutBack(o)'
  BY DEF PutBack

\* A calm step keeps what is said of the restores.
LEMMA CalmKeeps ==
    ASSUME PlanInv, FoundInv, AloneInv, FilledInv, KeptInv, Calm
    PROVE  FoundInv' /\ AloneInv' /\ FilledInv' /\ KeptInv'
<1> USE DEF Calm
<1>1. \A h \in Handlers : pc'[h] \in Restoring \cup Adding => pc'[h] = pc[h]
  OBVIOUS
<1>2. \A h \in Handlers : pc[h] \notin Restoring => pc'[h] \notin Restoring
  OBVIOUS
<1>3. FoundInv'
  BY <1>1 DEF FoundInv, Restoring
<1>4. AloneInv'
  BY <1>1, <1>2 DEF AloneInv
<1>5. FilledInv'
  <2>1. \A h \in Handlers : RestoredId(h)' = data'[h].organization.organizationId
    BY DEF RestoredId
  <2>2. \A h \in Handlers : pc'[h] \in Restoring => plan[h] = "restoreConfig" /\ pc'[h] = pc[h]
    BY <1>1, Asked DEF Restoring
  <2>3. \A h \in Handlers : pc'[h] \in Adding => plan[h] = "restoreOrganization" /\ pc'[h] = pc[h]
    BY <1>1, Asked DEF Adding
  <2>4. \A h \in Handlers \ disturbed' : h \in Handlers \ disturbed
    OBVIOUS
  <2> SUFFICES ASSUME NEW h \in Handlers \ disturbed' PROVE Filled(h)'
    BY DEF FilledInv
  <2>5. CASE pc'[h] \in Restoring
    BY <2>2, <2>4, <2>5 DEF FilledInv, Filled, Restoring, AccountsOf
  <2>6. CASE pc'[h] \in Adding
    BY <2>1, <2>3, <2>4, <2>6 DEF FilledInv, Filled, Adding, RestoredId
  <2>7. CASE pc'[h] \notin Restoring \cup Adding
    BY <2>7 DEF Filled, Restoring, Adding
  <2> QED
    BY <2>5, <2>6, <2>7
<1>6. KeptInv'
  <2>1. \A o : PutBack(o) => PutBack(o)'
    BY PutBackStays
  <2> SUFFICES ASSUME NEW h \in Handlers PROVE Kept(h)'
    BY DEF KeptInv
  <2>2. ASSUME NEW a \in accounts', a.id = <<h, a.address>>
        PROVE  /\ plan'[h] = "restoreConfig" /\ pc'[h] # "idle"
               /\ \E b \in data'[h].accounts : b.organization = a.organization
    BY <2>2 DEF KeptInv, Kept
  <2>3. ASSUME h \notin disturbed', plan'[h] = "restoreConfig", pc'[h] \in {"rc_fill_keys", "done"},
               NEW o \in data'[h].organizations
        PROVE  /\ OrganizationsWith(o.organizationId)' # {}
               /\ \A p \in OrganizationsWith(o.organizationId)' :
                    p \in data'[h].organizations \/ PutBack(p)'
    <3>1. pc'[h] = pc[h] /\ h \notin disturbed /\ data'[h] = data[h]
      BY <2>3, <1>1 DEF Restoring
    <3>2. PICK q \in organizations : q.organizationId = o.organizationId
      BY <2>3, <3>1 DEF KeptInv, Kept, Placed, OrganizationsWith
    <3>3. \A p \in organizations' : p.organizationId = o.organizationId => p \in organizations
      BY <3>2
    <3> QED
      BY <2>1, <2>3, <3>1, <3>2, <3>3 DEF KeptInv, Kept, Placed, OrganizationsWith
  <2> QED
    BY <2>2, <2>3 DEF Kept, Placed
<1> QED
  BY <1>3, <1>4, <1>5, <1>6
--------------------------------------------------------------------------------
\* To count at most one is to have at most one.
LEMMA CountedOne ==
    ASSUME NEW S, IsFiniteSet(S), Cardinality(S) <= 1
    PROVE  AtMostOne(S)
<1> SUFFICES ASSUME NEW x \in S, NEW y \in S, x # y PROVE FALSE
  BY DEF AtMostOne
<1>1. IsFiniteSet({x}) /\ Cardinality({x}) = 1
  BY FS_Singleton
<1>2. IsFiniteSet({x} \cup {y}) /\ Cardinality({x} \cup {y}) = 2
  <2> DEFINE T == {x}
  <2>1. y \notin T /\ IsFiniteSet(T) /\ Cardinality(T) = 1
    BY <1>1
  <2> HIDE DEF T
  <2>2. IsFiniteSet(T \cup {y}) /\ Cardinality(T \cup {y}) = 2
    BY <2>1, FS_AddElement
  <2> QED
    BY <2>2 DEF T
<1>3. Cardinality({x} \cup {y}) <= Cardinality(S)
  BY FS_Subset
<1>4. Cardinality(S) \in Nat
  BY FS_CardinalityType
<1> QED
  BY <1>2, <1>3, <1>4

LEMMA OneCounted ==
    ASSUME NEW S, AtMostOne(S)
    PROVE  Cardinality(S) <= 1
<1>1. CASE S = {}
  BY <1>1, FS_EmptySet
<1>2. ASSUME NEW x \in S PROVE Cardinality(S) <= 1
  <2>1. S = {x}
    BY DEF AtMostOne
  <2>2. Cardinality({x}) = 1
    BY FS_Singleton
  <2>3. Cardinality(S) = 1
    BY <2>1, <2>2, Zenon
  <2> QED
    BY <2>3
<1> QED
  BY <1>1, <1>2

Keeps == FoundInv' /\ AloneInv' /\ FilledInv' /\ KeptInv'

\* A restoreConfig that starts disturbs whatever could be taken by surprise, and is
\* itself disturbed by another that is under way.
LEMMA StartRestoreConfigKeeps ==
    ASSUME PlanInv, FoundInv, AloneInv, FilledInv, KeptInv,
           NEW h \in Handlers, StartRestoreConfig(h)
    PROVE  Keeps
<1>1. PICK c : StartAdmin(h, "restoreConfig", "rc_count_organizations", c)
  BY DEF StartRestoreConfig
<1>2. /\ plan[h] = "restoreConfig" /\ pc[h] = "idle" /\ pc'[h] = "rc_count_organizations"
      /\ \A g \in Handlers \ {h} : pc'[g] = pc[g] /\ data'[g] = data[g]
      /\ UNCHANGED <<plan, accounts, details, organizations, organizationKeys>>
  BY <1>1, Local DEF StartAdmin, Continue, db
<1>3. /\ started'[h] = [accounts |-> accounts, organizations |-> organizations]
      /\ \A g \in Handlers \ {h} : started'[g] = started[g]
      /\ started' \in [Handlers -> [accounts : SUBSET accounts,
                                    organizations : SUBSET organizations]]
  BY DEF StartRestoreConfig, FoundInv
<1>4. /\ disturbed \subseteq disturbed' /\ disturbed' \subseteq Handlers
      /\ \A g \in Handlers \ disturbed' :
           /\ pc[g] \notin Restoring \cup Adding
           /\ ~(plan[g] = "restoreConfig" /\ pc[g] = "done")
      /\ h \notin disturbed' => \A g \in Handlers : pc[g] \notin Restoring
  BY DEF StartRestoreConfig, AloneInv
<1>5. FoundInv'
  BY <1>2, <1>3 DEF FoundInv
<1>6. AloneInv'
  BY <1>2, <1>4 DEF AloneInv, Restoring, Adding
<1>7. FilledInv'
  <2> SUFFICES ASSUME NEW g \in Handlers \ disturbed' PROVE Filled(g)'
    BY DEF FilledInv
  <2> QED
    BY <1>2, <1>4 DEF Filled, Restoring, Adding
<1>8. KeptInv'
  <2> SUFFICES ASSUME NEW g \in Handlers PROVE Kept(g)'
    BY DEF KeptInv
  <2>1. Kept(g)
    BY DEF KeptInv
  <2>2. CASE g = h
    BY <1>2, <2>1, <2>2 DEF Kept
  <2>3. CASE g # h
    BY <1>2, <1>4, <2>1, <2>3 DEF Kept, Placed, Restoring
  <2> QED
    BY <2>2, <2>3
<1> QED
  BY <1>5, <1>6, <1>7, <1>8 DEF Keeps

\* What every other step of restoreConfig leaves as it is.
LEMMA RestoreFrame ==
    ASSUME PlanInv, NEW h \in Handlers, NEW at \in Restoring, NEW next,
           Restore(h, at, next)
    PROVE  /\ plan[h] = "restoreConfig" /\ pc[h] = at /\ pc'[h] = next
           /\ \A g \in Handlers \ {h} : pc'[g] = pc[g]
           /\ UNCHANGED <<plan, data, disturbed>>
  BY Asked, Local DEF Restore, Continue

\* The counts find out whether the node has been in use.
LEMMA CountsKeep ==
    ASSUME PlanInv, FiniteInv, FoundInv, AloneInv, FilledInv, KeptInv,
           NEW h \in Handlers, EnsureFewOrganizations(h) \/ EnsureFewAccounts(h)
    PROVE  Keeps
<1>1. /\ pc[h] \in {"rc_count_organizations", "rc_count_accounts"}
      /\ pc'[h] \in {"rc_count_accounts", "rc_clear_organizations", "failed"}
      /\ \A g \in Handlers \ {h} : pc'[g] = pc[g]
      /\ UNCHANGED <<plan, data, accounts, details, organizations, organizationKeys,
                     started, disturbed>>
  BY Local DEF EnsureFewOrganizations, EnsureFewAccounts, Check, Continue, db, node
<1>2. started[h].accounts \subseteq accounts /\ started[h].organizations \subseteq organizations
  BY DEF FoundInv
<1>3. pc'[h] = "rc_count_accounts" => AtMostOne(started[h].organizations)
  <2>1. pc'[h] = "rc_count_accounts" => Cardinality(organizations) <= 1
    BY Local DEF EnsureFewOrganizations, EnsureFewAccounts, Check, Continue
  <2> QED
    BY <1>2, <2>1, CountedOne DEF FiniteInv, AtMostOne
<1>4. pc'[h] = "rc_clear_organizations" =>
        AtMostOne(started[h].accounts) /\ AtMostOne(started[h].organizations)
  <2>1. pc'[h] = "rc_clear_organizations" =>
          Cardinality(accounts) <= 1 /\ pc[h] = "rc_count_accounts"
    BY Local DEF EnsureFewOrganizations, EnsureFewAccounts, Check, Continue
  <2> QED
    BY <1>2, <2>1, CountedOne DEF FiniteInv, FoundInv, AtMostOne
<1>5. FoundInv'
  <2>1. \A g \in Handlers :
          /\ pc'[g] \in {"rc_count_accounts", "rc_clear_organizations"} =>
               AtMostOne(started[g].organizations)
          /\ pc'[g] \in {"rc_clear_organizations", "rc_clear_keys", "rc_clear_accounts"} =>
               AtMostOne(started[g].accounts)
    BY <1>1, <1>3, <1>4 DEF FoundInv
  <2> QED
    BY <1>1, <2>1 DEF FoundInv, AtMostOne
<1>6. AloneInv'
  BY <1>1 DEF AloneInv, Restoring, Adding
<1>7. FilledInv'
  <2> SUFFICES ASSUME NEW g \in Handlers \ disturbed' PROVE Filled(g)'
    BY DEF FilledInv
  <2>1. CASE g = h
    BY <1>1, <2>1 DEF Filled
  <2>2. CASE g # h
    BY <1>1, <2>2 DEF FilledInv, Filled, RestoredId, AccountsOf
  <2> QED
    BY <2>1, <2>2
<1>8. KeptInv'
  <2>1. \A o : PutBack(o) => PutBack(o)'
    BY <1>1, PutBackStays
  <2> SUFFICES ASSUME NEW g \in Handlers PROVE Kept(g)'
    BY DEF KeptInv
  <2>2. Kept(g)
    BY DEF KeptInv
  <2>3. CASE g = h
    BY <1>1, <2>2, <2>3 DEF Kept, Placed
  <2>4. CASE g # h
    BY <1>1, <2>1, <2>2, <2>4 DEF Kept, Placed, OrganizationsWith
  <2> QED
    BY <2>3, <2>4
<1> QED
  BY <1>5, <1>6, <1>7, <1>8 DEF Keeps
--------------------------------------------------------------------------------
\* While a restoreConfig is under way, no other restore is undisturbed.
LEMMA NobodyElse ==
    ASSUME PlanInv, AloneInv, NEW h \in Handlers, pc[h] \in Restoring,
           NEW g \in Handlers \ disturbed, g # h
    PROVE  /\ pc[g] \notin Restoring \cup Adding
           /\ ~(plan[g] = "restoreConfig" /\ pc[g] = "done")
  BY Asked DEF AloneInv

\* What a step of restoreConfig has to show, for its own restore alone.
LEMMA RestoringKeeps ==
    ASSUME PlanInv, FiniteInv, FoundInv, AloneInv, FilledInv, KeptInv,
           NEW h \in Handlers, plan[h] = "restoreConfig", pc[h] \in Restoring,
           \A g \in Handlers \ {h} : pc'[g] = pc[g],
           UNCHANGED <<plan, data, disturbed>>, Follow,
           pc'[h] \notin {"idle", "rc_count_accounts", "rc_clear_organizations"} \cup Adding,
           pc'[h] \in {"rc_clear_keys", "rc_clear_accounts"} => AtMostOne(started[h].accounts),
           accounts' \subseteq accounts \cup Renewed(h, data[h].accounts),
           h \notin disturbed => Filled(h)',
           h \notin disturbed /\ pc'[h] \in {"rc_fill_keys", "done"} => Placed(h)'
    PROVE  Keeps
<1>1. \A g \in Handlers \ disturbed :
        g # h => /\ pc'[g] \notin Restoring \cup Adding
                 /\ ~(plan[g] = "restoreConfig" /\ pc'[g] = "done")
  BY NobodyElse
<1>2. /\ started' \in [Handlers -> [accounts : SUBSET accounts',
                                    organizations : SUBSET organizations']]
      /\ \A g \in Handlers : /\ started'[g].accounts \subseteq started[g].accounts
                             /\ started'[g].organizations \subseteq started[g].organizations
  BY DEF FoundInv, Follow
<1>3. FoundInv'
  <2>1. ASSUME NEW g \in Handlers
        PROVE  /\ pc'[g] \in {"rc_count_accounts", "rc_clear_organizations"} =>
                    AtMostOne(started'[g].organizations)
               /\ pc'[g] \in {"rc_clear_organizations", "rc_clear_keys", "rc_clear_accounts"} =>
                    AtMostOne(started'[g].accounts)
    <3>1. CASE g = h
      BY <1>2, <3>1 DEF AtMostOne
    <3>2. CASE g # h
      BY <1>2, <3>2 DEF FoundInv, AtMostOne
    <3> QED
      BY <3>1, <3>2
  <2> QED
    BY <1>2, <2>1 DEF FoundInv, AtMostOne
<1>4. AloneInv'
  <2>1. disturbed \subseteq Handlers
    BY DEF AloneInv
  <2>2. h \notin disturbed => \A g \in Handlers \ {h} : pc'[g] \notin Restoring
    BY DEF AloneInv
  <2> QED
    BY <1>1, <2>1, <2>2 DEF AloneInv
<1>5. FilledInv'
  <2>1. ASSUME NEW g \in Handlers \ disturbed, g # h PROVE Filled(g)'
    BY <1>1, <2>1 DEF Filled, Restoring, Adding
  <2> QED
    BY <2>1 DEF FilledInv
<1>6. KeptInv'
  <2> SUFFICES ASSUME NEW g \in Handlers PROVE Kept(g)'
    BY DEF KeptInv
  <2>1. ASSUME NEW a \in accounts', a.id = <<g, a.address>>
        PROVE  /\ plan[g] = "restoreConfig" /\ pc'[g] # "idle"
               /\ \E b \in data[g].accounts : b.organization = a.organization
    <3>1. CASE a \in accounts
      BY <2>1, <3>1 DEF KeptInv, Kept
    <3>2. CASE a \in Renewed(h, data[h].accounts)
      <4>1. PICK b \in data[h].accounts : a = [b EXCEPT !.id = <<h, b.address>>]
        BY <3>2 DEF Renewed
      <4>2. {"id", "address", "organization"} \subseteq DOMAIN b
        BY DEF FiniteInv, ConfigOK, AccountFields, Restoring
      <4>3. a.id = <<h, b.address>> /\ a.organization = b.organization
        BY <4>1, <4>2
      <4> QED
        BY <2>1, <4>3
    <3> QED
      BY <2>1, <3>1, <3>2
  <2>2. g \notin disturbed' /\ plan'[g] = "restoreConfig" /\ pc'[g] \in {"rc_fill_keys", "done"} =>
          Placed(g)'
    BY <1>1 DEF Restoring
  <2> QED
    BY <2>1, <2>2 DEF Kept
<1> QED
  BY <1>3, <1>4, <1>5, <1>6 DEF Keeps

\* The four deletions.
LEMMA ClearsKeep ==
    ASSUME PlanInv, FiniteInv, FoundInv, AloneInv, FilledInv, KeptInv,
           NEW h \in Handlers,
           \/ ClearOrganizations(h) \/ ClearKeys(h) \/ ClearAccounts(h) \/ ClearDetails(h)
    PROVE  Keeps
<1>1. /\ pc[h] \in {"rc_clear_organizations", "rc_clear_keys", "rc_clear_accounts",
                    "rc_clear_details"}
      /\ plan[h] = "restoreConfig" /\ Follow
      /\ \A g \in Handlers \ {h} : pc'[g] = pc[g]
      /\ UNCHANGED <<plan, data, disturbed>>
      /\ accounts' \subseteq accounts
  BY RestoreFrame DEF ClearOrganizations, ClearKeys, ClearAccounts, ClearDetails, Restoring
<1>2. /\ pc[h] = "rc_clear_organizations" => pc'[h] = "rc_clear_keys"
      /\ pc[h] = "rc_clear_keys" => pc'[h] = "rc_clear_accounts"
      /\ pc[h] = "rc_clear_accounts" => pc'[h] = "rc_clear_details" /\ accounts' = {}
      /\ pc[h] = "rc_clear_details" => pc'[h] = "rc_fill_accounts"
  BY Local DEF ClearOrganizations, ClearKeys, ClearAccounts, ClearDetails, Restore, Continue
<1>3. started'[h].accounts = started[h].accounts \cap accounts'
  BY <1>1 DEF Follow
<1>4. h \notin disturbed => Filled(h)'
  BY <1>1, <1>2, <1>3 DEF FilledInv, Filled
<1>5. pc'[h] \in {"rc_clear_keys", "rc_clear_accounts"} => AtMostOne(started[h].accounts)
  BY <1>1, <1>2 DEF FoundInv
<1> QED
  BY <1>1, <1>2, <1>4, <1>5, RestoringKeeps DEF Restoring, Adding

\* What a bulk insertion does, whether it goes through or not.
LEMMA BulkFrame ==
    ASSUME PlanInv, NEW h \in Handlers, NEW at \in Restoring, NEW next,
           NEW old, NEW new, NEW refused, NEW result,
           Bulk(h, at, next, old, new, refused, result)
    PROVE  /\ plan[h] = "restoreConfig" /\ pc[h] = at
           /\ \/ pc'[h] = next /\ refused = {} /\ result = old \cup new
              \/ pc'[h] = "failed"
           /\ \A g \in Handlers \ {h} : pc'[g] = pc[g]
           /\ UNCHANGED <<plan, data, disturbed>>
  BY RestoreFrame DEF Bulk

\* The accounts are put back, under new ids.
LEMMA FillAccountsKeeps ==
    ASSUME PlanInv, FiniteInv, FoundInv, AloneInv, FilledInv, KeptInv,
           NEW h \in Handlers, FillAccounts(h)
    PROVE  Keeps
<1>1. /\ plan[h] = "restoreConfig" /\ pc[h] = "rc_fill_accounts"
      /\ \/ pc'[h] = "rc_fill_details" /\ accounts' = accounts \cup Renewed(h, data[h].accounts)
         \/ pc'[h] = "failed"
      /\ \A g \in Handlers \ {h} : pc'[g] = pc[g]
      /\ UNCHANGED <<plan, data, disturbed>>
  BY BulkFrame DEF FillAccounts, Restoring
<1>2. accounts' \subseteq accounts \cup Renewed(h, data[h].accounts) /\ Follow
  BY BulkBounds DEF FillAccounts
<1>3. ASSUME h \notin disturbed, pc'[h] = "rc_fill_details" PROVE Filled(h)'
  <2>1. started'[h].accounts = {}
    BY <1>1, <1>2, <1>3 DEF FilledInv, Filled, Follow
  <2>2. ASSUME NEW a \in data[h].accounts PROVE \E b \in accounts' : b.address = a.address
    <3>1. {"id", "address", "organization"} \subseteq DOMAIN a
      BY <1>1 DEF FiniteInv, ConfigOK, AccountFields
    <3>2. [a EXCEPT !.id = <<h, a.address>>].address = a.address
      BY <3>1
    <3> QED
      BY <1>1, <1>3, <3>2 DEF Renewed
  <2> QED
    BY <1>1, <1>3, <2>1, <2>2 DEF Filled, AccountsOf
<1>4. pc'[h] = "failed" => Filled(h)'
  BY DEF Filled
<1> QED
  BY <1>1, <1>2, <1>3, <1>4, RestoringKeeps DEF Restoring, Adding
\* The details, the organizations and the keys follow.
LEMMA FillDetailsKeeps ==
    ASSUME PlanInv, FiniteInv, FoundInv, AloneInv, FilledInv, KeptInv,
           NEW h \in Handlers, FillDetails(h)
    PROVE  Keeps
<1>1. /\ plan[h] = "restoreConfig" /\ pc[h] = "rc_fill_details"
      /\ \/ pc'[h] = "rc_fill_organizations" /\ details' = details \cup data[h].details
         \/ pc'[h] = "failed"
      /\ \A g \in Handlers \ {h} : pc'[g] = pc[g]
      /\ UNCHANGED <<plan, data, disturbed>>
  BY BulkFrame DEF FillDetails, Restoring
<1>2. UNCHANGED accounts /\ Follow
  BY DEF FillDetails
<1>3. h \notin disturbed => Filled(h)'
  BY <1>1, <1>2 DEF FilledInv, Filled, Follow, AccountsOf
<1> QED
  BY <1>1, <1>2, <1>3, RestoringKeeps DEF Restoring, Adding

\* No organization there has the id of one that insertMany accepts.
LEMMA FillOrganizationsKeeps ==
    ASSUME PlanInv, FiniteInv, FoundInv, AloneInv, FilledInv, KeptInv,
           NEW h \in Handlers, FillOrganizations(h)
    PROVE  Keeps
<1>1. /\ plan[h] = "restoreConfig" /\ pc[h] = "rc_fill_organizations"
      /\ \/ /\ pc'[h] = "rc_fill_keys" /\ organizations' = organizations \cup data[h].organizations
            /\ \A o \in data[h].organizations : ~Clash(o)
         \/ pc'[h] = "failed"
      /\ \A g \in Handlers \ {h} : pc'[g] = pc[g]
      /\ UNCHANGED <<plan, data, disturbed>>
  BY BulkFrame DEF FillOrganizations, Restoring
<1>2. UNCHANGED <<accounts, details>> /\ Follow
  BY DEF FillOrganizations
<1>3. h \notin disturbed => Filled(h)'
  BY <1>1, <1>2 DEF FilledInv, Filled, Follow, AccountsOf
<1>4. pc'[h] \in {"rc_fill_keys", "done"} => Placed(h)'
  BY <1>1 DEF Placed, OrganizationsWith, Clash
<1> QED
  BY <1>1, <1>2, <1>3, <1>4, RestoringKeeps DEF Restoring, Adding

LEMMA FillKeysKeeps ==
    ASSUME PlanInv, FiniteInv, FoundInv, AloneInv, FilledInv, KeptInv,
           NEW h \in Handlers, FillKeys(h)
    PROVE  Keeps
<1>1. /\ plan[h] = "restoreConfig" /\ pc[h] = "rc_fill_keys" /\ pc'[h] \in {"done", "failed"}
      /\ \A g \in Handlers \ {h} : pc'[g] = pc[g]
      /\ UNCHANGED <<plan, data, disturbed>>
  BY BulkFrame DEF FillKeys, Restoring
<1>2. UNCHANGED <<accounts, details, organizations>> /\ Follow
  BY DEF FillKeys
<1>3. Filled(h)'
  BY <1>1 DEF Filled
<1>4. h \notin disturbed => Placed(h)'
  <2>1. \A o : PutBack(o) => PutBack(o)'
    BY <1>1, PutBackStays
  <2>2. h \notin disturbed => Placed(h)
    BY <1>1 DEF KeptInv, Kept
  <2> QED
    BY <1>1, <1>2, <2>1, <2>2 DEF Placed, OrganizationsWith
<1> QED
  BY <1>1, <1>2, <1>3, <1>4, RestoringKeeps DEF Restoring, Adding

--------------------------------------------------------------------------------
\* A restoreOrganization that starts under a restoreConfig is disturbed; of another it
\* has the organizations with their keys before it.
LEMMA StartRestoreOrganizationKeeps ==
    ASSUME PlanInv, FoundInv, AloneInv, FilledInv, KeptInv,
           NEW h \in Handlers, StartRestoreOrganization(h)
    PROVE  Keeps
<1>1. PICK b : StartAdmin(h, "restoreOrganization", "ro_count", b)
  BY DEF StartRestoreOrganization
<1>2. /\ plan[h] = "restoreOrganization" /\ pc[h] = "idle" /\ pc'[h] = "ro_count"
      /\ \A g \in Handlers \ {h} : pc'[g] = pc[g] /\ data'[g] = data[g]
      /\ UNCHANGED <<plan, accounts, details, organizations, organizationKeys>>
  BY <1>1, Local DEF StartAdmin, Continue, db
<1>3. /\ \A o \in started'[h].organizations : o.organizationId \in organizationKeys
      /\ \A g \in Handlers \ {h} : started'[g] = started[g]
      /\ started' \in [Handlers -> [accounts : SUBSET accounts,
                                    organizations : SUBSET organizations]]
  BY DEF StartRestoreOrganization, FoundInv
<1>4. /\ disturbed \subseteq disturbed' /\ disturbed' \subseteq Handlers
      /\ h \notin disturbed' => \A g \in Handlers : pc[g] \notin Restoring
  BY DEF StartRestoreOrganization, AloneInv
<1>5. FoundInv'
  BY <1>2, <1>3 DEF FoundInv
<1>6. AloneInv'
  BY <1>2, <1>4 DEF AloneInv, Restoring, Adding
<1>7. FilledInv'
  <2> SUFFICES ASSUME NEW g \in Handlers \ disturbed' PROVE Filled(g)'
    BY DEF FilledInv
  <2>1. CASE g = h
    BY <1>2, <1>3, <2>1 DEF Filled
  <2>2. CASE g # h
    BY <1>2, <1>3, <1>4, <2>2 DEF FilledInv, Filled, RestoredId, AccountsOf
  <2> QED
    BY <2>1, <2>2
<1>8. KeptInv'
  <2>1. \A o : PutBack(o) => PutBack(o)'
    BY <1>2, PutBackStays
  <2> SUFFICES ASSUME NEW g \in Handlers PROVE Kept(g)'
    BY DEF KeptInv
  <2>2. Kept(g)
    BY DEF KeptInv
  <2>3. CASE g = h
    BY <1>2, <2>2, <2>3 DEF Kept
  <2>4. CASE g # h
    BY <1>2, <1>4, <2>1, <2>2, <2>4 DEF Kept, Placed, OrganizationsWith
  <2> QED
    BY <2>3, <2>4
<1> QED
  BY <1>5, <1>6, <1>7, <1>8 DEF Keeps

\* What a step of restoreOrganization has to show: it replaces organizations by the one
\* of the backup, keeps every id, and disturbs the restores under way if it replaces any.
LEMMA AddingKeeps ==
    ASSUME PlanInv, FoundInv, AloneInv, FilledInv, KeptInv,
           NEW h \in Handlers, plan[h] = "restoreOrganization", pc[h] # "idle",
           \A g \in Handlers \ {h} : pc'[g] = pc[g],
           pc'[h] \notin Restoring \cup {"idle"},
           pc'[h] \in Adding => pc[h] \in Adding,
           UNCHANGED <<plan, data, accounts, details>>, Follow,
           organizationKeys \subseteq organizationKeys',
           \A p \in organizations' : p \in organizations \/ p = data[h].organization,
           \A q \in organizations : \E p \in organizations' :
             p.organizationId = q.organizationId,
           Disturb \/ UNCHANGED <<organizations, disturbed>>,
           h \notin disturbed' => Filled(h)'
    PROVE  Keeps
<1>1. /\ started' \in [Handlers -> [accounts : SUBSET accounts',
                                    organizations : SUBSET organizations']]
      /\ \A g \in Handlers : /\ started'[g].accounts \subseteq started[g].accounts
                             /\ started'[g].organizations \subseteq started[g].organizations
  BY DEF FoundInv, Follow
<1>2. /\ disturbed \subseteq disturbed' /\ disturbed' \subseteq Handlers
      /\ organizations' # organizations =>
           \A g \in Handlers \ disturbed' : pc[g] \notin Restoring
  BY DEF Disturb, AloneInv
<1>3. \A o : PutBack(o) => PutBack(o)'
  BY PutBackStays
<1>4. FoundInv'
  <2>1. ASSUME NEW g \in Handlers
        PROVE  /\ pc'[g] \in {"rc_count_accounts", "rc_clear_organizations"} =>
                    AtMostOne(started'[g].organizations)
               /\ pc'[g] \in {"rc_clear_organizations", "rc_clear_keys", "rc_clear_accounts"} =>
                    AtMostOne(started'[g].accounts)
    <3>1. CASE g = h
      BY <3>1 DEF Restoring
    <3>2. CASE g # h
      BY <1>1, <3>2 DEF FoundInv, AtMostOne
    <3> QED
      BY <3>1, <3>2
  <2> QED
    BY <1>1, <2>1 DEF FoundInv, AtMostOne
<1>5. AloneInv'
  BY <1>2 DEF AloneInv
<1>6. FilledInv'
  <2>1. ASSUME NEW g \in Handlers \ disturbed', g # h PROVE Filled(g)'
    <3>1. Filled(g) /\ pc'[g] = pc[g]
      BY <1>2, <2>1 DEF FilledInv
    <3>2. pc[g] = "rc_fill_keys" => organizations' = organizations
      BY <1>2, <2>1 DEF Restoring
    <3> QED
      BY <1>1, <3>1, <3>2 DEF Filled, RestoredId, AccountsOf
  <2> QED
    BY <2>1 DEF FilledInv
<1>7. KeptInv'
  <2> SUFFICES ASSUME NEW g \in Handlers PROVE Kept(g)'
    BY DEF KeptInv
  <2>1. Kept(g)
    BY DEF KeptInv
  <2>2. PutBack(data[h].organization)'
    BY DEF PutBack
  <2>3. Placed(g) => Placed(g)'
    BY <1>3, <2>2 DEF Placed, OrganizationsWith
  <2>4. CASE g = h
    BY <2>1, <2>4 DEF Kept
  <2>5. CASE g # h
    BY <1>2, <2>1, <2>3, <2>5 DEF Kept
  <2> QED
    BY <2>4, <2>5
<1> QED
  BY <1>4, <1>5, <1>6, <1>7 DEF Keeps
LEMMA RefuseExistingKeeps ==
    ASSUME PlanInv, FoundInv, AloneInv, FilledInv, KeptInv,
           NEW h \in Handlers, RefuseExisting(h)
    PROVE  Keeps
<1>1. /\ plan[h] = "restoreOrganization" /\ pc[h] = "ro_count"
      /\ \/ pc'[h] = "failed"
         \/ pc'[h] = "ro_key" /\ RestoredId(h) \notin organizationKeys
      /\ \A g \in Handlers \ {h} : pc'[g] = pc[g]
      /\ UNCHANGED <<plan, data, accounts, details, organizations, organizationKeys,
                     started, disturbed>>
  BY Asked, Local DEF RefuseExisting, Check, Continue, Adding, db, node
<1>2. Follow
  <2>1. \A g \in Handlers :
          started[g] = [accounts |-> started[g].accounts \cap accounts,
                        organizations |-> started[g].organizations \cap organizations]
    BY DEF FoundInv
  <2> QED
    BY <1>1, <2>1 DEF Follow, FoundInv
<1>3. h \notin disturbed => Filled(h)'
  <2>1. RestoredId(h)' = RestoredId(h)
    BY <1>1 DEF RestoredId
  <2> QED
    BY <1>1, <2>1 DEF FilledInv, Filled
<1> QED
  BY <1>1, <1>2, <1>3, AddingKeeps DEF Restoring, Adding

LEMMA UpsertsKeep ==
    ASSUME PlanInv, FoundInv, AloneInv, FilledInv, KeptInv,
           NEW h \in Handlers, UpsertKey(h) \/ UpsertOrganization(h) \/ UpdateRestored(h)
    PROVE  Keeps
<1>1. CASE UpsertKey(h)
  <2>1. /\ plan[h] = "restoreOrganization" /\ pc[h] = "ro_key" /\ pc'[h] = "ro_organization"
        /\ \A g \in Handlers \ {h} : pc'[g] = pc[g]
        /\ UNCHANGED <<plan, data, accounts, details, organizations, disturbed>> /\ Follow
        /\ organizationKeys \subseteq organizationKeys'
    BY <1>1, Asked, Local DEF UpsertKey, Restore, Continue, Adding
  <2>2. h \notin disturbed => Filled(h)'
    BY <2>1 DEF FilledInv, Filled, Follow, FoundInv, RestoredId
  <2> QED
    BY <2>1, <2>2, AddingKeeps DEF Restoring, Adding
<1>2. CASE UpsertOrganization(h)
  <2>1. /\ plan[h] = "restoreOrganization" /\ pc[h] = "ro_organization"
        /\ pc'[h] \in {"ro_members", "failed"}
        /\ \A g \in Handlers \ {h} : pc'[g] = pc[g]
        /\ UNCHANGED <<plan, data, accounts, details, organizationKeys>> /\ Follow /\ Disturb
    BY <1>2, Asked, Local DEF UpsertOrganization, Continue, Adding
  <2>2. /\ \A p \in organizations' : p \in organizations \/ p = data[h].organization
        /\ \A q \in organizations : \E p \in organizations' :
             p.organizationId = q.organizationId
    BY <1>2 DEF UpsertOrganization, OrganizationsWith, RestoredId
  <2>3. Filled(h)'
    BY <2>1 DEF Filled
  <2> QED
    BY <2>1, <2>2, <2>3, AddingKeeps DEF Restoring, Adding
<1>3. CASE UpdateRestored(h)
  <2>1. /\ plan[h] = "restoreOrganization" /\ pc[h] = "ro_update" /\ pc'[h] = "done"
        /\ \A g \in Handlers \ {h} : pc'[g] = pc[g]
        /\ UNCHANGED <<plan, data, accounts, details, organizationKeys>> /\ Follow /\ Disturb
    BY <1>3, Asked, Local DEF UpdateRestored, Continue
  <2>2. /\ \A p \in organizations' : p \in organizations \/ p = data[h].organization
        /\ \A q \in organizations : \E p \in organizations' :
             p.organizationId = q.organizationId
    BY <1>3 DEF UpdateRestored, RestoredId
  <2>3. Filled(h)'
    BY <2>1 DEF Filled
  <2> QED
    BY <2>1, <2>2, <2>3, AddingKeeps DEF Restoring, Adding
<1> QED
  BY <1>1, <1>2, <1>3

--------------------------------------------------------------------------------
\* NodeInv holds at the start, and every step keeps it.
LEMMA NodeInvInit == NodeInit => NodeInv
<1> SUFFICES ASSUME NodeInit PROVE NodeInv
  OBVIOUS
<1>1. PlanInv
  BY NodeAssumption DEF NodeInit, PlanInv, Halted, CreateOrganizationLabels, CreateAccountLabels
<1>2. \A a \in InitAccounts : a \in AccountDoc /\ a.id \in DocId
  BY SeedAssumption DEF AccountDoc
<1>3. FiniteInv
  BY <1>2, NodeAssumption DEF NodeInit, FiniteInv, AccountFields, AccountDoc
<1>4. AddressInv
  BY <1>2 DEF NodeInit, AddressInv, AccountDoc, CreateAccountLabels
<1>5. FoundInv
  BY DEF NodeInit, FoundInv, Nothing
<1>6. AloneInv /\ FilledInv
  BY DEF NodeInit, AloneInv, FilledInv, Filled, Restoring, Adding
<1>7. KeptInv
  <2>1. \A a \in accounts, h \in Handlers : a.id # <<h, a.address>>
    BY <1>2, NodeAssumption DEF NodeInit, AccountDoc
  <2> QED
    BY <2>1 DEF NodeInit, KeptInv, Kept
<1> QED
  BY <1>1, <1>3, <1>4, <1>5, <1>6, <1>7 DEF NodeInv

LEMMA NodeInvStep == NodeInv /\ boots \in Nat /\ [NodeNext]_nodeVars => NodeInv'
<1> SUFFICES ASSUME NodeInv, boots \in Nat, [NodeNext]_nodeVars PROVE NodeInv'
  OBVIOUS
<1> USE DEF NodeInv
<1>1. PlanInv' /\ FiniteInv' /\ AddressInv'
  BY PlanStep, FiniteStep, AddressStep
<1>2. disturbed \subseteq Handlers
  BY DEF AloneInv
<1>3. CASE Calm
  BY <1>1, <1>3, CalmKeeps
<1>4. ASSUME NEW h \in Handlers, RestoreStep(h) PROVE Keeps
  BY <1>4, StartRestoreConfigKeeps, CountsKeep, ClearsKeep, FillAccountsKeeps,
     FillDetailsKeeps, FillOrganizationsKeeps, FillKeysKeeps, StartRestoreOrganizationKeeps,
     RefuseExistingKeeps, UpsertsKeep
     DEF RestoreStep
<1> QED
  BY <1>1, <1>2, <1>3, <1>4, CalmStep DEF Keeps

LEMMA NodeInvariant == NodeSpec => [](NodeInv /\ boots \in Nat)
<1> DEFINE Inv == NodeInv /\ boots \in Nat
<1>1. NodeInit => Inv
  BY NodeInvInit DEF NodeInit
<1>2. Inv /\ [NodeNext]_nodeVars => Inv'
  BY NodeInvStep, BootsStep
<1> QED
  BY <1>1, <1>2, PTL DEF NodeSpec

--------------------------------------------------------------------------------
\* Whatever else happens, a restore destroys nothing that lived on the node when it was
\* called: ensureCanRestoreConfig counts before it clears, and the key of an organization
\* that was there keeps restoreOrganization from overwriting it.
THEOREM NothingLivingDestroyed == NodeSpec => DestroysNothingLiving
<1> DEFINE Safe(h) ==
      /\ pc[h] = "rc_clear_organizations" /\ organizations' = {} =>
           Cardinality(organizations \cap started[h].organizations) <= 1
      /\ pc[h] = "rc_clear_accounts" /\ accounts' = {} =>
           Cardinality(accounts \cap started[h].accounts) <= 1
      /\ h \notin disturbed /\ pc[h] = "ro_organization" /\ pc'[h] = "ro_members" =>
           \A o \in started[h].organizations \cap organizations :
             o.organizationId = RestoredId(h) => o = data[h].organization
<1>1. ASSUME NodeInv, NEW h \in Handlers PROVE Safe(h)
  <2> USE <1>1 DEF NodeInv
  <2>1. pc[h] = "rc_clear_organizations" =>
          Cardinality(organizations \cap started[h].organizations) <= 1
    <3>1. pc[h] = "rc_clear_organizations" =>
            AtMostOne(organizations \cap started[h].organizations)
      BY DEF FoundInv, AtMostOne
    <3> QED
      BY <3>1, OneCounted
  <2>2. pc[h] = "rc_clear_accounts" => Cardinality(accounts \cap started[h].accounts) <= 1
    <3>1. pc[h] = "rc_clear_accounts" => AtMostOne(accounts \cap started[h].accounts)
      BY DEF FoundInv, AtMostOne
    <3> QED
      BY <3>1, OneCounted
  <2>3. h \notin disturbed /\ pc[h] = "ro_organization" =>
          \A o \in started[h].organizations : o.organizationId # RestoredId(h)
    BY DEF FilledInv, Filled
  <2> QED
    BY <2>1, <2>2, <2>3
<1>2. NodeInv => [\A h \in Handlers : Safe(h)]_nodeVars
  BY <1>1
<1> QED
  BY <1>2, NodeInvariant, PTL DEF DestroysNothingLiving

\* A restoreConfig that answers OK, undisturbed, has put back the whole configuration, for
\* every configuration and whatever else the node was doing.
THEOREM ConfigurationRestored == NodeSpec => RestoredInFull
<1> DEFINE InFull(h) ==
      pc[h] = "rc_fill_keys" /\ pc'[h] = "done" =>
        /\ \A a \in data[h].accounts : AccountsOf(a.address) # {}
        /\ accounts \cap started[h].accounts = {}
        /\ data[h].details \subseteq details
        /\ data[h].organizations \subseteq organizations
        /\ data[h].keys \subseteq organizationKeys'
<1>1. ASSUME NodeInv, boots \in Nat, [NodeNext]_nodeVars, NEW h \in Handlers \ disturbed
      PROVE  InFull(h)
  <2> USE <1>1 DEF NodeInv
  <2> SUFFICES ASSUME pc[h] = "rc_fill_keys", pc'[h] = "done" PROVE InFull(h)
    OBVIOUS
  <2>1. Filled(h)
    BY DEF FilledInv
  <2>2. plan[h] = "restoreConfig"
    BY Asked DEF Restoring
  <2>3. ~Calm
    BY <2>2 DEF Calm
  <2>4. PICK g \in Handlers : RestoreStep(g)
    BY <2>3, CalmStep DEF AloneInv
  <2>5. g = h
    <3>1. pc' = [pc EXCEPT ![g] = pc'[g]]
      BY <2>4, Local DEF RestoreStep, StartRestoreConfig, StartRestoreOrganization,
         StartAdmin, EnsureFewOrganizations, EnsureFewAccounts, RefuseExisting, Check,
         ClearOrganizations, ClearKeys, ClearAccounts, ClearDetails, UpsertKey,
         UpsertOrganization, UpdateRestored, FillAccounts, FillDetails, FillOrganizations,
         FillKeys, Bulk, Restore, Continue
    <3> QED
      BY <3>1, Local
  <2>6. FillKeys(h)
    BY <2>4, <2>5 DEF RestoreStep, StartRestoreConfig, StartRestoreOrganization,
         StartAdmin, EnsureFewOrganizations, EnsureFewAccounts, RefuseExisting, Check,
         ClearOrganizations, ClearKeys, ClearAccounts, ClearDetails, UpsertKey,
         UpsertOrganization, UpdateRestored, FillAccounts, FillDetails, FillOrganizations,
         Bulk, Restore
  <2>7. data[h].keys \subseteq organizationKeys'
    BY <2>6, BulkFrame DEF FillKeys, Restoring
  <2> QED
    BY <2>1, <2>7 DEF Filled
<1>2. NodeInv /\ boots \in Nat /\ [NodeNext]_nodeVars =>
        [\A h \in Handlers \ disturbed : InFull(h)]_nodeVars
  BY <1>1
<1> QED
  BY <1>2, NodeInvariant, PTL DEF RestoredInFull, NodeSpec

\* No organization created on a restored node gets the restored accounts for members,
\* although the counter of identifiers is not restored.
THEOREM NobodyAdopted == NodeSpec => []NoAdoption
<1>1. NodeInv => NoAdoption
  <2> SUFFICES ASSUME NodeInv, NEW h \in Handlers \ disturbed, plan[h] = "restoreConfig",
                      pc[h] = "done", Closed(data[h]),
                      NEW a \in accounts, a.id = <<h, a.address>>,
                      NEW o \in OrganizationsWith(a.organization)
               PROVE  o \in data[h].organizations \/ PutBack(o)
    BY DEF NoAdoption
  <2>1. Kept(h)
    BY DEF NodeInv, KeptInv
  <2>2. PICK b \in data[h].accounts : b.organization = a.organization
    BY <2>1 DEF Kept
  <2>3. PICK q \in data[h].organizations : q.organizationId = a.organization
    BY <2>2 DEF Closed
  <2> QED
    BY <2>1, <2>3 DEF Kept, Placed
<1> QED
  BY <1>1, NodeInvariant, PTL
================================================================================
