--------------------------- MODULE OnboardingProofs ----------------------------
(***************************************************************************)
(* Onboarding keeps its types, for every set of handlers, addresses, emails*)
(* and titles, every set of inputs and every starting database.  TypeOK is *)
(* not inductive: the documents a handler inserts are built from its call  *)
(* and its input, and the label it goes on to from its operation, so the   *)
(* induction carries LocalInv, which says what a handler's local state is  *)
(* worth at each of its labels.  With it goes what makes the identifiers   *)
(* of organizations fresh: the counter is ahead of all that are in use.    *)
(* What relates several handlers is in ApprovalProofs.                     *)
(***************************************************************************)
EXTENDS Onboarding, TLAPS

\* The labels of createOrganization and of createAccount.
CreateOrganizationLabels ==
    {"co_account", "co_title", "co_owner", "co_counter", "co_insert"}
CreateAccountLabels == {"ca_address", "ca_email", "ca_creator", "ca_organization",
                        "ca_insert", "ca_detail"}

\* What a handler that has started knows at its labels: input and call are what
\* they should be, call keeps the address asked for, and a handler is only at the
\* labels of its own operation.
LocalInv ==
    \A h \in Handlers : pc[h] # "idle" =>
        /\ input[h] \in Inputs /\ call[h] \in CallDoc
        /\ call[h].address = input[h].address
        /\ pc[h] \in CreateOrganizationLabels =>
             input[h].op \in {"createOrganization", "organizationRequestApprove"}
        /\ pc[h] \in CreateAccountLabels =>
             input[h].op \in {"createAccount", "organizationRequestApprove",
                              "acceptOrganizationInvite"}
        /\ pc[h] \in {"ap_find", "ap_delete"} => input[h].op = "organizationRequestApprove"
        /\ pc[h] \in {"ac_expired", "ac_find", "ac_delete"} =>
             input[h].op = "acceptOrganizationInvite"
        /\ pc[h] = "ca_organization" => creator[h] \in AccountDoc
        /\ pc[h] \in {"ca_organization", "ca_insert"} => call[h].perms \subseteq Permission

\* The first step of a request establishes LocalInv for its handler.
LEMMA EntryStep ==
    ASSUME NEW h \in Handlers, NEW i \in Inputs, NEW organization \in Nat,
           TypeOK, LocalInv, Begin(h, i, organization)
    PROVE  LocalInv'
<1>1. CallFor(i, organization) \in CallDoc /\ CallFor(i, organization).address = i.address
  BY InputsAssumption DEF CallFor, CallDoc, InputDoc, OrganizationTitle
<1>2. i \in InputDoc
  BY InputsAssumption
<1>3. i.op \in Ops
  BY <1>2 DEF InputDoc
<1>4. /\ Entry(i.op) \in CreateOrganizationLabels => i.op = "createOrganization"
      /\ Entry(i.op) \in CreateAccountLabels => i.op = "createAccount"
      /\ Entry(i.op) \in {"ap_find", "ap_delete"} => i.op = "organizationRequestApprove"
      /\ Entry(i.op) \in {"ac_expired", "ac_find", "ac_delete"} =>
           i.op = "acceptOrganizationInvite"
      /\ Entry(i.op) \notin {"ca_organization", "ca_insert"}
  BY <1>3 DEF Ops, Entry, CreateOrganizationLabels, CreateAccountLabels
<1> QED
  BY <1>1, <1>4 DEF TypeOK, LocalInv, Begin, Continue

\* The call that an approval makes of a request is a call, for the same address.
LEMMA CallForRequestType ==
    ASSUME NEW c \in CallDoc, NEW r \in RequestDoc
    PROVE  /\ CallForRequest(c, r) \in CallDoc
           /\ CallForRequest(c, r).address = c.address
  BY DEF CallForRequest, CallDoc, RequestDoc, OrganizationTitle, OrganizationOwner,
         PermissionName, Permission

\* The call that an acceptance makes of an invite is a call, for the same address.
LEMMA CallForInviteType ==
    ASSUME NEW c \in CallDoc, NEW v \in InviteDoc
    PROVE  /\ CallForInvite(c, v) \in CallDoc
           /\ CallForInvite(c, v).address = c.address
  BY DEF CallForInvite, CallDoc, InviteDoc, PermissionName, Permission

\* Every step keeps LocalInv.
LEMMA LocalStep == TypeOK /\ LocalInv /\ [Next]_vars => LocalInv'
<1> SUFFICES ASSUME TypeOK, LocalInv, [Next]_vars PROVE LocalInv'
  OBVIOUS
<1> USE InputsAssumption
    DEF TypeOK, LocalInv, Continue, CreateOrganizationLabels, CreateAccountLabels, db, local

<1>1. ASSUME NEW h \in Handlers, StartAsUser(h) PROVE LocalInv'
  <2>1. PICK i \in Inputs, p \in accounts : Begin(h, i, p.organization)
    BY <1>1 DEF StartAsUser, AccountsOf
  <2>2. p.organization \in Nat
    BY DEF AccountDoc
  <2> QED
    BY <2>1, <2>2, EntryStep
<1>2. ASSUME NEW h \in Handlers, StartAnonymously(h) PROVE LocalInv'
  BY <1>2, EntryStep DEF StartAnonymously
<1>3. ASSUME NEW h \in Handlers, CheckOwnerHasNoAccount(h) PROVE LocalInv'
  BY <1>3 DEF CheckOwnerHasNoAccount, Check
<1>4. ASSUME NEW h \in Handlers, CheckTitleIsFree(h) PROVE LocalInv'
  BY <1>4 DEF CheckTitleIsFree, Check
<1>5. ASSUME NEW h \in Handlers, CheckOwnerIsFree(h) PROVE LocalInv'
  BY <1>5 DEF CheckOwnerIsFree, Check
<1>6. ASSUME NEW h \in Handlers, GetNewOrganizationIdentifier(h) PROVE LocalInv'
  <2>1. count' \in Nat
    BY <1>6 DEF GetNewOrganizationIdentifier
  <2>2. /\ [call[h] EXCEPT !.organization = count'] \in CallDoc
        /\ [call[h] EXCEPT !.organization = count'].address = call[h].address
    BY <1>6, <2>1 DEF GetNewOrganizationIdentifier, CallDoc
  <2> QED
    BY <1>6, <2>2 DEF GetNewOrganizationIdentifier
<1>7. ASSUME NEW h \in Handlers, InsertOrganization(h) PROVE LocalInv'
  BY <1>7 DEF InsertOrganization, AfterOrganization
<1>8. ASSUME NEW h \in Handlers, CheckAddressIsFree(h) PROVE LocalInv'
  BY <1>8 DEF CheckAddressIsFree, Check
<1>9. ASSUME NEW h \in Handlers, CheckEmailIsFree(h) PROVE LocalInv'
  BY <1>9 DEF CheckEmailIsFree, Check
<1>10. ASSUME NEW h \in Handlers, ReadCreator(h) PROVE LocalInv'
  <2>1. CASE pc' = [pc EXCEPT ![h] = "failed"] /\ UNCHANGED creator
    BY <1>10, <2>1 DEF ReadCreator
  <2>2. CASE \E c \in accounts : /\ call[h].perms \subseteq Permission
                               /\ creator' = [creator EXCEPT ![h] = c]
                               /\ pc' = [pc EXCEPT ![h] = "ca_organization"]
    BY <1>10, <2>2 DEF ReadCreator
  <2> QED
    BY <1>10, <2>1, <2>2 DEF ReadCreator, AccountsOf, MayCreateAccount, EnsureCorrectPermissions
<1>11. ASSUME NEW h \in Handlers, CheckCreatorOrganization(h) PROVE LocalInv'
  BY <1>11 DEF CheckCreatorOrganization, Check
<1>12. ASSUME NEW h \in Handlers, InsertAccount(h) PROVE LocalInv'
  BY <1>12 DEF InsertAccount
<1>13. ASSUME NEW h \in Handlers, InsertDetail(h) PROVE LocalInv'
  BY <1>13 DEF InsertDetail, AfterAccount
<1>14. ASSUME NEW h \in Handlers, CheckNewTitleIsFree(h) PROVE LocalInv'
  BY <1>14 DEF CheckNewTitleIsFree, Check
<1>15. ASSUME NEW h \in Handlers, UpdateOrganization(h) PROVE LocalInv'
  BY <1>15 DEF UpdateOrganization, Updated
<1>16. ASSUME NEW h \in Handlers, CheckRequest(h) PROVE LocalInv'
  BY <1>16 DEF CheckRequest, Check, RequestChecks, AfterRequestCheck
<1>17. ASSUME NEW h \in Handlers, InsertRequest(h) PROVE LocalInv'
  BY <1>17 DEF InsertRequest
<1>18. ASSUME NEW h \in Handlers, FindRequestToApprove(h) PROVE LocalInv'
  <2>1. \A r \in requests : /\ CallForRequest(call[h], r) \in CallDoc
                            /\ CallForRequest(call[h], r).address = call[h].address
    BY <1>18, CallForRequestType DEF FindRequestToApprove
  <2> QED
    BY <1>18, <2>1 DEF FindRequestToApprove, RequestsFrom
<1>19. ASSUME NEW h \in Handlers, DeleteRequest(h) PROVE LocalInv'
  BY <1>19 DEF DeleteRequest, RequestsFrom
<1>20. ASSUME NEW h \in Handlers, FindRequestToRefuse(h) PROVE LocalInv'
  BY <1>20 DEF FindRequestToRefuse, RequestsFrom
<1>21. ASSUME NEW h \in Handlers, RefuseRequest(h) PROVE LocalInv'
  BY <1>21 DEF RefuseRequest, RequestsFrom
<1>22. ASSUME NEW h \in Handlers, DeleteExpired(h) PROVE LocalInv'
  BY <1>22 DEF DeleteExpired
<1>23. ASSUME NEW h \in Handlers, CheckInviteeHasNoAccount(h) PROVE LocalInv'
  BY <1>23 DEF CheckInviteeHasNoAccount, Check
<1>24. ASSUME NEW h \in Handlers, CheckInviteIsNew(h) PROVE LocalInv'
  BY <1>24 DEF CheckInviteIsNew, Check
<1>25. ASSUME NEW h \in Handlers, InsertInvite(h) PROVE LocalInv'
  BY <1>25 DEF InsertInvite
<1>26. ASSUME NEW h \in Handlers, DeleteOrganizationInvite(h) PROVE LocalInv'
  BY <1>26 DEF DeleteOrganizationInvite
<1>27. ASSUME NEW h \in Handlers, FindInvite(h) PROVE LocalInv'
  <2>1. \A v \in invites : /\ CallForInvite(call[h], v) \in CallDoc
                           /\ CallForInvite(call[h], v).address = call[h].address
    BY <1>27, CallForInviteType DEF FindInvite
  <2> QED
    BY <1>27, <2>1 DEF FindInvite
<1>28. ASSUME NEW h \in Handlers, DeleteAcceptedInvite(h) PROVE LocalInv'
  BY <1>28 DEF DeleteAcceptedInvite
<1>29. ASSUME NEW h \in Handlers, Abort(h) PROVE LocalInv'
  BY <1>29 DEF Abort, Stopped
<1>30. ASSUME NEW id \in keyInserts, StoreKey(id) \/ LoseKey(id) PROVE LocalInv'
  BY <1>30 DEF StoreKey, LoseKey
<1>31. ASSUME NEW v \in invites, Expire(v) PROVE LocalInv'
  BY <1>31 DEF Expire
<1>32. CASE UNCHANGED vars
  BY <1>32 DEF vars
<1> QED
  BY <1>1, <1>2, <1>3, <1>4, <1>5, <1>6, <1>7, <1>8, <1>9, <1>10, <1>11, <1>12,
     <1>13, <1>14, <1>15, <1>16, <1>17, <1>18, <1>19, <1>20, <1>21, <1>22, <1>23, <1>24,
     <1>25, <1>26, <1>27, <1>28, <1>29, <1>30, <1>31, <1>32
     DEF Next, HandlerStep, CreateOrganizationStep, CreateAccountStep,
         RequestStep, InviteStep

\* The first step of a request keeps the types.
LEMMA BeginType ==
    ASSUME NEW h \in Handlers, NEW i \in Inputs, NEW organization \in Nat,
           TypeOK, Begin(h, i, organization)
    PROVE  TypeOK'
<1>1. CallFor(i, organization) \in CallDoc
  BY InputsAssumption DEF CallFor, CallDoc, InputDoc, OrganizationTitle
<1>2. Entry(i.op) \in PC
  <2>1. i.op \in Ops
    BY InputsAssumption DEF InputDoc
  <2> QED
    BY <2>1 DEF Ops, Entry, PC
<1> QED
  BY <1>1, <1>2 DEF TypeOK, Begin, Continue, db

\* updateOrganization leaves id, owner and origin of an organization alone.
LEMMA UpdatedType ==
    ASSUME NEW o \in OrganizationDoc, NEW i \in InputDoc
    PROVE  /\ Updated(o, i) \in OrganizationDoc
           /\ Updated(o, i).organizationId = o.organizationId
           /\ Updated(o, i).owner = o.owner
           /\ Updated(o, i).origin = o.origin
  BY DEF Updated, OrganizationDoc, InputDoc, OrganizationTitle

\* Every step keeps the types.
LEMMA TypeStep == TypeOK /\ LocalInv /\ [Next]_vars => TypeOK'
<1> SUFFICES ASSUME TypeOK, LocalInv, [Next]_vars PROVE TypeOK'
  OBVIOUS
<1> USE InputsAssumption
    DEF TypeOK, LocalInv, Continue, CreateOrganizationLabels, CreateAccountLabels,
        db, local, PC, Stopped

<1>1. ASSUME NEW h \in Handlers, StartAsUser(h) PROVE TypeOK'
  <2>1. PICK i \in Inputs, p \in accounts : Begin(h, i, p.organization)
    BY <1>1 DEF StartAsUser, AccountsOf
  <2>2. p.organization \in Nat
    BY DEF AccountDoc
  <2> QED
    BY <2>1, <2>2, BeginType
<1>2. ASSUME NEW h \in Handlers, StartAnonymously(h) PROVE TypeOK'
  BY <1>2, BeginType DEF StartAnonymously
<1>3. ASSUME NEW h \in Handlers, CheckOwnerHasNoAccount(h) PROVE TypeOK'
  BY <1>3 DEF CheckOwnerHasNoAccount, Check
<1>4. ASSUME NEW h \in Handlers, CheckTitleIsFree(h) PROVE TypeOK'
  BY <1>4 DEF CheckTitleIsFree, Check
<1>5. ASSUME NEW h \in Handlers, CheckOwnerIsFree(h) PROVE TypeOK'
  BY <1>5 DEF CheckOwnerIsFree, Check
<1>6. ASSUME NEW h \in Handlers, GetNewOrganizationIdentifier(h) PROVE TypeOK'
  <2>1. count + 9 \in Nat
    OBVIOUS
  <2>2. [call[h] EXCEPT !.organization = count + 9] \in CallDoc
    BY <1>6, <2>1 DEF GetNewOrganizationIdentifier, CallDoc
  <2> QED
    BY <1>6, <2>1, <2>2 DEF GetNewOrganizationIdentifier
<1>7. ASSUME NEW h \in Handlers, InsertOrganization(h) PROVE TypeOK'
  <2>1. NewOrganization(call[h], input[h].op) \in OrganizationDoc
    BY <1>7 DEF InsertOrganization, NewOrganization, OrganizationDoc, CallDoc
  <2>2. NewOrganization(call[h], input[h].op).organizationId \in Nat
    BY <2>1 DEF OrganizationDoc
  <2>3. AfterOrganization(input[h].op) \in PC
    BY DEF AfterOrganization
  <2>4. organizations' \subseteq OrganizationDoc /\ keyInserts' \subseteq Nat
    BY <1>7, <2>1, <2>2 DEF InsertOrganization
  <2>5. pc' \in [Handlers -> PC]
    BY <1>7, <2>3 DEF InsertOrganization
  <2> QED
    BY <1>7, <2>4, <2>5 DEF InsertOrganization
<1>8. ASSUME NEW h \in Handlers, CheckAddressIsFree(h) PROVE TypeOK'
  BY <1>8 DEF CheckAddressIsFree, Check
<1>9. ASSUME NEW h \in Handlers, CheckEmailIsFree(h) PROVE TypeOK'
  BY <1>9 DEF CheckEmailIsFree, Check
<1>10. ASSUME NEW h \in Handlers, ReadCreator(h) PROVE TypeOK'
  <2>1. creator' \in [Handlers -> AccountDoc \cup {None}]
    BY <1>10 DEF ReadCreator, AccountsOf
  <2>2. pc' \in [Handlers -> PC]
    BY <1>10 DEF ReadCreator
  <2> QED
    BY <1>10, <2>1, <2>2 DEF ReadCreator
<1>11. ASSUME NEW h \in Handlers, CheckCreatorOrganization(h) PROVE TypeOK'
  BY <1>11 DEF CheckCreatorOrganization, Check
<1>12. ASSUME NEW h \in Handlers, InsertAccount(h) PROVE TypeOK'
  <2>1. NewAccount(h, call[h]) \in AccountDoc
    BY <1>12 DEF InsertAccount, NewAccount, AccountDoc, CallDoc, DocId
  <2> QED
    BY <1>12, <2>1 DEF InsertAccount
<1>13. ASSUME NEW h \in Handlers, InsertDetail(h) PROVE TypeOK'
  <2>1. [address |-> call[h].address, email |-> call[h].email] \in DetailDoc
    BY <1>13 DEF InsertDetail, DetailDoc, CallDoc
  <2>2. AfterAccount(input[h].op) \in PC
    BY <1>13 DEF AfterAccount, InsertDetail
  <2> QED
    BY <1>13, <2>1, <2>2 DEF InsertDetail
<1>14. ASSUME NEW h \in Handlers, CheckNewTitleIsFree(h) PROVE TypeOK'
  BY <1>14 DEF CheckNewTitleIsFree, Check
<1>15. ASSUME NEW h \in Handlers, UpdateOrganization(h) PROVE TypeOK'
  <2>1. \A o \in organizations : Updated(o, input[h]) \in OrganizationDoc
    BY <1>15, UpdatedType DEF UpdateOrganization
  <2> QED
    BY <1>15, <2>1 DEF UpdateOrganization
<1>16. ASSUME NEW h \in Handlers, CheckRequest(h) PROVE TypeOK'
  BY <1>16 DEF CheckRequest, Check, RequestChecks, AfterRequestCheck
<1>17. ASSUME NEW h \in Handlers, InsertRequest(h) PROVE TypeOK'
  <2>1. NewRequest(h, input[h]) \in RequestDoc
    BY <1>17 DEF InsertRequest, NewRequest, RequestDoc, InputDoc
  <2> QED
    BY <1>17, <2>1 DEF InsertRequest
<1>18. ASSUME NEW h \in Handlers, FindRequestToApprove(h) PROVE TypeOK'
  <2>1. \A r \in requests : CallForRequest(call[h], r) \in CallDoc
    BY <1>18, CallForRequestType DEF FindRequestToApprove
  <2> QED
    BY <1>18, <2>1 DEF FindRequestToApprove, RequestsFrom
<1>19. ASSUME NEW h \in Handlers, DeleteRequest(h) PROVE TypeOK'
  BY <1>19 DEF DeleteRequest, RequestsFrom
<1>20. ASSUME NEW h \in Handlers, FindRequestToRefuse(h) PROVE TypeOK'
  <2>1. \A r \in requests : r.id \in Handlers
    BY DEF RequestDoc
  <2> QED
    BY <1>20, <2>1 DEF FindRequestToRefuse, RequestsFrom
<1>21. ASSUME NEW h \in Handlers, RefuseRequest(h) PROVE TypeOK'
  <2>1. \A r \in requests : [r EXCEPT !.refused = TRUE] \in RequestDoc
    BY DEF RequestDoc
  <2> QED
    BY <1>21, <2>1 DEF RefuseRequest, RequestsFrom
<1>22. ASSUME NEW h \in Handlers, DeleteExpired(h) PROVE TypeOK'
  BY <1>22 DEF DeleteExpired
<1>23. ASSUME NEW h \in Handlers, CheckInviteeHasNoAccount(h) PROVE TypeOK'
  BY <1>23 DEF CheckInviteeHasNoAccount, Check
<1>24. ASSUME NEW h \in Handlers, CheckInviteIsNew(h) PROVE TypeOK'
  BY <1>24 DEF CheckInviteIsNew, Check
<1>25. ASSUME NEW h \in Handlers, InsertInvite(h) PROVE TypeOK'
  <2>1. NewInvite(h, call[h]) \in InviteDoc
    BY <1>25 DEF InsertInvite, NewInvite, InviteDoc, CallDoc
  <2> QED
    BY <1>25, <2>1 DEF InsertInvite
<1>26. ASSUME NEW h \in Handlers, DeleteOrganizationInvite(h) PROVE TypeOK'
  BY <1>26 DEF DeleteOrganizationInvite
<1>27. ASSUME NEW h \in Handlers, FindInvite(h) PROVE TypeOK'
  <2>1. \A v \in invites : CallForInvite(call[h], v) \in CallDoc
    BY <1>27, CallForInviteType DEF FindInvite
  <2> QED
    BY <1>27, <2>1 DEF FindInvite
<1>28. ASSUME NEW h \in Handlers, DeleteAcceptedInvite(h) PROVE TypeOK'
  BY <1>28 DEF DeleteAcceptedInvite
<1>29. ASSUME NEW h \in Handlers, Abort(h) PROVE TypeOK'
  BY <1>29 DEF Abort, Stopped
<1>30. ASSUME NEW id \in keyInserts, StoreKey(id) \/ LoseKey(id) PROVE TypeOK'
  BY <1>30 DEF StoreKey, LoseKey
<1>31. ASSUME NEW v \in invites, Expire(v) PROVE TypeOK'
  <2>1. [v EXCEPT !.expired = TRUE] \in InviteDoc
    BY DEF InviteDoc
  <2> QED
    BY <1>31, <2>1 DEF Expire
<1>32. CASE UNCHANGED vars
  BY <1>32 DEF vars
<1> QED
  BY <1>1, <1>2, <1>3, <1>4, <1>5, <1>6, <1>7, <1>8, <1>9, <1>10, <1>11, <1>12,
     <1>13, <1>14, <1>15, <1>16, <1>17, <1>18, <1>19, <1>20, <1>21, <1>22, <1>23, <1>24,
     <1>25, <1>26, <1>27, <1>28, <1>29, <1>30, <1>31, <1>32
     DEF Next, HandlerStep, CreateOrganizationStep, CreateAccountStep,
         RequestStep, InviteStep

\* Types and local state, of every starting database that SeedAssumption allows.
LEMMA InitTypes == Init => TypeOK /\ LocalInv
  BY SeedAssumption DEF Init, TypeOK, LocalInv, PC, Stopped

\* They hold for ever.
LEMMA Types == Spec => [](TypeOK /\ LocalInv)
  BY InitTypes, TypeStep, LocalStep, PTL DEF Spec

\* Every identifier in use has been taken from the counter, and the one that a
\* handler has taken is in use nowhere else.
IdInv ==
    /\ \A o \in organizations : o.organizationId <= count
    /\ \A id \in keyInserts \cup organizationKeys : id <= count
    /\ \A h \in Handlers : pc[h] = "co_insert" => call[h].organization <= count
    /\ FreshOrganizationId

\* Where identifiers are not touched, and nobody comes to the insertion of an
\* organization, IdInv stays.
LEMMA IdFrame ==
    ASSUME TypeOK, IdInv, UNCHANGED <<organizations, organizationKeys, keyInserts, count>>,
           \A h \in Handlers : pc'[h] = "co_insert" => pc[h] = "co_insert" /\ call'[h] = call[h]
    PROVE  IdInv'
  BY DEF IdInv, FreshOrganizationId, OrganizationsWith

\* Every step keeps IdInv.
LEMMA IdStep == TypeOK /\ LocalInv /\ IdInv /\ [Next]_vars => IdInv'
<1> SUFFICES ASSUME TypeOK, LocalInv, IdInv, [Next]_vars PROVE IdInv'
  OBVIOUS
<1> DEFINE Frame ==
        /\ UNCHANGED <<organizations, organizationKeys, keyInserts, count>>
        /\ \A h \in Handlers :
             pc'[h] = "co_insert" => pc[h] = "co_insert" /\ call'[h] = call[h]
<1>1. ASSUME NEW h \in Handlers, StartAsUser(h) \/ StartAnonymously(h) PROVE Frame
  <2>1. PICK i \in Inputs : \E organization : Begin(h, i, organization)
    BY <1>1 DEF StartAsUser, StartAnonymously
  <2>2. i.op \in Ops
    BY InputsAssumption DEF InputDoc
  <2>3. Entry(i.op) # "co_insert"
    BY <2>2 DEF Ops, Entry
  <2> QED
    BY <2>1, <2>3 DEF Begin, Continue, db, TypeOK
<1>2. ASSUME NEW h \in Handlers,
             \/ CheckOwnerHasNoAccount(h) \/ CheckTitleIsFree(h) \/ CheckOwnerIsFree(h)
      PROVE  Frame
  BY <1>2 DEF CheckOwnerHasNoAccount, CheckTitleIsFree, CheckOwnerIsFree, Check,
              Continue, db, local, TypeOK
<1>3. ASSUME NEW h \in Handlers, CreateAccountStep(h) PROVE Frame
  BY <1>3 DEF CreateAccountStep, CheckAddressIsFree, CheckEmailIsFree, ReadCreator,
              CheckCreatorOrganization, InsertAccount, InsertDetail, AfterAccount, Check,
              Continue, db, local, TypeOK, LocalInv, CreateAccountLabels
<1>4. ASSUME NEW h \in Handlers, CheckNewTitleIsFree(h) \/ Abort(h) PROVE Frame
  BY <1>4 DEF CheckNewTitleIsFree, Abort, Check, Continue, db, local, TypeOK
<1>5. ASSUME NEW h \in Handlers, RequestStep(h) PROVE Frame
  BY <1>5 DEF RequestStep, CheckRequest, RequestChecks, AfterRequestCheck, InsertRequest,
              FindRequestToApprove, DeleteRequest, FindRequestToRefuse, RefuseRequest,
              Check, Continue, db, local, TypeOK
<1>6. ASSUME NEW h \in Handlers, InviteStep(h) PROVE Frame
  BY <1>6 DEF InviteStep, DeleteExpired, CheckInviteeHasNoAccount, CheckInviteIsNew,
              InsertInvite, DeleteOrganizationInvite, FindInvite, DeleteAcceptedInvite,
              Check, Continue, db, local, TypeOK
<1>7. ASSUME NEW v \in invites, Expire(v) PROVE Frame
  BY <1>7 DEF Expire, local
<1>8. ASSUME UNCHANGED vars PROVE Frame
  BY <1>8 DEF vars, db, local
<1>9. ASSUME NEW h \in Handlers, GetNewOrganizationIdentifier(h) PROVE IdInv'
  <2>1. /\ count' = count + 9 /\ call'[h].organization = count'
        /\ UNCHANGED <<organizations, organizationKeys, keyInserts>>
        /\ \A g \in Handlers \ {h} : pc'[g] = pc[g] /\ call'[g] = call[g]
    <3>1. call[h] \in CallDoc
      BY <1>9 DEF GetNewOrganizationIdentifier, LocalInv
    <3> QED
      BY <1>9, <3>1 DEF GetNewOrganizationIdentifier, Continue, TypeOK, CallDoc
  <2>2. \A n \in Nat : n <= count => n <= count' /\ n # count'
    BY <2>1 DEF TypeOK
  <2>3. /\ \A o \in organizations : o.organizationId \in Nat
        /\ \A id \in keyInserts \cup organizationKeys : id \in Nat
        /\ \A g \in Handlers : pc[g] = "co_insert" => call[g].organization \in Nat
    BY DEF TypeOK, LocalInv, OrganizationDoc, CallDoc
  <2>4. count' <= count'
    BY <2>1 DEF TypeOK
  <2> QED
    BY <2>1, <2>2, <2>3, <2>4 DEF IdInv, FreshOrganizationId, OrganizationsWith
<1>10. ASSUME NEW h \in Handlers, InsertOrganization(h) PROVE IdInv'
  <2>1. AfterOrganization(input[h].op) # "co_insert"
    BY DEF AfterOrganization
  <2>2. NewOrganization(call[h], input[h].op).organizationId = call[h].organization
    BY DEF NewOrganization
  <2>3. /\ keyInserts' = keyInserts \cup {call[h].organization}
        /\ \A o \in organizations' :
             o \in organizations \/ o.organizationId = call[h].organization
        /\ UNCHANGED <<organizationKeys, count, call>>
    BY <1>10, <2>2 DEF InsertOrganization, local
  <2>4. /\ pc[h] = "co_insert" /\ pc'[h] # "co_insert"
        /\ \A g \in Handlers \ {h} : pc'[g] = pc[g]
    BY <1>10, <2>1 DEF InsertOrganization, Continue, TypeOK
  <2> QED
    BY <2>3, <2>4 DEF IdInv, FreshOrganizationId, OrganizationsWith
<1>11. ASSUME NEW h \in Handlers, UpdateOrganization(h) PROVE IdInv'
  <2>1. \A o \in organizations : Updated(o, input[h]).organizationId = o.organizationId
    BY <1>11, UpdatedType, InputsAssumption DEF UpdateOrganization, TypeOK, LocalInv
  <2>2. \A q \in organizations' : \E o \in organizations :
           q.organizationId = o.organizationId
    BY <1>11, <2>1 DEF UpdateOrganization
  <2>3. /\ UNCHANGED <<organizationKeys, keyInserts, count, call>>
        /\ \A g \in Handlers : pc'[g] = "co_insert" => pc[g] = "co_insert"
    BY <1>11 DEF UpdateOrganization, Continue, local, TypeOK
  <2> QED
    BY <2>2, <2>3 DEF IdInv, FreshOrganizationId, OrganizationsWith
<1>12. ASSUME NEW id \in keyInserts, StoreKey(id) \/ LoseKey(id) PROVE IdInv'
  <2>1. /\ keyInserts' \cup organizationKeys' \subseteq keyInserts \cup organizationKeys
        /\ UNCHANGED <<organizations, count, pc, call>>
    BY <1>12 DEF StoreKey, LoseKey, local
  <2> QED
    BY <2>1 DEF IdInv, FreshOrganizationId, OrganizationsWith
<1> HIDE DEF Frame
<1>13. Frame => IdInv'
  BY IdFrame DEF Frame
<1> QED
  BY <1>1, <1>2, <1>3, <1>4, <1>5, <1>6, <1>7, <1>8, <1>9, <1>10, <1>11, <1>12, <1>13
     DEF Next, HandlerStep, CreateOrganizationStep

\* getNewOrganizationIdentifier gives every handler an identifier of its own: when a
\* handler is about to insert its organization, none has the identifier, no key is
\* stored or on its way for it, and no other handler is about to use it.
THEOREM IdentifiersFresh == Spec => []FreshOrganizationId
<1>1. Init => IdInv
  BY SeedAssumption DEF Init, IdInv, FreshOrganizationId
<1>2. IdInv => FreshOrganizationId
  BY DEF IdInv
<1> QED
  BY <1>1, <1>2, IdStep, Types, PTL DEF Spec
================================================================================
