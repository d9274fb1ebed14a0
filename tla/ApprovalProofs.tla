---------------------------- MODULE ApprovalProofs -----------------------------
(***************************************************************************)
(* What holds of Onboarding for every instance: its types, and that the    *)
(* three writes of organizationRequestApprove (the organization, then the  *)
(* account, then the removal of the request) keep together however they mix*)
(* with those of other handlers, and wherever one of them stops.           *)
(*                                                                         *)
(* The invariant IInv adds to TypeOK and LocalInv what the handlers in the *)
(* middle of an approval rely on (ApprovalInv).  That part does not follow *)
(* from what a handler itself has done: another approval of the request    *)
(* may have deleted it, and then it is the account the other one made that *)
(* keeps the organization from being an orphan.                            *)
(*                                                                         *)
(* The second half is about who vouches for an account, where it belongs,  *)
(* and what becomes of the invite it came by (MemberInv).                  *)
(***************************************************************************)
EXTENDS OnboardingProofs

\* Nobody has lost the way to an account for the address a.
Pending(a) == AccountsOf(a) # {} \/ RequestsFrom(a) # {}

\* The address a has an account in an organization that it owns.
Housed(a) == \E x \in accounts, o \in organizations :
                /\ x.address = a /\ o.owner = a
                /\ x.organization = o.organizationId

\* What an approval relies on at each label: before it has inserted the
\* organization its address is pending; once it has, the organization stays; after
\* the account that stays too, and so the request it deletes has been served.
ApprovalInv ==
    \A h \in Handlers :
        /\ /\ pc[h] \in CreateOrganizationLabels
           /\ input[h].op = "organizationRequestApprove"
           => Pending(call[h].address)
        /\ /\ pc[h] \in CreateAccountLabels
           /\ input[h].op = "organizationRequestApprove"
           => \E o \in organizations : /\ o.owner = call[h].address
                                       /\ o.organizationId = call[h].organization
        /\ pc[h] = "ca_detail" =>
             \E a \in accounts : /\ a.address = call[h].address
                                 /\ a.organization = call[h].organization
        /\ pc[h] = "ap_delete" => Housed(call[h].address)

\* Only six actions write to accounts, organizations or requests.
LEMMA WritesOf ==
    [Next]_vars =>
        \/ UNCHANGED <<accounts, organizations, requests>>
        \/ \E h \in Handlers :
             \/ InsertOrganization(h) \/ InsertAccount(h) \/ UpdateOrganization(h)
             \/ InsertRequest(h) \/ DeleteRequest(h) \/ RefuseRequest(h)
<1> SUFFICES ASSUME [Next]_vars,
                    ~ \E h \in Handlers :
                         \/ InsertOrganization(h) \/ InsertAccount(h)
                         \/ UpdateOrganization(h) \/ InsertRequest(h)
                         \/ DeleteRequest(h) \/ RefuseRequest(h)
             PROVE  UNCHANGED <<accounts, organizations, requests>>
  OBVIOUS
<1>1. ASSUME NEW h \in Handlers, StartAsUser(h) \/ StartAnonymously(h)
      PROVE  UNCHANGED <<accounts, organizations, requests>>
  BY <1>1 DEF StartAsUser, StartAnonymously, Begin, db
<1>2. ASSUME NEW h \in Handlers, CreateOrganizationStep(h)
      PROVE  UNCHANGED <<accounts, organizations, requests>>
  BY <1>2 DEF CreateOrganizationStep, CheckOwnerHasNoAccount, CheckTitleIsFree,
              CheckOwnerIsFree, GetNewOrganizationIdentifier, Check, db
<1>3. ASSUME NEW h \in Handlers, CreateAccountStep(h)
      PROVE  UNCHANGED <<accounts, organizations, requests>>
  BY <1>3 DEF CreateAccountStep, CheckAddressIsFree, CheckEmailIsFree, ReadCreator,
              CheckCreatorOrganization, InsertDetail, Check, db
<1>4. ASSUME NEW h \in Handlers, CheckNewTitleIsFree(h) \/ Abort(h)
      PROVE  UNCHANGED <<accounts, organizations, requests>>
  BY <1>4 DEF CheckNewTitleIsFree, Abort, Check, db
<1>5. ASSUME NEW h \in Handlers, RequestStep(h)
      PROVE  UNCHANGED <<accounts, organizations, requests>>
  BY <1>5 DEF RequestStep, CheckRequest, FindRequestToApprove, FindRequestToRefuse,
              Check, db
<1>6. ASSUME NEW h \in Handlers, InviteStep(h)
      PROVE  UNCHANGED <<accounts, organizations, requests>>
  BY <1>6 DEF InviteStep, DeleteExpired, CheckInviteeHasNoAccount, CheckInviteIsNew,
              InsertInvite, DeleteOrganizationInvite, FindInvite,
              DeleteAcceptedInvite, Check, db
<1>7. ASSUME NEW id \in keyInserts, StoreKey(id) \/ LoseKey(id)
      PROVE  UNCHANGED <<accounts, organizations, requests>>
  BY <1>7 DEF StoreKey, LoseKey
<1>8. ASSUME NEW v \in invites, Expire(v)
      PROVE  UNCHANGED <<accounts, organizations, requests>>
  BY <1>8 DEF Expire
<1>9. CASE UNCHANGED vars
  BY <1>9 DEF vars, db
<1> QED
  BY <1>1, <1>2, <1>3, <1>4, <1>5, <1>6, <1>7, <1>8, <1>9 DEF Next, HandlerStep

\* No account is ever deleted, and an organization keeps its id, its owner and its
\* origin: what an approval has written it finds again.
LEMMA Monotone ==
    ASSUME TypeOK, LocalInv, [Next]_vars
    PROVE  /\ accounts \subseteq accounts'
           /\ \A o \in organizations : \E q \in organizations' :
                /\ q.owner = o.owner /\ q.organizationId = o.organizationId
                /\ q.origin = o.origin
<1>1. CASE UNCHANGED <<accounts, organizations, requests>>
  BY <1>1
<1>2. ASSUME NEW h \in Handlers, UpdateOrganization(h)
      PROVE  \A o \in organizations : \E q \in organizations' :
                /\ q.owner = o.owner /\ q.organizationId = o.organizationId
                /\ q.origin = o.origin
  <2>1. \A o \in organizations : /\ Updated(o, input[h]).organizationId = o.organizationId
                                 /\ Updated(o, input[h]).owner = o.owner
                                 /\ Updated(o, input[h]).origin = o.origin
    BY <1>2, UpdatedType, InputsAssumption DEF UpdateOrganization, TypeOK, LocalInv
  <2> QED
    BY <1>2, <2>1 DEF UpdateOrganization
<1> QED
  BY <1>1, <1>2, WritesOf
     DEF InsertOrganization, InsertAccount, UpdateOrganization, InsertRequest,
         DeleteRequest, RefuseRequest

\* A request that starts is not yet anywhere ApprovalInv speaks of.
LEMMA ApprovalBegin ==
    ASSUME NEW h \in Handlers, NEW i \in Inputs, NEW organization,
           TypeOK, ApprovalInv, Begin(h, i, organization)
    PROVE  ApprovalInv'
<1>1. i.op \in Ops
  BY InputsAssumption DEF InputDoc
<1>2. /\ Entry(i.op) \in CreateOrganizationLabels => i.op = "createOrganization"
      /\ Entry(i.op) \in CreateAccountLabels => i.op = "createAccount"
      /\ Entry(i.op) \notin {"ca_detail", "ap_delete"}
  BY <1>1 DEF Ops, Entry, CreateOrganizationLabels, CreateAccountLabels
<1> QED
  BY <1>2 DEF TypeOK, ApprovalInv, Begin, Continue, Pending, Housed, AccountsOf,
              RequestsFrom, db

\* Every step keeps ApprovalInv.
LEMMA ApprovalStep == TypeOK /\ LocalInv /\ ApprovalInv /\ [Next]_vars => ApprovalInv'
<1> SUFFICES ASSUME TypeOK, LocalInv, ApprovalInv, [Next]_vars PROVE ApprovalInv'
  OBVIOUS
<1> USE InputsAssumption
    DEF TypeOK, LocalInv, Continue, CreateOrganizationLabels, CreateAccountLabels,
        db, local, ApprovalInv, Pending, Housed, AccountsOf, RequestsFrom

<1>1. ASSUME NEW h \in Handlers, StartAsUser(h) PROVE ApprovalInv'
  <2>1. PICK i \in Inputs, p \in accounts : Begin(h, i, p.organization)
    BY <1>1 DEF StartAsUser, AccountsOf
  <2> QED
    BY <2>1, ApprovalBegin
<1>2. ASSUME NEW h \in Handlers, StartAnonymously(h) PROVE ApprovalInv'
  BY <1>2, ApprovalBegin DEF StartAnonymously
<1>3. ASSUME NEW h \in Handlers, CheckOwnerHasNoAccount(h) PROVE ApprovalInv'
  BY <1>3 DEF CheckOwnerHasNoAccount, Check
<1>4. ASSUME NEW h \in Handlers, CheckTitleIsFree(h) PROVE ApprovalInv'
  BY <1>4 DEF CheckTitleIsFree, Check
<1>5. ASSUME NEW h \in Handlers, CheckOwnerIsFree(h) PROVE ApprovalInv'
  BY <1>5 DEF CheckOwnerIsFree, Check
<1>6. ASSUME NEW h \in Handlers, GetNewOrganizationIdentifier(h) PROVE ApprovalInv'
  BY <1>6 DEF GetNewOrganizationIdentifier
<1>7. ASSUME NEW h \in Handlers, InsertOrganization(h) PROVE ApprovalInv'
  <2> DEFINE new == NewOrganization(call[h], input[h].op)
  <2>1. /\ new.owner = call[h].address
        /\ new.organizationId = call[h].organization
    BY DEF NewOrganization
  <2>2. CASE UNCHANGED organizations /\ pc' = [pc EXCEPT ![h] = "failed"]
    BY <1>7, <2>2 DEF InsertOrganization
  <2>3. CASE /\ organizations' = organizations \cup {new}
             /\ pc' = [pc EXCEPT ![h] = AfterOrganization(input[h].op)]
    <3>1. AfterOrganization(input[h].op) \in {"done", "ca_address"}
      BY DEF AfterOrganization
    <3>2. new \in organizations' /\ organizations \subseteq organizations'
      BY <2>3
    <3> HIDE DEF new
    <3> QED
      BY <1>7, <2>1, <2>3, <3>1, <3>2 DEF InsertOrganization
  <2> QED
    BY <1>7, <2>2, <2>3 DEF InsertOrganization
<1>8. ASSUME NEW h \in Handlers, CheckAddressIsFree(h) PROVE ApprovalInv'
  BY <1>8 DEF CheckAddressIsFree, Check
<1>9. ASSUME NEW h \in Handlers, CheckEmailIsFree(h) PROVE ApprovalInv'
  BY <1>9 DEF CheckEmailIsFree, Check
<1>10. ASSUME NEW h \in Handlers, ReadCreator(h) PROVE ApprovalInv'
  BY <1>10 DEF ReadCreator
<1>11. ASSUME NEW h \in Handlers, CheckCreatorOrganization(h) PROVE ApprovalInv'
  BY <1>11 DEF CheckCreatorOrganization, Check
<1>12. ASSUME NEW h \in Handlers, InsertAccount(h) PROVE ApprovalInv'
  <2> DEFINE new == NewAccount(h, call[h])
  <2>1. /\ new.address = call[h].address
        /\ new.organization = call[h].organization
    BY DEF NewAccount
  <2>2. accounts' = accounts \cup {new}
    BY <1>12 DEF InsertAccount
  <2> HIDE DEF new
  <2> QED
    BY <1>12, <2>1, <2>2 DEF InsertAccount
<1>13. ASSUME NEW h \in Handlers, InsertDetail(h) PROVE ApprovalInv'
  BY <1>13 DEF InsertDetail, AfterAccount
<1>14. ASSUME NEW h \in Handlers, CheckNewTitleIsFree(h) PROVE ApprovalInv'
  BY <1>14 DEF CheckNewTitleIsFree, Check
<1>15. ASSUME NEW h \in Handlers, UpdateOrganization(h) PROVE ApprovalInv'
  <2>1. \A o \in organizations : \E q \in organizations' :
           q.owner = o.owner /\ q.organizationId = o.organizationId
    BY Monotone
  <2>2. /\ pc' = [pc EXCEPT ![h] = "done"]
        /\ UNCHANGED <<accounts, requests, local>>
    BY <1>15 DEF UpdateOrganization
  <2> QED
    BY <2>1, <2>2
<1>16. ASSUME NEW h \in Handlers, CheckRequest(h) PROVE ApprovalInv'
  BY <1>16 DEF CheckRequest, Check, RequestChecks, AfterRequestCheck
<1>17. ASSUME NEW h \in Handlers, InsertRequest(h) PROVE ApprovalInv'
  BY <1>17 DEF InsertRequest
<1>18. ASSUME NEW h \in Handlers, FindRequestToApprove(h) PROVE ApprovalInv'
  <2>1. \A r \in requests : CallForRequest(call[h], r).address = call[h].address
    BY <1>18, CallForRequestType DEF FindRequestToApprove
  <2>2. CASE UNCHANGED call /\ pc' = [pc EXCEPT ![h] = "failed"]
    BY <1>18, <2>2 DEF FindRequestToApprove
  <2>3. CASE \E r \in RequestsFrom(input[h].address) :
               /\ call' = [call EXCEPT ![h] = CallForRequest(@, r)]
               /\ pc' = [pc EXCEPT ![h] = "co_account"]
    <3>1. call[h].address = input[h].address
      BY <1>18 DEF FindRequestToApprove
    <3>2. call'[h].address = call[h].address /\ Pending(call[h].address)
      BY <1>18, <2>1, <2>3, <3>1
    <3>3. /\ pc' = [pc EXCEPT ![h] = "co_account"]
          /\ UNCHANGED <<accounts, organizations, requests, input>>
          /\ \A g \in Handlers \ {h} : call'[g] = call[g]
      BY <1>18, <2>3 DEF FindRequestToApprove
    <3> QED
      BY <3>2, <3>3
  <2> QED
    BY <1>18, <2>2, <2>3 DEF FindRequestToApprove
<1>19. ASSUME NEW h \in Handlers, DeleteRequest(h) PROVE ApprovalInv'
  BY <1>19 DEF DeleteRequest, RequestsFrom
<1>20. ASSUME NEW h \in Handlers, FindRequestToRefuse(h) PROVE ApprovalInv'
  BY <1>20 DEF FindRequestToRefuse, RequestsFrom
<1>21. ASSUME NEW h \in Handlers, RefuseRequest(h) PROVE ApprovalInv'
  <2>1. \A r \in requests : [r EXCEPT !.refused = TRUE].address = r.address
    BY DEF RequestDoc
  <2>2. \A r \in requests : \E q \in requests' : q.address = r.address
    BY <1>21, <2>1 DEF RefuseRequest
  <2>3. /\ \E label \in {"done", "failed"} : pc' = [pc EXCEPT ![h] = label]
        /\ UNCHANGED <<accounts, organizations, local>>
    BY <1>21 DEF RefuseRequest
  <2> QED
    BY <2>2, <2>3
<1>22. ASSUME NEW h \in Handlers, DeleteExpired(h) PROVE ApprovalInv'
  BY <1>22 DEF DeleteExpired
<1>23. ASSUME NEW h \in Handlers, CheckInviteeHasNoAccount(h) PROVE ApprovalInv'
  BY <1>23 DEF CheckInviteeHasNoAccount, Check
<1>24. ASSUME NEW h \in Handlers, CheckInviteIsNew(h) PROVE ApprovalInv'
  BY <1>24 DEF CheckInviteIsNew, Check
<1>25. ASSUME NEW h \in Handlers, InsertInvite(h) PROVE ApprovalInv'
  BY <1>25 DEF InsertInvite
<1>26. ASSUME NEW h \in Handlers, DeleteOrganizationInvite(h) PROVE ApprovalInv'
  BY <1>26 DEF DeleteOrganizationInvite
<1>27. ASSUME NEW h \in Handlers, FindInvite(h) PROVE ApprovalInv'
  BY <1>27 DEF FindInvite
<1>28. ASSUME NEW h \in Handlers, DeleteAcceptedInvite(h) PROVE ApprovalInv'
  BY <1>28 DEF DeleteAcceptedInvite
<1>29. ASSUME NEW h \in Handlers, Abort(h) PROVE ApprovalInv'
  BY <1>29 DEF Abort, Stopped
<1>30. ASSUME NEW id \in keyInserts, StoreKey(id) \/ LoseKey(id) PROVE ApprovalInv'
  BY <1>30 DEF StoreKey, LoseKey
<1>31. ASSUME NEW v \in invites, Expire(v) PROVE ApprovalInv'
  BY <1>31 DEF Expire
<1>32. CASE UNCHANGED vars
  BY <1>32 DEF vars
<1> QED
  BY <1>1, <1>2, <1>3, <1>4, <1>5, <1>6, <1>7, <1>8, <1>9, <1>10, <1>11, <1>12,
     <1>13, <1>14, <1>15, <1>16, <1>17, <1>18, <1>19, <1>20, <1>21, <1>22, <1>23, <1>24,
     <1>25, <1>26, <1>27, <1>28, <1>29, <1>30, <1>31, <1>32
     DEF Next, HandlerStep, CreateOrganizationStep, CreateAccountStep,
         RequestStep, InviteStep

\* Only InsertDetail writes to details.
LEMMA DetailsOf ==
    ASSUME [Next]_vars, \A h \in Handlers : ~InsertDetail(h)
    PROVE  UNCHANGED details
<1>1. ASSUME NEW h \in Handlers, StartAsUser(h) \/ StartAnonymously(h)
      PROVE  UNCHANGED details
  BY <1>1 DEF StartAsUser, StartAnonymously, Begin, db
<1>2. ASSUME NEW h \in Handlers, CreateOrganizationStep(h)
      PROVE  UNCHANGED details
  BY <1>2 DEF CreateOrganizationStep, CheckOwnerHasNoAccount, CheckTitleIsFree,
              CheckOwnerIsFree, GetNewOrganizationIdentifier, InsertOrganization, Check, db
<1>3. ASSUME NEW h \in Handlers, CreateAccountStep(h)
      PROVE  UNCHANGED details
  BY <1>3 DEF CreateAccountStep, CheckAddressIsFree, CheckEmailIsFree, ReadCreator,
              CheckCreatorOrganization, InsertAccount, Check, db
<1>4. ASSUME NEW h \in Handlers,
             CheckNewTitleIsFree(h) \/ UpdateOrganization(h) \/ Abort(h)
      PROVE  UNCHANGED details
  BY <1>4 DEF CheckNewTitleIsFree, UpdateOrganization, Abort, Check, db
<1>5. ASSUME NEW h \in Handlers, RequestStep(h)
      PROVE  UNCHANGED details
  BY <1>5 DEF RequestStep, CheckRequest, InsertRequest, FindRequestToApprove,
              DeleteRequest, FindRequestToRefuse, RefuseRequest, Check, db
<1>6. ASSUME NEW h \in Handlers, InviteStep(h)
      PROVE  UNCHANGED details
  BY <1>6 DEF InviteStep, DeleteExpired, CheckInviteeHasNoAccount, CheckInviteIsNew,
              InsertInvite, DeleteOrganizationInvite, FindInvite,
              DeleteAcceptedInvite, Check, db
<1>7. ASSUME NEW id \in keyInserts, StoreKey(id) \/ LoseKey(id)
      PROVE  UNCHANGED details
  BY <1>7 DEF StoreKey, LoseKey
<1>8. ASSUME NEW v \in invites, Expire(v)
      PROVE  UNCHANGED details
  BY <1>8 DEF Expire
<1>9. CASE UNCHANGED vars
  BY <1>9 DEF vars, db
<1> QED
  BY <1>1, <1>2, <1>3, <1>4, <1>5, <1>6, <1>7, <1>8, <1>9 DEF Next, HandlerStep

\* Every step keeps NoOrphanOrganization.
LEMMA OrphanStep ==
    ASSUME TypeOK, LocalInv, ApprovalInv, NoOrphanOrganization, [Next]_vars
    PROVE  NoOrphanOrganization'
<1> USE DEF NoOrphanOrganization, AccountsOf, RequestsFrom
<1>1. CASE UNCHANGED <<accounts, organizations, requests>>
  BY <1>1
<1>2. ASSUME NEW h \in Handlers, InsertOrganization(h)
      PROVE  NoOrphanOrganization'
  <2> DEFINE new == NewOrganization(call[h], input[h].op)
  <2>1. new.origin = "request" => Pending(new.owner)
    <3>1. pc[h] = "co_insert"
      BY <1>2 DEF InsertOrganization
    <3>2. new.origin = "request" => input[h].op # "createOrganization"
      BY DEF NewOrganization
    <3>3. new.owner = call[h].address
      BY DEF NewOrganization
    <3> HIDE DEF new
    <3> QED
      BY <3>1, <3>2, <3>3 DEF LocalInv, ApprovalInv, CreateOrganizationLabels
  <2>2. /\ organizations' \subseteq organizations \cup {new}
        /\ UNCHANGED <<accounts, requests>>
    BY <1>2 DEF InsertOrganization
  <2> HIDE DEF new
  <2> QED
    BY <2>1, <2>2 DEF Pending
<1>3. ASSUME NEW h \in Handlers, InsertAccount(h) \/ InsertRequest(h)
      PROVE  NoOrphanOrganization'
  <2>1. /\ accounts \subseteq accounts' /\ requests \subseteq requests'
        /\ UNCHANGED organizations
    BY <1>3 DEF InsertAccount, InsertRequest
  <2> QED
    BY <2>1
<1>4. ASSUME NEW h \in Handlers, UpdateOrganization(h)
      PROVE  NoOrphanOrganization'
  <2>1. \A o \in organizations : /\ Updated(o, input[h]).owner = o.owner
                                 /\ Updated(o, input[h]).origin = o.origin
    BY <1>4, UpdatedType, InputsAssumption DEF UpdateOrganization, TypeOK, LocalInv
  <2>2. \A q \in organizations' : \E o \in organizations :
           q.owner = o.owner /\ q.origin = o.origin
    BY <1>4, <2>1 DEF UpdateOrganization
  <2>3. UNCHANGED <<accounts, requests>>
    BY <1>4 DEF UpdateOrganization
  <2> QED
    BY <2>2, <2>3
<1>5. ASSUME NEW h \in Handlers, DeleteRequest(h)
      PROVE  NoOrphanOrganization'
  <2>1. AccountsOf(input[h].address) # {}
    BY <1>5 DEF DeleteRequest, LocalInv, ApprovalInv, Housed
  <2>2. /\ \A r \in requests \ requests' : r.address = input[h].address
        /\ UNCHANGED <<accounts, organizations>>
    BY <1>5 DEF DeleteRequest
  <2> QED
    BY <2>1, <2>2
<1>6. ASSUME NEW h \in Handlers, RefuseRequest(h)
      PROVE  NoOrphanOrganization'
  <2>1. \A r \in requests : [r EXCEPT !.refused = TRUE].address = r.address
    BY DEF TypeOK, RequestDoc
  <2>2. /\ \A r \in requests : \E q \in requests' : q.address = r.address
        /\ UNCHANGED <<accounts, organizations>>
    BY <1>6, <2>1 DEF RefuseRequest
  <2> QED
    BY <2>2
<1> QED
  BY <1>1, <1>2, <1>3, <1>4, <1>5, <1>6, WritesOf

\* Every step keeps DetailHasAccount.
LEMMA DetailStep ==
    ASSUME TypeOK, LocalInv, ApprovalInv, DetailHasAccount, [Next]_vars
    PROVE  DetailHasAccount'
<1>1. ASSUME NEW h \in Handlers, InsertDetail(h)
      PROVE  \A d \in details' : d \in details \/ d.address = call[h].address
  BY <1>1 DEF InsertDetail
<1>2. ASSUME NEW h \in Handlers, InsertDetail(h)
      PROVE  AccountsOf(call[h].address) # {}
  BY <1>2 DEF InsertDetail, ApprovalInv, AccountsOf
<1>3. (\A h \in Handlers : ~InsertDetail(h)) => UNCHANGED details
  BY DetailsOf
<1> QED
  BY <1>1, <1>2, <1>3, Monotone DEF DetailHasAccount, AccountsOf

\* The inductive invariant.
IInv == TypeOK /\ LocalInv /\ ApprovalInv /\ NoOrphanOrganization /\ DetailHasAccount

\* It holds of every starting database that SeedAssumption allows.
LEMMA InitIInv == Init => IInv
<1> SUFFICES ASSUME Init PROVE IInv
  OBVIOUS
<1> USE SeedAssumption DEF Init
<1>1. TypeOK
  BY DEF TypeOK, PC, Stopped
<1>2. LocalInv
  BY DEF LocalInv
<1>3. ApprovalInv
  BY DEF ApprovalInv, CreateOrganizationLabels, CreateAccountLabels
<1>4. NoOrphanOrganization
  BY DEF NoOrphanOrganization
<1>5. DetailHasAccount
  BY DEF DetailHasAccount, AccountsOf
<1> QED
  BY <1>1, <1>2, <1>3, <1>4, <1>5 DEF IInv

\* It holds for ever.
LEMMA Invariant == Spec => []IInv
<1>1. IInv /\ [Next]_vars => IInv'
  BY LocalStep, TypeStep, ApprovalStep, OrphanStep, DetailStep DEF IInv
<1> QED
  BY <1>1, InitIInv, PTL DEF Spec

\* The collections and the local state of the handlers keep their types: what
\* organizationRequestApprove and acceptOrganizationInvite take from a request or
\* an invite makes a valid account, and no unknown permission is ever stored.
THEOREM TypeCorrect == Spec => []TypeOK
<1>1. IInv => TypeOK
  BY DEF IInv
<1> QED
  BY <1>1, Invariant, PTL

\* However many approvals, refusals and other requests run at once, and wherever a
\* database access fails, the owner of an organization made by
\* organizationRequestApprove has an account or still has the request.
THEOREM NoOrphan == Spec => []NoOrphanOrganization
<1>1. IInv => NoOrphanOrganization
  BY DEF IInv
<1> QED
  BY <1>1, Invariant, PTL

\* createAccount inserts the account before its detail, and no handler deletes an
\* account: a detail document always has its account.
THEOREM DetailsOwned == Spec => []DetailHasAccount
<1>1. IInv => DetailHasAccount
  BY DEF IInv
<1> QED
  BY <1>1, Invariant, PTL

\* organizationRequestApprove deletes a request only when its address has an
\* account in an organization that it owns, though another handler may have
\* approved, or be approving, the same request; refusing never deletes one.
THEOREM RemovedWhenServed == Spec => RequestRemovedWhenServed
<1> DEFINE Served(r) == \E a \in accounts, o \in organizations :
                           /\ a.address = r.address /\ o.owner = r.address
                           /\ a.organization = o.organizationId
           A == \A r \in requests : (\A q \in requests' : q.id # r.id) => Served(r)
<1>1. ASSUME IInv, [Next]_vars
      PROVE  [A]_vars
  <2> SUFFICES ASSUME NEW r \in requests, \A q \in requests' : q.id # r.id
               PROVE  Served(r)
    OBVIOUS
  <2>1. r \notin requests'
    OBVIOUS
  <2>2. ASSUME NEW h \in Handlers, DeleteRequest(h)
        PROVE  Served(r)
    <3>1. r.address = call[h].address /\ pc[h] = "ap_delete"
      BY <1>1, <2>1, <2>2 DEF DeleteRequest, RequestsFrom, IInv, LocalInv
    <3> QED
      BY <1>1, <2>2, <3>1 DEF IInv, ApprovalInv, Housed
  <2>3. ASSUME NEW h \in Handlers, RefuseRequest(h)
        PROVE  FALSE
    <3>1. \A q \in requests : [q EXCEPT !.refused = TRUE].id = q.id
      BY <1>1 DEF IInv, TypeOK, RequestDoc
    <3> QED
      BY <2>1, <2>3, <3>1 DEF RefuseRequest
  <2> QED
    BY <1>1, <2>1, <2>2, <2>3, WritesOf
       DEF InsertOrganization, InsertAccount, UpdateOrganization, InsertRequest
<1> QED
  BY <1>1, Invariant, PTL DEF Spec, RequestRemovedWhenServed

\* Onboarding implements OnboardingContract: in every step of every handler
\* organizations are founded only for addresses that are pending, and petitions are
\* settled only for members.
THEOREM Implements == Spec => KeepsContract
<1> DEFINE P == {r.address : r \in requests}
           M == {a.address : a \in accounts}
           F == {o.owner : o \in {x \in organizations : x.origin = "request"}}
<1>0. ASSUME NEW a \in Address,
             \/ /\ P' = P \cup {a} /\ M' = M /\ F' = F
             \/ /\ M' = M \cup {a} /\ P' = P /\ F' = F
             \/ /\ a \in P \cup M
                /\ F' = F \cup {a} /\ P' = P /\ M' = M
             \/ /\ a \in P \cap M
                /\ P' = P \ {a} /\ M' = M /\ F' = F
      PROVE  [Contract!Next]_(Contract!vars)
  BY <1>0 DEF Contract!Next, Contract!Petition, Contract!Enroll, Contract!Found,
              Contract!Settle
<1>1. Init => Contract!Init
  BY SeedAssumption DEF Init, Contract!Init, AccountDoc
<1>2. ASSUME IInv, [Next]_vars
      PROVE  [Contract!Next]_(Contract!vars)
  <2> USE <1>2 DEF IInv, Contract!vars
  <2>1. CASE UNCHANGED <<accounts, organizations, requests>>
    BY <2>1
  <2>2. ASSUME NEW h \in Handlers, InsertOrganization(h)
        PROVE  [Contract!Next]_(Contract!vars)
    <3> DEFINE new == NewOrganization(call[h], input[h].op)
    <3>1. /\ UNCHANGED <<P, M>>
          /\ F' \subseteq F \cup {new.owner} /\ F \subseteq F'
          /\ new.origin # "request" => F' = F
      <4>1. /\ UNCHANGED <<accounts, requests>>
            /\ organizations' \in {organizations, organizations \cup {new}}
        BY <2>2 DEF InsertOrganization
      <4> HIDE DEF new
      <4> QED
        BY <4>1
    <3>2. /\ new.owner \in Address
          /\ new.origin = "request" => new.owner \in P \cup M
      <4>1. pc[h] = "co_insert"
        BY <2>2 DEF InsertOrganization
      <4>2. /\ new.owner = call[h].address
            /\ new.origin = "request" => input[h].op # "createOrganization"
        BY DEF NewOrganization
      <4> HIDE DEF new
      <4>3. call[h].address \in Address
        BY <4>1 DEF LocalInv, CallDoc
      <4>4. new.origin = "request" => Pending(call[h].address)
        BY <4>1, <4>2 DEF LocalInv, ApprovalInv, CreateOrganizationLabels
      <4> QED
        BY <4>2, <4>3, <4>4 DEF Pending, AccountsOf, RequestsFrom
    <3> HIDE DEF new, P, M, F
    <3>3. CASE F' = F
      BY <3>1, <3>3 DEF P, M, F
    <3>4. CASE F' # F
      <4>1. F' = F \cup {new.owner} /\ new.owner \in P \cup M
        BY <3>1, <3>2, <3>4
      <4> QED
        BY <1>0, <3>1, <3>2, <4>1 DEF P, M, F
    <3> QED
      BY <3>3, <3>4
  <2>3. ASSUME NEW h \in Handlers, InsertAccount(h)
        PROVE  [Contract!Next]_(Contract!vars)
    <3> DEFINE new == NewAccount(h, call[h])
    <3>1. call[h].address \in Address /\ new.address = call[h].address
      BY <2>3 DEF InsertAccount, LocalInv, CallDoc, NewAccount
    <3>2. accounts' = accounts \cup {new} /\ UNCHANGED <<requests, organizations>>
      BY <2>3 DEF InsertAccount
    <3> HIDE DEF new
    <3>3. M' = M \cup {call[h].address} /\ P' = P /\ F' = F
      BY <3>1, <3>2
    <3> QED
      BY <1>0, <3>1, <3>3
  <2>4. ASSUME NEW h \in Handlers, InsertRequest(h)
        PROVE  [Contract!Next]_(Contract!vars)
    <3> DEFINE new == NewRequest(h, input[h])
    <3>1. input[h].address \in Address /\ new.address = input[h].address
      BY <2>4, InputsAssumption DEF InsertRequest, LocalInv, InputDoc, NewRequest
    <3>2. requests' = requests \cup {new} /\ UNCHANGED <<accounts, organizations>>
      BY <2>4 DEF InsertRequest
    <3> HIDE DEF new
    <3>3. P' = P \cup {input[h].address} /\ M' = M /\ F' = F
      BY <3>1, <3>2
    <3> QED
      BY <1>0, <3>1, <3>3
  <2>5. ASSUME NEW h \in Handlers, UpdateOrganization(h)
        PROVE  [Contract!Next]_(Contract!vars)
    <3>1. \A o \in organizations : /\ Updated(o, input[h]).owner = o.owner
                                   /\ Updated(o, input[h]).origin = o.origin
      BY <2>5, UpdatedType, InputsAssumption DEF UpdateOrganization, TypeOK, LocalInv
    <3>2. F' = F
      BY <2>5, <3>1 DEF UpdateOrganization
    <3>3. UNCHANGED <<accounts, requests>>
      BY <2>5 DEF UpdateOrganization
    <3> QED
      BY <3>2, <3>3
  <2>6. ASSUME NEW h \in Handlers, DeleteRequest(h)
        PROVE  [Contract!Next]_(Contract!vars)
    <3> DEFINE a == input[h].address
    <3>1. a \in Address /\ a \in M
      BY <2>6, InputsAssumption DEF DeleteRequest, LocalInv, InputDoc, ApprovalInv, Housed
    <3>2. /\ UNCHANGED <<M, F>>
          /\ P' = P \/ (a \in P /\ P' = P \ {a})
      BY <2>6 DEF DeleteRequest, RequestsFrom
    <3> HIDE DEF a, M, P, F
    <3>3. CASE P' = P
      BY <3>2, <3>3 DEF M, P, F
    <3>4. CASE a \in P /\ P' = P \ {a}
      BY <1>0, <3>1, <3>2, <3>4 DEF M, P, F
    <3> QED
      BY <3>2, <3>3, <3>4
  <2>7. ASSUME NEW h \in Handlers, RefuseRequest(h)
        PROVE  [Contract!Next]_(Contract!vars)
    <3>1. \A r \in requests : [r EXCEPT !.refused = TRUE].address = r.address
      BY DEF TypeOK, RequestDoc
    <3>2. P' = P
      BY <2>7, <3>1 DEF RefuseRequest, RequestsFrom
    <3>3. UNCHANGED <<accounts, organizations>>
      BY <2>7 DEF RefuseRequest
    <3> QED
      BY <3>2, <3>3
  <2> QED
    BY <2>1, <2>2, <2>3, <2>4, <2>5, <2>6, <2>7, WritesOf
<1> QED
  BY <1>1, <1>2, Invariant, PTL DEF Spec, KeepsContract, Contract!Spec
--------------------------------------------------------------------------------
\* Who vouches for an account that a handler makes.

\* The labels at which an invite is made.
InviteLabels == {"iv_expired", "iv_account", "iv_invite", "iv_insert"}

\* Somebody with the address is in the organization.
Sponsored(address, organization) ==
    \E p \in accounts : p.address = address /\ p.organization = organization

\* An invite is to the organization of the one who made it, and so is a registration,
\* from the moment the handler has started: nobody ever changes his organization.
SponsorInv ==
    /\ \A v \in invites : Sponsored(v.createdBy, v.organizationId)
    /\ \A h \in Handlers :
         /\ pc[h] \in InviteLabels =>
              /\ input[h].op = "createOrganizationInvites"
              /\ Sponsored(call[h].by, call[h].organization)
         /\ pc[h] \in CreateAccountLabels /\ input[h].op # "organizationRequestApprove"
            => Sponsored(call[h].by, call[h].organization)

\* The creator that createAccount has read stays what it was, and what has been tested of
\* it stays true until the insertion: accounts are added here, and never changed.
CreatorInv ==
    \A h \in Handlers :
        /\ pc[h] \in {"ca_organization", "ca_insert"} =>
             /\ creator[h] \in AccountsOf(call[h].by)
             /\ EnsureAccessLevelLess(creator[h], call[h].level)
             /\ input[h].op # "organizationRequestApprove" =>
                  creator[h].organization = call[h].organization
        /\ pc[h] = "ca_insert" =>
             /\ OrganizationsWith(creator[h].organization) # {}
             /\ \/ HasPermission(creator[h], "super_account")
                \/ EnsureNoSuperPermission(call[h].perms)

\* Nobody comes to one of the labels, and who is there goes on with what it has.
Stays(labels) ==
    \A h \in Handlers : pc'[h] \in labels =>
        pc[h] \in labels /\ input'[h] = input[h] /\ call'[h] = call[h]

\* The steps that neither make an invite nor register an account.
LEMMA ElsewhereStays ==
    ASSUME TypeOK, LocalInv, NEW h \in Handlers,
           \/ CreateOrganizationStep(h) /\ ~InsertOrganization(h)
           \/ CheckNewTitleIsFree(h) \/ UpdateOrganization(h) \/ RequestStep(h) \/ Abort(h)
    PROVE  /\ UNCHANGED <<invites, details>>
           /\ Stays(InviteLabels) /\ Stays(CreateAccountLabels)
           /\ Stays(CreateAccountLabels \cup {"ac_delete"})
           /\ Stays({"ca_organization"}) /\ Stays({"ca_insert"}) /\ UNCHANGED creator
           /\ Stays({"ac_delete"})
           /\ \A g \in Handlers : pc[g] = "done" => pc'[g] = "done"
<1> USE DEF TypeOK, Stays, InviteLabels, CreateAccountLabels, Continue, db, local, Stopped
<1>1. CASE CreateOrganizationStep(h) /\ ~InsertOrganization(h)
  BY <1>1 DEF CreateOrganizationStep, CheckOwnerHasNoAccount, CheckTitleIsFree,
              CheckOwnerIsFree, GetNewOrganizationIdentifier, Check
<1>2. CASE CheckNewTitleIsFree(h) \/ UpdateOrganization(h) \/ Abort(h)
  BY <1>2 DEF CheckNewTitleIsFree, UpdateOrganization, Abort, Check
<1>3. CASE RequestStep(h)
  BY <1>3 DEF RequestStep, CheckRequest, RequestChecks, AfterRequestCheck, InsertRequest,
              FindRequestToApprove, DeleteRequest, FindRequestToRefuse, RefuseRequest, Check
<1> QED
  BY <1>1, <1>2, <1>3

\* Where a request starts.
LEMMA EntryOf ==
    ASSUME NEW op \in Ops
    PROVE  /\ Entry(op) \in InviteLabels => op = "createOrganizationInvites"
           /\ Entry(op) \in CreateAccountLabels => op = "createAccount"
           /\ Entry(op) \notin {"ca_organization", "ca_insert", "ac_delete"}
  BY DEF Ops, Entry, InviteLabels, CreateAccountLabels

\* Every step keeps SponsorInv.
LEMMA SponsorStep == TypeOK /\ LocalInv /\ SponsorInv /\ [Next]_vars => SponsorInv'
<1> SUFFICES ASSUME TypeOK, LocalInv, SponsorInv, [Next]_vars PROVE SponsorInv'
  OBVIOUS
<1>0. \A a, n : Sponsored(a, n) => Sponsored(a, n)'
  BY Monotone DEF Sponsored
<1> USE DEF TypeOK, SponsorInv
<1>1. ASSUME NEW h \in Handlers, StartAsUser(h) PROVE SponsorInv'
  <2>1. PICK i \in Inputs, p \in accounts :
           i.op \in UserOps /\ p.address = i.user /\ Begin(h, i, p.organization)
    BY <1>1 DEF StartAsUser, AccountsOf
  <2>2. CallFor(i, p.organization).by = i.user
        /\ CallFor(i, p.organization).organization = p.organization
    BY DEF CallFor
  <2>3. i.op \in Ops
    BY InputsAssumption DEF InputDoc
  <2> QED
    BY <1>0, <2>1, <2>2, <2>3, EntryOf DEF Begin, Continue, db, Sponsored
<1>2. ASSUME NEW h \in Handlers, StartAnonymously(h) PROVE SponsorInv'
  <2>1. PICK i \in Inputs : i.op \in Ops \ UserOps /\ Begin(h, i, 0)
    BY <1>2, InputsAssumption DEF StartAnonymously, InputDoc
  <2>2. Entry(i.op) \notin InviteLabels \cup CreateAccountLabels
    BY <2>1, EntryOf DEF UserOps
  <2> QED
    BY <1>0, <2>1, <2>2 DEF Begin, Continue, db
<1>3. ASSUME NEW h \in Handlers,
             \/ CreateOrganizationStep(h) /\ ~InsertOrganization(h)
             \/ CheckNewTitleIsFree(h) \/ UpdateOrganization(h) \/ RequestStep(h) \/ Abort(h)
      PROVE  SponsorInv'
  <2>1. UNCHANGED invites /\ Stays(InviteLabels) /\ Stays(CreateAccountLabels)
    BY <1>3, ElsewhereStays
  <2> QED
    BY <1>0, <2>1 DEF Stays
<1>4. ASSUME NEW h \in Handlers, InsertOrganization(h) PROVE SponsorInv'
  BY <1>0, <1>4 DEF InsertOrganization, AfterOrganization, Continue, local, LocalInv,
        CreateOrganizationLabels, InviteLabels, CreateAccountLabels
<1>5. ASSUME NEW h \in Handlers, CreateAccountStep(h) PROVE SponsorInv'
  <2>1. invites' = invites /\ Stays(InviteLabels) /\ Stays(CreateAccountLabels)
    BY <1>5 DEF Stays, CreateAccountStep, CheckAddressIsFree, CheckEmailIsFree, ReadCreator,
        CheckCreatorOrganization, InsertAccount, InsertDetail, AfterAccount, Check,
        Continue, db, local, LocalInv, InviteLabels, CreateAccountLabels
  <2> QED
    BY <1>0, <2>1 DEF Stays
<1>6. ASSUME NEW h \in Handlers,
             \/ DeleteExpired(h) \/ CheckInviteeHasNoAccount(h) \/ CheckInviteIsNew(h)
             \/ DeleteOrganizationInvite(h) \/ DeleteAcceptedInvite(h)
      PROVE  SponsorInv'
  <2>1. invites' \subseteq invites /\ Stays(InviteLabels) /\ Stays(CreateAccountLabels)
    BY <1>6 DEF DeleteExpired, CheckInviteeHasNoAccount, CheckInviteIsNew,
        DeleteOrganizationInvite, DeleteAcceptedInvite, Check, Continue, db, local,
        Stays, InviteLabels, CreateAccountLabels
  <2> QED
    BY <1>0, <2>1 DEF Stays
<1>7. ASSUME NEW h \in Handlers, InsertInvite(h) PROVE SponsorInv'
  <2>1. /\ NewInvite(h, call[h]).createdBy = call[h].by
        /\ NewInvite(h, call[h]).organizationId = call[h].organization
    BY DEF NewInvite
  <2>2. pc[h] = "iv_insert" /\ invites' = invites \cup {NewInvite(h, call[h])}
    BY <1>7 DEF InsertInvite
  <2>3. Stays(InviteLabels) /\ Stays(CreateAccountLabels)
    BY <1>7 DEF InsertInvite, Continue, local, Stays, InviteLabels, CreateAccountLabels
  <2> QED
    BY <1>0, <2>1, <2>2, <2>3 DEF Stays, InviteLabels
<1>8. ASSUME NEW h \in Handlers, FindInvite(h) PROVE SponsorInv'
  <2>1. \A v \in invites : /\ CallForInvite(call[h], v).by = v.createdBy
                           /\ CallForInvite(call[h], v).organization = v.organizationId
    BY DEF CallForInvite
  <2> QED
    BY <1>0, <1>8, <2>1 DEF FindInvite, Continue, db, InviteLabels, CreateAccountLabels,
        LocalInv
<1>9. ASSUME NEW v \in invites, Expire(v) PROVE SponsorInv'
  <2>1. /\ [v EXCEPT !.expired = TRUE].createdBy = v.createdBy
        /\ [v EXCEPT !.expired = TRUE].organizationId = v.organizationId
    BY DEF InviteDoc
  <2> QED
    BY <1>0, <1>9, <2>1 DEF Expire, local
<1>10. ASSUME NEW id \in keyInserts, StoreKey(id) \/ LoseKey(id) PROVE SponsorInv'
  BY <1>0, <1>10 DEF StoreKey, LoseKey, local
<1>11. CASE UNCHANGED vars
  BY <1>0, <1>11 DEF vars, db, local
<1> QED
  BY <1>1, <1>2, <1>3, <1>4, <1>5, <1>6, <1>7, <1>8, <1>9, <1>10, <1>11
     DEF Next, HandlerStep, InviteStep

\* Every step keeps CreatorInv.
LEMMA CreatorStep ==
    TypeOK /\ LocalInv /\ SponsorInv /\ CreatorInv /\ [Next]_vars => CreatorInv'
<1> SUFFICES ASSUME TypeOK, LocalInv, SponsorInv, CreatorInv, [Next]_vars PROVE CreatorInv'
  OBVIOUS
<1> DEFINE labels == {"ca_organization", "ca_insert"}
<1>1. /\ accounts \subseteq accounts'
      /\ \A n : OrganizationsWith(n) # {} => OrganizationsWith(n)' # {}
  BY Monotone DEF OrganizationsWith
<1> USE DEF TypeOK, AccountsOf
<1>2. ASSUME Stays(labels), UNCHANGED creator,
             \A h \in Handlers : pc'[h] \in labels => pc'[h] = pc[h]
      PROVE  CreatorInv'
  BY <1>1, <1>2 DEF CreatorInv, Stays
<1>3. ASSUME NEW h \in Handlers, StartAsUser(h) \/ StartAnonymously(h) PROVE CreatorInv'
  <2>1. PICK i \in Inputs : \E organization : Begin(h, i, organization)
    BY <1>3 DEF StartAsUser, StartAnonymously
  <2>2. Entry(i.op) \notin labels
    BY InputsAssumption, EntryOf DEF InputDoc
  <2> QED
    BY <1>2, <2>1, <2>2 DEF Begin, Continue, Stays
<1>4. ASSUME NEW h \in Handlers,
             \/ CreateOrganizationStep(h) /\ ~InsertOrganization(h)
             \/ CheckNewTitleIsFree(h) \/ UpdateOrganization(h) \/ RequestStep(h) \/ Abort(h)
      PROVE  CreatorInv'
  <2>1. UNCHANGED creator /\ Stays({"ca_organization"}) /\ Stays({"ca_insert"})
    BY <1>4, ElsewhereStays
  <2> QED
    BY <1>2, <2>1 DEF Stays
<1>5. ASSUME NEW h \in Handlers, InsertOrganization(h) PROVE CreatorInv'
  BY <1>2, <1>5 DEF InsertOrganization, AfterOrganization, Continue, local, Stays
<1>6. ASSUME NEW h \in Handlers, CheckAddressIsFree(h) \/ CheckEmailIsFree(h)
      PROVE  CreatorInv'
  BY <1>2, <1>6 DEF CheckAddressIsFree, CheckEmailIsFree, Check, Continue, local, Stays
<1>7. ASSUME NEW h \in Handlers, ReadCreator(h) PROVE CreatorInv'
  <2>1. CASE pc' = [pc EXCEPT ![h] = "failed"] /\ UNCHANGED creator
    BY <1>2, <1>7, <2>1 DEF ReadCreator, Stays
  <2>2. CASE \E c \in AccountsOf(call[h].by) :
               /\ AccountsOf(call[h].by) = {c}
               /\ MayCreateAccount(c, call[h])
               /\ creator' = [creator EXCEPT ![h] = c]
               /\ pc' = [pc EXCEPT ![h] = "ca_organization"]
    <3>1. PICK c \in AccountsOf(call[h].by) :
               /\ AccountsOf(call[h].by) = {c}
               /\ MayCreateAccount(c, call[h])
               /\ creator' = [creator EXCEPT ![h] = c]
               /\ pc' = [pc EXCEPT ![h] = "ca_organization"]
      BY <2>2
    <3>2. EnsureAccessLevelLess(c, call[h].level)
      BY <3>1 DEF MayCreateAccount
    <3>3. input[h].op # "organizationRequestApprove" => c.organization = call[h].organization
      BY <1>7, <3>1 DEF ReadCreator, SponsorInv, Sponsored, CreateAccountLabels
    <3>4. UNCHANGED <<accounts, organizations, input, call>>
      BY <1>7 DEF ReadCreator, db
    <3> QED
      BY <3>1, <3>2, <3>3, <3>4 DEF CreatorInv, OrganizationsWith
  <2> QED
    BY <1>7, <2>1, <2>2 DEF ReadCreator, Continue
<1>8. ASSUME NEW h \in Handlers, CheckCreatorOrganization(h) PROVE CreatorInv'
  <2>1. CASE pc' = [pc EXCEPT ![h] = "failed"]
    BY <1>2, <1>8, <2>1 DEF CheckCreatorOrganization, Check, local, Stays
  <2>2. CASE /\ MayCreateFor(OrganizationsWith(creator[h].organization), creator[h], call[h])
             /\ pc' = [pc EXCEPT ![h] = "ca_insert"]
    <3>1. /\ pc[h] = "ca_organization"
          /\ UNCHANGED <<accounts, organizations, input, call, creator>>
      BY <1>8 DEF CheckCreatorOrganization, Check, db, local
    <3>2. /\ OrganizationsWith(creator[h].organization) # {}
          /\ \/ HasPermission(creator[h], "super_account")
             \/ EnsureNoSuperPermission(call[h].perms)
      BY <2>2 DEF MayCreateFor
    <3> QED
      BY <2>2, <3>1, <3>2 DEF CreatorInv, OrganizationsWith
  <2> QED
    BY <1>8, <2>1, <2>2 DEF CheckCreatorOrganization, Check, Continue
<1>9. ASSUME NEW h \in Handlers, InsertAccount(h) \/ InsertDetail(h) PROVE CreatorInv'
  <2>1. AfterAccount(input[h].op) \notin labels \/ ~InsertDetail(h)
    BY DEF InsertDetail, LocalInv, CreateAccountLabels, AfterAccount
  <2> QED
    BY <1>2, <1>9, <2>1 DEF InsertAccount, InsertDetail, Continue, local, Stays
<1>10. ASSUME NEW h \in Handlers, InviteStep(h) PROVE CreatorInv'
  BY <1>2, <1>10 DEF InviteStep, DeleteExpired, CheckInviteeHasNoAccount, CheckInviteIsNew,
      InsertInvite, DeleteOrganizationInvite, FindInvite, DeleteAcceptedInvite, Check,
      Continue, local, Stays
<1>11. ASSUME NEW v \in invites, Expire(v) PROVE CreatorInv'
  BY <1>2, <1>11 DEF Expire, local, Stays
<1>12. ASSUME NEW id \in keyInserts, StoreKey(id) \/ LoseKey(id) PROVE CreatorInv'
  BY <1>2, <1>12 DEF StoreKey, LoseKey, local, Stays
<1>13. CASE UNCHANGED vars
  BY <1>2, <1>13 DEF vars, local, Stays
<1> QED
  BY <1>3, <1>4, <1>5, <1>6, <1>7, <1>8, <1>9, <1>10, <1>11, <1>12, <1>13
     DEF Next, HandlerStep, CreateAccountStep
\* Only InsertAccount makes an account, and it makes one.
LEMMA AccountsStep ==
    ASSUME [Next]_vars
    PROVE  \/ UNCHANGED accounts
           \/ \E h \in Handlers : /\ pc[h] = "ca_insert"
                                  /\ accounts' = accounts \cup {NewAccount(h, call[h])}
  BY WritesOf DEF InsertOrganization, InsertAccount, UpdateOrganization, InsertRequest,
                  DeleteRequest, RefuseRequest

\* Every step keeps NoEscalation.
LEMMA EscalationStep ==
    ASSUME TypeOK, LocalInv, CreatorInv, NoEscalation, [Next]_vars
    PROVE  NoEscalation'
<1>1. CASE UNCHANGED accounts
  BY <1>1 DEF NoEscalation, AccountsOf
<1>2. ASSUME NEW h \in Handlers, pc[h] = "ca_insert",
             accounts' = accounts \cup {NewAccount(h, call[h])}
      PROVE  NoEscalation'
  <2> DEFINE new == NewAccount(h, call[h])
  <2>1. /\ new.level = call[h].level /\ new.perms = call[h].perms
        /\ new.registeredBy = call[h].by
    BY DEF NewAccount
  <2>2. \E c \in AccountsOf(new.registeredBy) :
           /\ new.level = 0 \/ new.level < c.level
           /\ "super_account" \in new.perms => "super_account" \in c.perms
    <3>1. creator[h].level \in Nat /\ call[h].level \in Nat
      BY <1>2 DEF CreatorInv, AccountsOf, TypeOK, AccountDoc, LocalInv, CallDoc
    <3> HIDE DEF new
    <3> QED
      BY <1>2, <2>1, <3>1 DEF CreatorInv, EnsureAccessLevelLess, HasPermission,
                              EnsureNoSuperPermission
  <2> HIDE DEF new
  <2> QED
    BY <1>2, <2>2 DEF NoEscalation, AccountsOf, new
<1> QED
  BY <1>1, <1>2, AccountsStep

\* Every step keeps MemberOfOrganization.
LEMMA MemberStep ==
    ASSUME TypeOK, LocalInv, ApprovalInv, SponsorInv, CreatorInv, MemberOfOrganization,
           [Next]_vars
    PROVE  MemberOfOrganization'
<1> DEFINE Fits(a) ==
        /\ OrganizationsWith(a.organization) # {}
        /\ \/ \E c \in AccountsOf(a.registeredBy) : c.organization = a.organization
           \/ \E o \in OrganizationsWith(a.organization) : o.owner = a.address
<1>1. \A a : Fits(a) => Fits(a)'
  BY Monotone DEF AccountsOf, OrganizationsWith
<1>2. CASE UNCHANGED accounts
  BY <1>1, <1>2 DEF MemberOfOrganization
<1>3. ASSUME NEW h \in Handlers, pc[h] = "ca_insert",
             accounts' = accounts \cup {NewAccount(h, call[h])}
      PROVE  MemberOfOrganization'
  <2>1. PICK new : new = NewAccount(h, call[h])
    OBVIOUS
  <2>2. /\ new.address = call[h].address /\ new.organization = call[h].organization
        /\ new.registeredBy = call[h].by
    BY <2>1 DEF NewAccount
  <2>3. Fits(new)
    <3>1. CASE input[h].op = "organizationRequestApprove"
      <4>1. \E o \in organizations : /\ o.owner = call[h].address
                                     /\ o.organizationId = call[h].organization
        BY <1>3, <3>1 DEF ApprovalInv, CreateAccountLabels
      <4> QED
        BY <2>2, <4>1 DEF OrganizationsWith
    <3>2. CASE input[h].op # "organizationRequestApprove"
      BY <1>3, <2>2, <3>2 DEF CreatorInv
    <3> QED
      BY <3>1, <3>2
  <2> HIDE DEF Fits
  <2>4. Fits(new)' /\ accounts' = accounts \cup {new}
    BY <1>1, <1>3, <2>1, <2>3
  <2>5. \A a \in accounts' : a.id \in Handlers => Fits(a)'
    BY <1>1, <2>4 DEF MemberOfOrganization, Fits
  <2> QED
    BY <2>5 DEF MemberOfOrganization, Fits
<1> QED
  BY <1>2, <1>3, AccountsStep
--------------------------------------------------------------------------------
\* What an acceptance has taken from its invite.

\* The labels of an acceptance that has found its invite.
Accepting == CreateAccountLabels \cup {"ac_delete"}

\* An invite has the name of the handler that made it, which is through and makes no
\* other one.  So the invite that an acceptance has found is the one it deletes, unless
\* it is gone; and when it comes to that, its email and its organization are those
\* of an account.
InviteInv ==
    /\ \A v \in invites : pc[v.id] = "done"
    /\ \A v, w \in invites : v.id = w.id => v = w
    /\ \A h \in Handlers :
         /\ pc[h] \in Accepting /\ input[h].op = "acceptOrganizationInvite" =>
              /\ pc[input[h].invite] = "done"
              /\ \A v \in invites : v.id = input[h].invite =>
                   v.email = call[h].email /\ v.organizationId = call[h].organization
         /\ pc[h] = "ac_delete" =>
              \E d \in details, a \in accounts :
                 /\ d.email = call[h].email /\ a.address = d.address
                 /\ a.organization = call[h].organization

\* Nobody is through with a request and starts again.
DoneStays == \A h \in Handlers : pc[h] = "done" => pc'[h] = "done"

\* A step that makes no invite, and brings nobody to an acceptance or to its end, keeps
\* InviteInv.
LEMMA InviteFrame ==
    ASSUME TypeOK, LocalInv, InviteInv, [Next]_vars, DoneStays, invites' \subseteq invites,
           details \subseteq details', Stays(Accepting), Stays({"ac_delete"})
    PROVE  InviteInv'
<1>1. accounts \subseteq accounts'
  BY Monotone
<1>2. \A v \in invites : v.id \in Handlers
  BY DEF TypeOK, InviteDoc
<1>3. \A h \in Handlers : pc[h] \in Accepting => input[h].invite \in Handlers
  BY InputsAssumption DEF TypeOK, LocalInv, InputDoc, PC, Accepting, CreateAccountLabels
<1>4. /\ \A v \in invites' : pc'[v.id] = "done"
      /\ \A v, w \in invites' : v.id = w.id => v = w
  BY <1>2 DEF InviteInv, DoneStays
<1>5. ASSUME NEW h \in Handlers, pc'[h] \in Accepting, input'[h].op = "acceptOrganizationInvite"
      PROVE  /\ pc'[input'[h].invite] = "done"
             /\ \A v \in invites' : v.id = input'[h].invite =>
                  v.email = call'[h].email /\ v.organizationId = call'[h].organization
  BY <1>3, <1>5 DEF InviteInv, DoneStays, Stays
<1>6. ASSUME NEW h \in Handlers, pc'[h] = "ac_delete"
      PROVE  \E d \in details', a \in accounts' :
                 /\ d.email = call'[h].email /\ a.address = d.address
                 /\ a.organization = call'[h].organization
  BY <1>1, <1>6 DEF InviteInv, Stays
<1> QED
  BY <1>4, <1>5, <1>6 DEF InviteInv

\* Nor does a step in which one handler goes on, unless it gets to an acceptance or to
\* its end unprepared.
LEMMA InviteMove ==
    ASSUME TypeOK, LocalInv, InviteInv, NEW h \in Handlers,
           UNCHANGED <<accounts, invites, input, call>>, details \subseteq details',
           \A g \in Handlers \ {h} : pc'[g] = pc[g],
           pc[h] # "done",
           pc'[h] \in Accepting /\ input[h].op = "acceptOrganizationInvite" =>
               pc[h] \in Accepting,
           pc'[h] = "ac_delete" => \E d \in details', a \in accounts :
               /\ d.email = call[h].email /\ a.address = d.address
               /\ a.organization = call[h].organization
    PROVE  InviteInv'
<1>1. \A v \in invites : v.id \in Handlers
  BY DEF TypeOK, InviteDoc
<1>2. \A g \in Handlers : pc[g] \in Accepting => input[g].invite \in Handlers
  BY InputsAssumption DEF LocalInv, InputDoc, Accepting, CreateAccountLabels
<1>3. \A g \in Handlers : pc[g] = "done" => pc'[g] = "done"
  OBVIOUS
<1>4. /\ \A v \in invites' : pc'[v.id] = "done"
      /\ \A v, w \in invites' : v.id = w.id => v = w
  BY <1>1, <1>3 DEF InviteInv
<1>5. ASSUME NEW g \in Handlers, pc'[g] \in Accepting,
             input'[g].op = "acceptOrganizationInvite"
      PROVE  /\ pc'[input'[g].invite] = "done"
             /\ \A v \in invites' : v.id = input'[g].invite =>
                  v.email = call'[g].email /\ v.organizationId = call'[g].organization
  <2>1. pc[g] \in Accepting
    BY <1>5
  <2> QED
    BY <1>2, <1>3, <1>5, <2>1 DEF InviteInv
<1>6. ASSUME NEW g \in Handlers, pc'[g] = "ac_delete"
      PROVE  \E d \in details', a \in accounts' :
                 /\ d.email = call'[g].email /\ a.address = d.address
                 /\ a.organization = call'[g].organization
  <2>1. CASE g = h
    BY <1>6, <2>1
  <2>2. CASE g # h
    BY <1>6, <2>2 DEF InviteInv
  <2> QED
    BY <2>1, <2>2
<1> QED
  BY <1>4, <1>5, <1>6 DEF InviteInv

\* Every step keeps InviteInv.
LEMMA InvitesStep ==
    TypeOK /\ LocalInv /\ ApprovalInv /\ SponsorInv /\ InviteInv /\ [Next]_vars => InviteInv'
<1> SUFFICES ASSUME TypeOK, LocalInv, ApprovalInv, SponsorInv, InviteInv, [Next]_vars
             PROVE  InviteInv'
  OBVIOUS
<1> DEFINE Frame == /\ DoneStays /\ invites' \subseteq invites /\ details \subseteq details'
                    /\ Stays(Accepting) /\ Stays({"ac_delete"})
<1> USE DEF TypeOK, DoneStays, Accepting
<1>1. ASSUME NEW h \in Handlers, StartAsUser(h) PROVE InviteInv'
  <2>1. PICK i \in Inputs : \E organization : i.op \in UserOps /\ Begin(h, i, organization)
    BY <1>1 DEF StartAsUser
  <2>2. i.op \in Ops
    BY InputsAssumption DEF InputDoc
  <2>3. pc[h] = "idle" /\ i.op # "acceptOrganizationInvite"
    BY <1>1, <2>1 DEF StartAsUser, UserOps
  <2>4. Entry(i.op) # "ac_delete"
    BY <2>2, EntryOf
  <2> QED
    BY <2>1, <2>3, <2>4 DEF InviteInv, Begin, Continue, db
<1>2. ASSUME NEW h \in Handlers, StartAnonymously(h) PROVE Frame
  <2>1. PICK i \in Inputs : i.op \in Ops \ UserOps /\ Begin(h, i, 0)
    BY <1>2, InputsAssumption DEF StartAnonymously, InputDoc
  <2>2. Entry(i.op) \notin Accepting
    BY <2>1, EntryOf DEF UserOps
  <2>3. pc[h] = "idle"
    BY <1>2 DEF StartAnonymously
  <2> QED
    BY <2>1, <2>2, <2>3 DEF Begin, Continue, db, Stays
<1>3. ASSUME NEW h \in Handlers,
             \/ CreateOrganizationStep(h) /\ ~InsertOrganization(h)
             \/ CheckNewTitleIsFree(h) \/ UpdateOrganization(h) \/ RequestStep(h) \/ Abort(h)
      PROVE  Frame
  BY <1>3, ElsewhereStays
<1>4. ASSUME NEW h \in Handlers, InsertOrganization(h) PROVE InviteInv'
  <2>1. /\ UNCHANGED <<accounts, details, invites, input, call>>
        /\ pc[h] = "co_insert" /\ input[h].op # "acceptOrganizationInvite"
        /\ \A g \in Handlers \ {h} : pc'[g] = pc[g]
        /\ pc'[h] # "ac_delete"
    BY <1>4 DEF InsertOrganization, AfterOrganization, Continue, local, LocalInv,
                CreateOrganizationLabels
  <2> QED
    BY <2>1, InviteMove
<1>5. ASSUME NEW h \in Handlers,
             \/ CheckAddressIsFree(h) \/ CheckEmailIsFree(h) \/ ReadCreator(h)
             \/ CheckCreatorOrganization(h) \/ InsertAccount(h)
      PROVE  Frame
  BY <1>5 DEF CheckAddressIsFree, CheckEmailIsFree, ReadCreator, CheckCreatorOrganization,
              InsertAccount, Check, Continue, db, local, Stays, CreateAccountLabels
<1>6. ASSUME NEW h \in Handlers, InsertDetail(h) PROVE InviteInv'
  <2>1. CASE pc' = [pc EXCEPT ![h] = "failed"] /\ UNCHANGED details
    <3>1. Frame
      BY <1>6, <2>1 DEF InsertDetail, local, Stays, CreateAccountLabels
    <3> QED
      BY <3>1, InviteFrame
  <2>2. CASE /\ details' = details \cup {[address |-> call[h].address, email |-> call[h].email]}
             /\ pc' = [pc EXCEPT ![h] = AfterAccount(input[h].op)]
    <3>1. \E d \in details', a \in accounts' :
             /\ d.email = call[h].email /\ a.address = d.address
             /\ a.organization = call[h].organization
      <4>1. pc[h] = "ca_detail" /\ UNCHANGED accounts
        BY <1>6 DEF InsertDetail
      <4>2. PICK a \in accounts : /\ a.address = call[h].address
                                  /\ a.organization = call[h].organization
        BY <4>1 DEF ApprovalInv
      <4>3. PICK d : d = [address |-> call[h].address, email |-> call[h].email]
        OBVIOUS
      <4>4. d.address = call[h].address /\ d.email = call[h].email
        BY <4>3
      <4>5. d \in details'
        BY <2>2, <4>3
      <4> QED
        BY <4>1, <4>2, <4>4, <4>5
    <3>2. /\ UNCHANGED <<accounts, invites, input, call>> /\ details \subseteq details'
          /\ pc[h] = "ca_detail"
          /\ \A g \in Handlers \ {h} : pc'[g] = pc[g]
      BY <1>6, <2>2 DEF InsertDetail, local
    <3> QED
      BY <3>1, <3>2, InviteMove DEF CreateAccountLabels
  <2> QED
    BY <1>6, <2>1, <2>2 DEF InsertDetail, Continue
<1>7. ASSUME NEW h \in Handlers,
             \/ DeleteExpired(h) \/ CheckInviteeHasNoAccount(h) \/ CheckInviteIsNew(h)
             \/ DeleteOrganizationInvite(h) \/ DeleteAcceptedInvite(h)
      PROVE  Frame
  BY <1>7 DEF DeleteExpired, CheckInviteeHasNoAccount, CheckInviteIsNew,
      DeleteOrganizationInvite, DeleteAcceptedInvite, Check, Continue, db, local, Stays,
      CreateAccountLabels
<1>8. ASSUME NEW h \in Handlers, InsertInvite(h) PROVE InviteInv'
  <2>1. NewInvite(h, call[h]).id = h
    BY DEF NewInvite
  <2>2. /\ invites' = invites \cup {NewInvite(h, call[h])}
        /\ pc[h] = "iv_insert" /\ pc' = [pc EXCEPT ![h] = "done"]
        /\ UNCHANGED <<accounts, details, input, call>>
    BY <1>8 DEF InsertInvite, Continue, local
  <2>3. \A g \in Handlers : pc[g] \in Accepting => input[g].invite \in Handlers
    BY InputsAssumption DEF LocalInv, InputDoc, CreateAccountLabels
  <2> QED
    BY <2>1, <2>2, <2>3 DEF InviteInv, InviteDoc, CreateAccountLabels
<1>9. ASSUME NEW h \in Handlers, FindInvite(h) PROVE InviteInv'
  <2>1. CASE pc' = [pc EXCEPT ![h] = "failed"] /\ UNCHANGED call
    <3>1. Frame
      BY <1>9, <2>1 DEF FindInvite, db, Stays, CreateAccountLabels
    <3> QED
      BY <3>1, InviteFrame
  <2>2. CASE \E v \in invites : /\ v.id = input[h].invite
                               /\ call' = [call EXCEPT ![h] = CallForInvite(@, v)]
                               /\ pc' = [pc EXCEPT ![h] = "ca_address"]
    <3>1. PICK v \in invites : /\ v.id = input[h].invite
                               /\ call' = [call EXCEPT ![h] = CallForInvite(@, v)]
                               /\ pc' = [pc EXCEPT ![h] = "ca_address"]
      BY <2>2
    <3>2. /\ CallForInvite(call[h], v).email = v.email
          /\ CallForInvite(call[h], v).organization = v.organizationId
      BY DEF CallForInvite
    <3>3. pc[h] = "ac_find" /\ UNCHANGED <<accounts, details, invites, input>>
      BY <1>9 DEF FindInvite, db
    <3>4. \A g \in Handlers : pc[g] \in Accepting => input[g].invite \in Handlers
      BY InputsAssumption DEF LocalInv, InputDoc, CreateAccountLabels
    <3> QED
      BY <3>1, <3>2, <3>3, <3>4 DEF InviteInv, InviteDoc, CreateAccountLabels
  <2> QED
    BY <1>9, <2>1, <2>2 DEF FindInvite, Continue
<1>10. ASSUME NEW v \in invites, Expire(v) PROVE InviteInv'
  <2>1. PICK w : w = [v EXCEPT !.expired = TRUE]
    OBVIOUS
  <2>2. w.id = v.id /\ w.email = v.email /\ w.organizationId = v.organizationId
    BY <2>1 DEF InviteDoc
  <2>3. /\ invites' = (invites \ {v}) \cup {w}
        /\ UNCHANGED <<accounts, details, pc, input, call>>
    BY <1>10, <2>1 DEF Expire, local
  <2> QED
    BY <2>2, <2>3 DEF InviteInv
<1>11. ASSUME NEW id \in keyInserts, StoreKey(id) \/ LoseKey(id) PROVE Frame
  BY <1>11 DEF StoreKey, LoseKey, local, Stays
<1>12. ASSUME UNCHANGED vars PROVE Frame
  BY <1>12 DEF vars, db, local, Stays
<1>13. Frame => InviteInv'
  BY InviteFrame
<1> HIDE DEF Frame
<1> QED
  BY <1>1, <1>2, <1>3, <1>4, <1>5, <1>6, <1>7, <1>8, <1>9, <1>10, <1>11, <1>12, <1>13
     DEF Next, HandlerStep, CreateAccountStep, InviteStep

InvitesKept == invites \subseteq invites'

\* Four actions take an invite away, or replace it.
LEMMA InvitesOf ==
    [Next]_vars =>
        \/ InvitesKept
        \/ \E h \in Handlers : \/ DeleteExpired(h) \/ DeleteOrganizationInvite(h)
                              \/ DeleteAcceptedInvite(h)
        \/ \E u \in invites : Expire(u)
<1> SUFFICES ASSUME [Next]_vars,
                    ~ \E h \in Handlers : \/ DeleteExpired(h) \/ DeleteOrganizationInvite(h)
                                         \/ DeleteAcceptedInvite(h),
                    ~ \E u \in invites : Expire(u)
             PROVE  InvitesKept
  OBVIOUS
<1> USE DEF InvitesKept
<1>1. ASSUME NEW h \in Handlers, StartAsUser(h) \/ StartAnonymously(h) PROVE InvitesKept
  BY <1>1 DEF StartAsUser, StartAnonymously, Begin, db
<1>2. ASSUME NEW h \in Handlers, CreateOrganizationStep(h) PROVE InvitesKept
  BY <1>2 DEF CreateOrganizationStep, CheckOwnerHasNoAccount, CheckTitleIsFree,
              CheckOwnerIsFree, GetNewOrganizationIdentifier, InsertOrganization, Check, db
<1>3. ASSUME NEW h \in Handlers, CreateAccountStep(h) PROVE InvitesKept
  BY <1>3 DEF CreateAccountStep, CheckAddressIsFree, CheckEmailIsFree, ReadCreator,
              CheckCreatorOrganization, InsertAccount, InsertDetail, Check, db
<1>4. ASSUME NEW h \in Handlers,
             CheckNewTitleIsFree(h) \/ UpdateOrganization(h) \/ Abort(h)
      PROVE  InvitesKept
  BY <1>4 DEF CheckNewTitleIsFree, UpdateOrganization, Abort, Check, db
<1>5. ASSUME NEW h \in Handlers, RequestStep(h) PROVE InvitesKept
  BY <1>5 DEF RequestStep, CheckRequest, InsertRequest, FindRequestToApprove,
              DeleteRequest, FindRequestToRefuse, RefuseRequest, Check, db
<1>6. ASSUME NEW h \in Handlers,
             \/ CheckInviteeHasNoAccount(h) \/ CheckInviteIsNew(h) \/ InsertInvite(h)
             \/ FindInvite(h)
      PROVE  InvitesKept
  BY <1>6 DEF CheckInviteeHasNoAccount, CheckInviteIsNew, InsertInvite, FindInvite, Check, db
<1>7. ASSUME NEW id \in keyInserts, StoreKey(id) \/ LoseKey(id) PROVE InvitesKept
  BY <1>7 DEF StoreKey, LoseKey
<1>8. CASE UNCHANGED vars
  BY <1>8 DEF vars, db
<1> QED
  BY <1>1, <1>2, <1>3, <1>4, <1>5, <1>6, <1>7, <1>8 DEF Next, HandlerStep, InviteStep

\* What the invariant IInv leaves out, of the memberships and the invites.
MemberInv ==
    /\ SponsorInv /\ CreatorInv /\ NoEscalation /\ MemberOfOrganization
    /\ InviteInv

\* It holds for ever.
LEMMA MemberInvariant == Spec => []MemberInv
<1>1. Init => MemberInv
  <2> SUFFICES ASSUME Init PROVE MemberInv
    OBVIOUS
  <2>1. \A a \in accounts : a.id \notin Handlers
    BY SeedAssumption, IdAssumption DEF Init
  <2>2. invites = {} /\ \A h \in Handlers : pc[h] = "idle"
    BY DEF Init
  <2> QED
    BY <2>1, <2>2 DEF MemberInv, SponsorInv, CreatorInv, NoEscalation, MemberOfOrganization,
                      InviteInv, InviteLabels, CreateAccountLabels, Accepting
<1>2. IInv /\ MemberInv /\ [Next]_vars => MemberInv'
  BY SponsorStep, CreatorStep, EscalationStep, MemberStep, InvitesStep DEF IInv, MemberInv
<1> QED
  BY <1>1, <1>2, Invariant, PTL DEF Spec

\* Nobody hands out more than he has: whoever registered an account stands above it, and
\* is a super account if it is one.  createAccount tests a creator that it has read some
\* awaits before the insertion, and another account of the creator's address may have come
\* in between; but levels and permissions that an account was inserted with stay.
THEOREM NothingEscalates == Spec => []NoEscalation
<1>1. MemberInv => NoEscalation
  BY DEF MemberInv
<1> QED
  BY <1>1, MemberInvariant, PTL

\* Every account that createAccount makes is in an organization that exists: that of the
\* account that registered it, or sent the invite, or one that its address owns.
THEOREM MembersHoused == Spec => []MemberOfOrganization
<1>1. MemberInv => MemberOfOrganization
  BY DEF MemberInv
<1> QED
  BY <1>1, MemberInvariant, PTL

\* acceptOrganizationInvite deletes an invite only when its email has an account in the
\* organization that sent it; apart from that an invite goes when it has expired, or
\* deleteOrganizationInvite names it.
THEOREM InvitesServed == Spec => InviteUsedUpOnlyForAccount
<1> DEFINE A == \A v \in invites : (\A w \in invites' : w.id # v.id) =>
                  \/ v.expired
                  \/ \E h \in Handlers : pc[h] = "iv_delete" /\ input[h].invite = v.id
                  \/ \E d \in details, a \in accounts :
                       /\ d.email = v.email /\ a.address = d.address
                       /\ a.organization = v.organizationId
<1>1. ASSUME IInv, MemberInv, [Next]_vars
      PROVE  [A]_vars
  <2> SUFFICES ASSUME NEW v \in invites, \A w \in invites' : w.id # v.id
               PROVE  \/ v.expired
                      \/ \E h \in Handlers : pc[h] = "iv_delete" /\ input[h].invite = v.id
                      \/ \E d \in details, a \in accounts :
                           /\ d.email = v.email /\ a.address = d.address
                           /\ a.organization = v.organizationId
    OBVIOUS
  <2>1. v \notin invites'
    OBVIOUS
  <2>2. ASSUME NEW h \in Handlers, DeleteExpired(h) PROVE v.expired
    BY <2>1, <2>2 DEF DeleteExpired
  <2>3. ASSUME NEW h \in Handlers, DeleteOrganizationInvite(h)
        PROVE  pc[h] = "iv_delete" /\ input[h].invite = v.id
    BY <2>1, <2>3 DEF DeleteOrganizationInvite
  <2>4. ASSUME NEW h \in Handlers, DeleteAcceptedInvite(h)
        PROVE  \E d \in details, a \in accounts :
                  /\ d.email = v.email /\ a.address = d.address
                  /\ a.organization = v.organizationId
    <3>1. v.id = input[h].invite /\ pc[h] = "ac_delete"
      BY <2>1, <2>4 DEF DeleteAcceptedInvite
    <3>2. input[h].op = "acceptOrganizationInvite"
      BY <1>1, <3>1 DEF IInv, LocalInv
    <3> QED
      BY <1>1, <3>1, <3>2 DEF MemberInv, InviteInv, Accepting
  <2>5. ASSUME NEW u \in invites, Expire(u) PROVE FALSE
    <3>1. [u EXCEPT !.expired = TRUE].id = u.id
      BY <1>1 DEF IInv, TypeOK, InviteDoc
    <3> QED
      BY <2>1, <2>5, <3>1 DEF Expire
  <2>6. InvitesKept \/ (\E h \in Handlers : \/ DeleteExpired(h) \/ DeleteOrganizationInvite(h)
                                            \/ DeleteAcceptedInvite(h))
        \/ (\E u \in invites : Expire(u))
    BY <1>1, InvitesOf
  <2> QED
    BY <2>1, <2>2, <2>3, <2>4, <2>5, <2>6 DEF InvitesKept
<1> QED
  BY <1>1, Invariant, MemberInvariant, PTL DEF Spec, InviteUsedUpOnlyForAccount
================================================================================
