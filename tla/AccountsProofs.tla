---------------------------- MODULE AccountsProofs ----------------------------
(***************************************************************************)
(* Theorems about Accounts, for any accounts, requests and handlers.       *)
(*                                                                         *)
(* What a handler writes is what it read some steps before with the fields *)
(* of its request, so an invariant of the accounts is kept only if it also *)
(* holds of the documents that the handlers hold: LocalInv says so of each *)
(* at the labels where it will still be used.                              *)
(***************************************************************************)
EXTENDS Accounts, TLAPS

\* The bounds of LevelsGrantedFromAbove and SuperFromWithin, for any document
\* of the account with address a.
LevelBound(a, level) ==
    \/ level <= InitAccounts[a].level
    \/ \E b \in Registered :
         /\ InitAccounts[b].organization = InitAccounts[a].organization
         /\ level < InitAccounts[b].level

SuperBound(a, perms) ==
    "super_account" \in perms =>
        \E b \in Registered :
            /\ InitAccounts[b].organization = InitAccounts[a].organization
            /\ "super_account" \in InitAccounts[b].perms

\* A document that the account with address a has, or once had.
Genuine(a, doc) ==
    /\ doc \in AccountDoc
    /\ doc.address = a
    /\ doc.organization = InitAccounts[a].organization
    /\ LevelBound(a, doc.level)
    /\ SuperBound(a, doc.perms)

\* What DetailWrittenFromWithin says of one step.
WrittenFromWithin(a) ==
    \E h \in Handlers :
        /\ pc[h] = "detail" /\ input[h].address = a
        /\ \/ accounts[input[h].user].organization = accounts[a].organization
           \/ "super_account" \in principal[h].perms
DetailWriter ==
    \A a \in Registered : details'[a] # details[a] => WrittenFromWithin(a)

HoldsModifier == {"target", "organization", "write"}
HoldsTarget == {"organization", "write"}

LocalInv(h) ==
    /\ pc[h] \notin Stopped =>
         /\ input[h] \in Inputs
         /\ input[h].user \in Registered
         /\ principal[h] \in AccountDoc
         /\ principal[h].organization = InitAccounts[input[h].user].organization
    /\ pc[h] \in HoldsModifier => Genuine(input[h].user, modifier[h])
    /\ pc[h] \in HoldsTarget =>
         /\ input[h].address \in Registered
         /\ Genuine(input[h].address, target[h])
         /\ modifier[h].organization = target[h].organization
         /\ input[h].level # None => LevelBound(input[h].address, input[h].level)
    /\ pc[h] = "write" /\ input[h].perms # None =>
         SuperBound(input[h].address, input[h].perms)
    /\ pc[h] \in {"detail", "answer"} => input[h].address \in Registered
    /\ pc[h] = "detail" =>
         \/ InitAccounts[input[h].user].organization
              = InitAccounts[input[h].address].organization
         \/ "super_account" \in principal[h].perms

IInv ==
    /\ TypeOK
    /\ \A a \in Registered : Genuine(a, accounts[a])
    /\ \A h \in Handlers : LocalInv(h)

--------------------------------------------------------------------------------
\* The join gives an account its detail's fields and leaves the rest.
LEMMA JoinedGenuine ==
    ASSUME IInv, NEW a \in Registered
    PROVE  Genuine(a, Joined(a))
<1>1. Genuine(a, accounts[a]) /\ details[a] \in DetailDoc \cup {None}
  BY DEF IInv, TypeOK
<1>2. /\ Joined(a) \in AccountDoc
      /\ Joined(a).address = accounts[a].address
      /\ Joined(a).organization = accounts[a].organization
      /\ Joined(a).level = accounts[a].level
      /\ Joined(a).perms = accounts[a].perms
  BY <1>1 DEF Genuine, Joined, Merge, AccountDoc, DetailDoc
<1> QED BY <1>1, <1>2 DEF Genuine

\* A request is a record, with the fields that InputsAssumption gives it.
LEMMA InputTypes ==
    ASSUME NEW i \in Inputs
    PROVE  /\ i.level \in Nat \cup {None}
           /\ i.perms \in (SUBSET PermissionName) \cup {None}
           /\ i.active \in BOOLEAN \cup {None}
           /\ i.name \in Name \cup {None} /\ i.email \in Email \cup {None}
BY InputsAssumption DEF InputDoc

\* Whatever level the checks let through is below one that was there.
LEMMA AllowedLevel ==
    ASSUME NEW a \in Registered, NEW u \in Registered,
           NEW m, Genuine(u, m), NEW t, Genuine(a, t), NEW i \in Inputs,
           MayModify(m, t, i), i.level # None
    PROVE  LevelBound(a, i.level)
<1>1. i.level \in Nat
  BY InputTypes
<1>2. m.level \in Nat /\ InitAccounts[a].level \in Nat /\ InitAccounts[u].level \in Nat
  BY AccountsAssumption DEF Genuine, AccountDoc
<1>3. InitAccounts[u].organization = InitAccounts[a].organization
  BY DEF Genuine, MayModify, EnsureSameOrganization
<1>4. i.level = 0 \/ i.level < m.level
  BY <1>1, <1>2 DEF MayModify, EnsureAccessLevelLess
<1>5. CASE i.level = 0
  BY <1>5, <1>2 DEF LevelBound
<1>6. CASE i.level < m.level
  <2>1. CASE m.level <= InitAccounts[u].level
    BY <1>1, <1>2, <1>3, <1>6, <2>1 DEF LevelBound
  <2>2. CASE \E b \in Registered :
               /\ InitAccounts[b].organization = InitAccounts[u].organization
               /\ m.level < InitAccounts[b].level
    <3>1. PICK b \in Registered :
               /\ InitAccounts[b].organization = InitAccounts[u].organization
               /\ m.level < InitAccounts[b].level
      BY <2>2
    <3>2. InitAccounts[b].level \in Nat
      BY AccountsAssumption DEF AccountDoc
    <3>3. i.level < InitAccounts[b].level
      BY <1>1, <1>2, <1>6, <3>1, <3>2
    <3> QED BY <1>3, <3>1, <3>3 DEF LevelBound
  <2> QED BY <2>1, <2>2 DEF Genuine, LevelBound
<1> QED BY <1>4, <1>5, <1>6

\* What a modification writes is genuine again.
LEMMA ModifiedGenuine ==
    ASSUME NEW a \in Registered, NEW t, Genuine(a, t), NEW i \in Inputs,
           i.level # None => LevelBound(a, i.level),
           i.perms # None => SuperBound(a, i.perms)
    PROVE  Genuine(a, Modified(t, i))
<1>1. /\ Modified(t, i) \in AccountDoc
      /\ Modified(t, i).address = t.address
      /\ Modified(t, i).organization = t.organization
      /\ Modified(t, i).level = IF i.level = None THEN t.level ELSE i.level
      /\ Modified(t, i).perms = IF i.perms = None THEN t.perms ELSE i.perms
  BY InputTypes DEF Genuine, Modified, Given, AccountDoc
<1> QED BY <1>1 DEF Genuine

--------------------------------------------------------------------------------
LEMMA InitIInv == Init => IInv
<1> SUFFICES ASSUME Init PROVE IInv
  OBVIOUS
<1>1. TypeOK
  BY AccountsAssumption DEF Init, TypeOK, PC, Stopped
<1>2. ASSUME NEW a \in Registered PROVE Genuine(a, accounts[a])
  <2>1. InitAccounts[a] \in AccountDoc /\ InitAccounts[a].address = a
    BY AccountsAssumption
  <2>2. InitAccounts[a].level \in Nat
    BY <2>1 DEF AccountDoc
  <2>3. LevelBound(a, InitAccounts[a].level) /\ SuperBound(a, InitAccounts[a].perms)
    BY <2>2 DEF LevelBound, SuperBound
  <2> QED BY <2>1, <2>3 DEF Init, Genuine
<1>3. ASSUME NEW h \in Handlers PROVE LocalInv(h)
  BY DEF Init, LocalInv, Stopped, HoldsModifier, HoldsTarget
<1> QED BY <1>1, <1>2, <1>3 DEF IInv

\* A step of one handler that writes no account: the other handlers keep what
\* they hold, and IInv is a matter of types and of that handler.
LEMMA OtherHandlers ==
    ASSUME IInv, NEW h \in Handlers, TypeOK', UNCHANGED accounts, LocalInv(h)',
           \A g \in Handlers \ {h} :
              /\ pc'[g] = pc[g] /\ input'[g] = input[g] /\ principal'[g] = principal[g]
              /\ modifier'[g] = modifier[g] /\ target'[g] = target[g]
    PROVE  IInv'
<1>1. ASSUME NEW g \in Handlers PROVE LocalInv(g)'
  BY <1>1 DEF IInv, LocalInv
<1>2. \A a \in Registered : Genuine(a, accounts[a])'
  BY DEF IInv, Genuine, LevelBound, SuperBound
<1> QED BY <1>1, <1>2 DEF IInv

--------------------------------------------------------------------------------
LEMMA TypeStep == IInv /\ [Next]_vars => TypeOK'
<1> SUFFICES ASSUME IInv, [Next]_vars PROVE TypeOK'
  OBVIOUS
<1> USE DEF IInv, TypeOK, PC, Stopped, Continue
<1>1. ASSUME NEW h \in Handlers, Start(h) PROVE TypeOK'
  <2>1. PICK i \in Inputs :
           /\ i.user \in Registered
           /\ input' = [input EXCEPT ![h] = i]
           /\ principal' = [principal EXCEPT ![h] = accounts[i.user]]
           /\ pc' = [pc EXCEPT ![h] = IF i.op = "modifyAccount" THEN "modifier"
                                                                 ELSE "access"]
    BY <1>1 DEF Start
  <2>2. input' \in [Handlers -> Inputs \cup {None}]
    BY <2>1
  <2>3. principal' \in [Handlers -> AccountDoc \cup {None}] /\ pc' \in [Handlers -> PC]
    BY <2>1
  <2> QED BY <1>1, <2>2, <2>3 DEF Start
<1>2. ASSUME NEW h \in Handlers, ReadModifier(h) PROVE TypeOK'
  <2>1. Joined(input[h].user) \in AccountDoc
    BY <1>2, JoinedGenuine DEF ReadModifier, LocalInv, Genuine
  <2> QED BY <1>2, <2>1 DEF ReadModifier
<1>3. ASSUME NEW h \in Handlers, ReadTarget(h) PROVE TypeOK'
  <2>1. input[h].address \in Registered => Joined(input[h].address) \in AccountDoc
    BY JoinedGenuine DEF Genuine
  <2> QED BY <1>3, <2>1 DEF ReadTarget
<1>4. ASSUME NEW h \in Handlers, ReadOrganization(h) PROVE TypeOK'
  BY <1>4 DEF ReadOrganization, read
<1>5. ASSUME NEW h \in Handlers, WriteAccount(h) PROVE TypeOK'
  <2>1. /\ input[h] \in Inputs /\ input[h].address \in Registered
        /\ Genuine(input[h].address, target[h])
        /\ input[h].level # None => LevelBound(input[h].address, input[h].level)
        /\ input[h].perms # None => SuperBound(input[h].address, input[h].perms)
    BY <1>5 DEF WriteAccount, LocalInv, HoldsTarget
  <2>2. Modified(target[h], input[h]) \in AccountDoc
    BY <2>1, ModifiedGenuine DEF Genuine
  <2> QED BY <1>5, <2>2 DEF WriteAccount, read
<1>6. ASSUME NEW h \in Handlers, CheckAccess(h) PROVE TypeOK'
  BY <1>6 DEF CheckAccess, read
<1>7. ASSUME NEW h \in Handlers, UpdateDetail(h) PROVE TypeOK'
  <2>1. input[h] \in Inputs /\ input[h].address \in Registered
    BY <1>7 DEF UpdateDetail, LocalInv
  <2>2. Updated(details[input[h].address], input[h]) \in DetailDoc
    BY <2>1, InputTypes DEF Updated, Given, DetailDoc
  <2> QED BY <1>7, <2>2 DEF UpdateDetail, read
<1>8. ASSUME NEW h \in Handlers, Answer(h) PROVE TypeOK'
  <2>1. Joined(input[h].address) \in AccountDoc
    BY <1>8, JoinedGenuine DEF Answer, LocalInv, Genuine
  <2> QED BY <1>8, <2>1 DEF Answer, read
<1>9. ASSUME NEW h \in Handlers, Abort(h) PROVE TypeOK'
  BY <1>9 DEF Abort, read
<1>10. CASE UNCHANGED vars
  BY <1>10 DEF vars, read
<1> QED
  BY <1>1, <1>2, <1>3, <1>4, <1>5, <1>6, <1>7, <1>8, <1>9, <1>10
  DEF Next, HandlerStep

\* The inductive step: each action, for the handler that takes it.
LEMMA InvStep == IInv /\ [Next]_vars => IInv'
<1> SUFFICES ASSUME IInv, [Next]_vars PROVE IInv'
  OBVIOUS
<1>0. TypeOK'
  BY TypeStep
<1> USE DEF Continue, HoldsModifier, HoldsTarget, Stopped
<1>1. ASSUME NEW h \in Handlers, Start(h) PROVE IInv'
  <2>1. PICK i \in Inputs :
           /\ i.user \in Registered
           /\ input' = [input EXCEPT ![h] = i]
           /\ principal' = [principal EXCEPT ![h] = accounts[i.user]]
           /\ pc' = [pc EXCEPT ![h] = IF i.op = "modifyAccount" THEN "modifier"
                                                                 ELSE "access"]
    BY <1>1 DEF Start
  <2>2. LocalInv(h)'
    BY <2>1 DEF IInv, TypeOK, LocalInv, Genuine
  <2> QED BY <1>0, <1>1, <2>1, <2>2, OtherHandlers DEF Start, IInv, TypeOK
<1>2. ASSUME NEW h \in Handlers, ReadModifier(h) PROVE IInv'
  <2>1. Genuine(input[h].user, Joined(input[h].user))
    BY <1>2, JoinedGenuine DEF ReadModifier, IInv, LocalInv
  <2>2. Genuine(input[h].user, modifier[h])'
    BY <1>2, <2>1 DEF ReadModifier, IInv, TypeOK, Genuine, LevelBound, SuperBound
  <2>3. LocalInv(h)'
    BY <1>2, <2>2 DEF ReadModifier, IInv, TypeOK, LocalInv
  <2> QED BY <1>0, <1>2, <2>3, OtherHandlers DEF ReadModifier, IInv, TypeOK
<1>3. ASSUME NEW h \in Handlers, ReadTarget(h) PROVE IInv'
  <2> DEFINE i == input[h]
  <2>1. i \in Inputs /\ i.user \in Registered /\ Genuine(i.user, modifier[h])
    BY <1>3 DEF ReadTarget, IInv, LocalInv
  <2>2. CASE pc' = [pc EXCEPT ![h] = "failed"] /\ UNCHANGED target
    <3>1. LocalInv(h)'
      BY <1>3, <2>2 DEF ReadTarget, IInv, TypeOK, LocalInv
    <3> QED BY <1>0, <1>3, <2>2, <3>1, OtherHandlers DEF ReadTarget, IInv, TypeOK
  <2>3. CASE /\ i.address \in Registered /\ MayModify(modifier[h], Joined(i.address), i)
             /\ target' = [target EXCEPT ![h] = Joined(i.address)]
             /\ pc' = [pc EXCEPT ![h] = "organization"]
    <3>1. Genuine(i.address, Joined(i.address))
      BY <2>3, JoinedGenuine
    <3>2. i.level # None => LevelBound(i.address, i.level)
      BY <2>1, <2>3, <3>1, AllowedLevel
    <3>3. modifier[h].organization = Joined(i.address).organization
      BY <2>3 DEF MayModify, EnsureSameOrganization
    <3>4. target'[h] = Joined(i.address) /\ pc'[h] = "organization"
      BY <2>3 DEF IInv, TypeOK
    <3>5. input' = input /\ modifier' = modifier /\ principal' = principal
      BY <1>3 DEF ReadTarget
    <3>6. Genuine(i.user, modifier[h])' /\ Genuine(i.address, target[h])'
      BY <2>1, <3>1, <3>4, <3>5 DEF Genuine, LevelBound, SuperBound
    <3>7. (i.level # None => LevelBound(i.address, i.level))'
      BY <3>2, <3>5 DEF LevelBound
    <3>8. LocalInv(h)'
      BY <1>3, <2>1, <2>3, <3>3, <3>4, <3>5, <3>6, <3>7
      DEF ReadTarget, IInv, LocalInv
    <3> QED BY <1>0, <1>3, <2>3, <3>8, OtherHandlers DEF ReadTarget, IInv, TypeOK
  <2> QED BY <1>3, <2>2, <2>3 DEF ReadTarget
<1>4. ASSUME NEW h \in Handlers, ReadOrganization(h) PROVE IInv'
  <2>1. pc[h] = "organization" /\ UNCHANGED <<accounts, read>>
    BY <1>4 DEF ReadOrganization
  <2>2. /\ input[h] \in Inputs /\ input[h].user \in Registered
        /\ principal[h] \in AccountDoc
        /\ principal[h].organization = InitAccounts[input[h].user].organization
        /\ Genuine(input[h].user, modifier[h])
        /\ input[h].address \in Registered /\ Genuine(input[h].address, target[h])
        /\ modifier[h].organization = target[h].organization
        /\ input[h].level # None => LevelBound(input[h].address, input[h].level)
    BY <2>1 DEF IInv, LocalInv
  <2>3. pc'[h] = "write" => MayGrant(modifier[h], target[h], input[h])
    BY <1>4 DEF ReadOrganization, IInv, TypeOK
  <2>4. pc'[h] = "write" /\ input[h].perms # None =>
          SuperBound(input[h].address, input[h].perms)
    BY <2>2, <2>3
    DEF MayGrant, HasPermission, EnsureNoSuperPermission, Genuine, SuperBound
  <2>5. pc'[h] \in {"write", "failed"}
    BY <1>4 DEF ReadOrganization, IInv, TypeOK
  <2>6. LocalInv(h)'
    BY <2>1, <2>2, <2>4, <2>5 DEF LocalInv, read, Genuine, LevelBound, SuperBound
  <2> QED BY <1>0, <1>4, <2>1, <2>6, OtherHandlers DEF ReadOrganization, read, IInv, TypeOK
<1>5. ASSUME NEW h \in Handlers, WriteAccount(h) PROVE IInv'
  <2> DEFINE a == input[h].address
             new == Modified(target[h], input[h])
  <2>1. /\ input[h] \in Inputs /\ input[h].user \in Registered
        /\ principal[h] \in AccountDoc
        /\ principal[h].organization = InitAccounts[input[h].user].organization
        /\ a \in Registered /\ Genuine(a, target[h])
        /\ input[h].level # None => LevelBound(a, input[h].level)
        /\ input[h].perms # None => SuperBound(a, input[h].perms)
    BY <1>5 DEF WriteAccount, IInv, LocalInv
  <2>2. Genuine(a, new)
    BY <2>1, ModifiedGenuine
  <2>3. /\ accounts' = [accounts EXCEPT ![a] = new]
        /\ pc' = [pc EXCEPT ![h] = "access"]
        /\ UNCHANGED read
    BY <1>5 DEF WriteAccount
  <2>4. ASSUME NEW b \in Registered PROVE Genuine(b, accounts[b])'
    <3>1. Genuine(b, accounts'[b])
      BY <2>2, <2>3 DEF IInv, TypeOK
    <3> QED BY <3>1 DEF Genuine, LevelBound, SuperBound
  <2>5. ASSUME NEW g \in Handlers PROVE LocalInv(g)'
    BY <2>1, <2>3 DEF IInv, TypeOK, LocalInv, read, Genuine, LevelBound, SuperBound
  <2> QED BY <1>0, <2>4, <2>5 DEF IInv
<1>6. ASSUME NEW h \in Handlers, CheckAccess(h) PROVE IInv'
  <2>1. pc'[h] = "detail" =>
          /\ input[h].address \in Registered
          /\ \/ InitAccounts[input[h].user].organization
                  = InitAccounts[input[h].address].organization
             \/ "super_account" \in principal[h].perms
    BY <1>6 DEF CheckAccess, Sees, HasPermission, IInv, TypeOK, LocalInv, Genuine
  <2>2. LocalInv(h)'
    BY <1>6, <2>1 DEF CheckAccess, IInv, TypeOK, LocalInv, read
  <2> QED BY <1>0, <1>6, <2>2, OtherHandlers DEF CheckAccess, read, IInv, TypeOK
<1>7. ASSUME NEW h \in Handlers, UpdateDetail(h) PROVE IInv'
  <2>1. LocalInv(h)'
    BY <1>7 DEF UpdateDetail, IInv, TypeOK, LocalInv, read
  <2> QED BY <1>0, <1>7, <2>1, OtherHandlers DEF UpdateDetail, read, IInv, TypeOK
<1>8. ASSUME NEW h \in Handlers, Answer(h) PROVE IInv'
  <2>1. LocalInv(h)'
    BY <1>8 DEF Answer, IInv, TypeOK, LocalInv, read
  <2> QED BY <1>0, <1>8, <2>1, OtherHandlers DEF Answer, read, IInv, TypeOK
<1>9. ASSUME NEW h \in Handlers, Abort(h) PROVE IInv'
  <2>1. LocalInv(h)'
    BY <1>9 DEF Abort, IInv, TypeOK, LocalInv, read
  <2> QED BY <1>0, <1>9, <2>1, OtherHandlers DEF Abort, read, IInv, TypeOK
<1>10. CASE UNCHANGED vars
  BY <1>0, <1>10
  DEF vars, read, IInv, LocalInv, Genuine, LevelBound, SuperBound
<1> QED
  BY <1>1, <1>2, <1>3, <1>4, <1>5, <1>6, <1>7, <1>8, <1>9, <1>10
  DEF Next, HandlerStep

\* Only UpdateDetail writes to the detail documents, and only at its address.
LEMMA DetailStep == IInv /\ [Next]_vars => [DetailWriter]_vars
<1> SUFFICES ASSUME IInv, [Next]_vars, NEW a \in Registered, details'[a] # details[a]
             PROVE  WrittenFromWithin(a)
  BY DEF DetailWriter
<1>1. PICK h \in Handlers : UpdateDetail(h)
  BY DEF Next, HandlerStep, Start, ReadModifier, ReadTarget, ReadOrganization,
         WriteAccount, CheckAccess, Answer, Abort, vars
<1>2. pc[h] = "detail" /\ input[h].address = a
  BY <1>1 DEF UpdateDetail, IInv, TypeOK
<1>3. /\ Genuine(a, accounts[a])
      /\ Genuine(input[h].user, accounts[input[h].user])
      /\ \/ InitAccounts[input[h].user].organization = InitAccounts[a].organization
         \/ "super_account" \in principal[h].perms
  BY <1>2 DEF IInv, LocalInv, Stopped
<1> QED BY <1>2, <1>3 DEF WrittenFromWithin, Genuine

LEMMA Invariance == Spec => []IInv
BY InitIInv, InvStep, PTL DEF Spec

--------------------------------------------------------------------------------
\* The collections and the handlers' local state keep their types.
THEOREM TypeCorrect == Spec => []TypeOK
<1>1. IInv => TypeOK
  BY DEF IInv
<1> QED BY <1>1, Invariance, PTL

\* modifyAccount never lifts an account above the ranks its organization had.
THEOREM LevelsBounded == Spec => []LevelsGrantedFromAbove
<1>1. IInv => LevelsGrantedFromAbove
  BY DEF IInv, Genuine, LevelBound, LevelsGrantedFromAbove
<1> QED BY <1>1, Invariance, PTL

\* modifyAccount never brings super_account into an organization without it.
THEOREM SuperConfined == Spec => []SuperFromWithin
<1>1. IInv => SuperFromWithin
  BY DEF IInv, Genuine, SuperBound, SuperFromWithin
<1> QED BY <1>1, Invariance, PTL

\* updateAccountDetail writes only for its user's organization, or a super
\* account's request.
THEOREM DetailsConfined == Spec => DetailWrittenFromWithin
BY Invariance, DetailStep, PTL DEF Spec, DetailWrittenFromWithin, DetailWriter, WrittenFromWithin
================================================================================
