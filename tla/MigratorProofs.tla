---------------------------- MODULE MigratorProofs ----------------------------
(***************************************************************************)
(* For any set of server processes, any number of migrations, and with     *)
(* crashes or without: Migrator's safety invariants, and that it keeps     *)
(* MigrationContract.                                                      *)
(***************************************************************************)
EXTENDS Migrator, FiniteSetTheorems, TLAPS

\* What a process has behind it, by its place in the loop: all files before the
\* one it looks at; that one too once up() has come to its end; all of them
\* after the loop.
LoopInv ==
    \A p \in Servers :
        /\ pc[p] \in {"start", "insert", "wait"} => file[p] = 1
        /\ pc[p] \in {"read", "up", "record"} => 1 .. (file[p] - 1) \subseteq completed
        /\ pc[p] \in {"up", "record"} => file[p] <= N
        /\ pc[p] = "record" => file[p] \in completed
        /\ pc[p] \in {"release", "done"} => completed = 1 .. N

\* Before a version is recorded each process that is migrating is counted by a flag
\* that is up, and there is a document where a process looks for one.
Flagged == {d \in documents : running[d]}
AtWork == {p \in Servers : pc[p] \in Migrating}
Unrecorded == \A d \in documents : version[d] = 0
FlagInv ==
    /\ \A p \in Servers : pc[p] \in {"wait"} \cup Migrating => documents # {}
    /\ \A p \in Servers : p \in documents => pc[p] \notin {"start", "insert"}
    /\ Unrecorded => Cardinality(AtWork) <= Cardinality(Flagged)

IInv == TypeOK /\ LoopInv /\ VersionIsHonest /\ FlagInv

LEMMA InitIInv == Init => IInv
<1> SUFFICES ASSUME Init PROVE IInv
  OBVIOUS
<1> USE MigratorAssumption DEF Init
<1>1. TypeOK
  <2>1. pc \in [Servers -> {"start", "insert", "wait"} \cup Migrating \cup Stopped]
    OBVIOUS
  <2>2. file \in [Servers -> 1 .. (N + 1)]
    OBVIOUS
  <2>3. version \in [Servers -> 0 .. N] /\ running \in [Servers -> BOOLEAN]
    OBVIOUS
  <2> QED
    BY <2>1, <2>2, <2>3 DEF TypeOK
<1>2. LoopInv
  BY DEF LoopInv
<1>3. VersionIsHonest
  BY DEF VersionIsHonest
<1>4. FlagInv
  <2>1. AtWork = {} /\ Flagged = {}
    BY DEF AtWork, Flagged, Migrating
  <2> QED
    BY <2>1, FS_EmptySet DEF FlagInv, Migrating
<1> QED
  BY <1>1, <1>2, <1>3, <1>4 DEF IInv

LEMMA TypeStep == TypeOK /\ LoopInv /\ [Next]_vars => TypeOK'
<1> SUFFICES ASSUME TypeOK, LoopInv, [Next]_vars PROVE TypeOK'
  OBVIOUS
<1> USE MigratorAssumption DEF TypeOK, Continue, Stop, Flag, Migrating, Stopped
<1>1. ASSUME NEW p \in Servers, InitMigrationsCollection(p)
      PROVE TypeOK'
  BY <1>1 DEF InitMigrationsCollection
<1>2. ASSUME NEW p \in Servers, InsertDocument(p)
      PROVE TypeOK'
  BY <1>2 DEF InsertDocument
<1>3. ASSUME NEW p \in Servers, MarkAsStarted(p)
      PROVE TypeOK'
  BY <1>3 DEF MarkAsStarted, TakeFlag
<1>4. ASSUME NEW p \in Servers, LoseAcquisition(p)
      PROVE TypeOK'
  BY <1>4 DEF LoseAcquisition, TakeFlag
<1>5. ASSUME NEW p \in Servers, ReadVersion(p)
      PROVE TypeOK'
  BY <1>5 DEF ReadVersion
<1>6. ASSUME NEW p \in Servers, CompleteUp(p)
      PROVE TypeOK'
  <2>1. file[p] \in 1 .. N
    BY <1>6 DEF CompleteUp, LoopInv
  <2> QED
    BY <1>6, <2>1 DEF CompleteUp
<1>7. ASSUME NEW p \in Servers, RecordVersion(p)
      PROVE TypeOK'
  <2>1. file[p] \in 1 .. N
    BY <1>7 DEF RecordVersion, LoopInv
  <2> QED
    BY <1>7, <2>1 DEF RecordVersion
<1>8. ASSUME NEW p \in Servers, EndLoop(p)
      PROVE TypeOK'
  BY <1>8 DEF EndLoop
<1>9. ASSUME NEW p \in Servers, MarkMigrationAsDone(p)
      PROVE TypeOK'
  BY <1>9 DEF MarkMigrationAsDone
<1>10. ASSUME NEW p \in Servers, Fail(p)
      PROVE TypeOK'
  BY <1>10 DEF Fail
<1>11. ASSUME NEW p \in Servers, FailToMarkAsDone(p)
      PROVE TypeOK'
  <2>1. running' \in [Servers -> BOOLEAN]
    BY <1>11 DEF FailToMarkAsDone
  <2>2. /\ pc' \in [Servers -> {"start", "insert", "wait"} \cup Migrating \cup Stopped]
        /\ file' \in [Servers -> 1 .. (N + 1)]
    BY <1>11 DEF FailToMarkAsDone
  <2> QED
    BY <1>11, <2>1, <2>2 DEF FailToMarkAsDone
<1>12. ASSUME NEW p \in Servers, Crash(p)
      PROVE TypeOK'
  BY <1>12 DEF Crash
<1>13. CASE UNCHANGED vars
  BY <1>13 DEF vars
<1> QED
  BY <1>1, <1>2, <1>3, <1>4, <1>5, <1>6, <1>7, <1>8, <1>9, <1>10, <1>11, <1>12, <1>13
     DEF Next, Progress, Failure

\* The migrations that have completed stay so, and a recorded version is one
\* of a migration that has.
LEMMA LoopStep == IInv /\ [Next]_vars => LoopInv' /\ VersionIsHonest'
<1> SUFFICES ASSUME IInv, [Next]_vars PROVE LoopInv' /\ VersionIsHonest'
  OBVIOUS
<1> USE MigratorAssumption DEF IInv, TypeOK, LoopInv, VersionIsHonest, Continue, Stop, Flag
<1>1. ASSUME NEW p \in Servers, InitMigrationsCollection(p)
      PROVE LoopInv' /\ VersionIsHonest'
  BY <1>1 DEF InitMigrationsCollection
<1>2. ASSUME NEW p \in Servers, InsertDocument(p)
      PROVE LoopInv' /\ VersionIsHonest'
  BY <1>2 DEF InsertDocument
<1>3. ASSUME NEW p \in Servers, MarkAsStarted(p)
      PROVE LoopInv' /\ VersionIsHonest'
  BY <1>3 DEF MarkAsStarted, TakeFlag
<1>4. ASSUME NEW p \in Servers, LoseAcquisition(p)
      PROVE LoopInv' /\ VersionIsHonest'
  BY <1>4 DEF LoseAcquisition, TakeFlag
<1>5. ASSUME NEW p \in Servers, ReadVersion(p)
      PROVE LoopInv' /\ VersionIsHonest'
  BY <1>5 DEF ReadVersion
<1>6. ASSUME NEW p \in Servers, CompleteUp(p)
      PROVE LoopInv' /\ VersionIsHonest'
  BY <1>6 DEF CompleteUp
<1>7. ASSUME NEW p \in Servers, RecordVersion(p)
      PROVE LoopInv' /\ VersionIsHonest'
  BY <1>7 DEF RecordVersion
<1>8. ASSUME NEW p \in Servers, EndLoop(p)
      PROVE LoopInv' /\ VersionIsHonest'
  <2>1. file[p] - 1 = N
    <3>1. file[p] \in 1 .. (N + 1) /\ file[p] > N
      BY <1>8 DEF EndLoop
    <3> HIDE DEF IInv, LoopInv, VersionIsHonest, TypeOK
    <3> QED
      BY <3>1
  <2>2. 1 .. (file[p] - 1) \subseteq completed
    BY <1>8 DEF EndLoop
  <2>3. completed = 1 .. N
    BY <2>1, <2>2
  <2> QED
    BY <1>8, <2>3 DEF EndLoop
<1>9. ASSUME NEW p \in Servers, MarkMigrationAsDone(p)
      PROVE LoopInv' /\ VersionIsHonest'
  BY <1>9 DEF MarkMigrationAsDone
<1>10. ASSUME NEW p \in Servers, Fail(p)
      PROVE LoopInv' /\ VersionIsHonest'
  BY <1>10 DEF Fail
<1>11. ASSUME NEW p \in Servers, FailToMarkAsDone(p)
      PROVE LoopInv' /\ VersionIsHonest'
  BY <1>11 DEF FailToMarkAsDone
<1>12. ASSUME NEW p \in Servers, Crash(p)
      PROVE LoopInv' /\ VersionIsHonest'
  BY <1>12 DEF Crash
<1>13. CASE UNCHANGED vars
  BY <1>13 DEF vars
<1> QED
  BY <1>1, <1>2, <1>3, <1>4, <1>5, <1>6, <1>7, <1>8, <1>9, <1>10, <1>11, <1>12, <1>13
     DEF Next, Progress, Failure

\* What each kind of step does to the counts.
LEMMA Counts ==
    ASSUME TypeOK
    PROVE  /\ IsFiniteSet(documents) /\ IsFiniteSet(Flagged) /\ IsFiniteSet(AtWork)
           /\ Cardinality(documents) \in Nat
           /\ Cardinality(Flagged) \in Nat /\ Cardinality(AtWork) \in Nat
           /\ Cardinality(Flagged) <= Cardinality(documents)
<1>1. documents \subseteq Servers /\ Flagged \subseteq documents /\ AtWork \subseteq Servers
  BY DEF TypeOK, Flagged, AtWork
<1>2. IsFiniteSet(documents) /\ IsFiniteSet(AtWork)
  BY <1>1, MigratorAssumption, FS_Subset
<1> QED
  BY <1>1, <1>2, FS_Subset, FS_CardinalityType

\* Taking a flag puts one more up and, at most, one more process to work; giving one
\* back ends one process's work and puts at most one down.
LEMMA Taken ==
    ASSUME NEW S, IsFiniteSet(S), NEW T, IsFiniteSet(T), NEW x, NEW y,
           x \notin T, Cardinality(S) <= Cardinality(T)
    PROVE  Cardinality(S \cup {y}) <= Cardinality(T \cup {x})
<1>1. /\ Cardinality(T \cup {x}) = Cardinality(T) + 1
      /\ Cardinality(S \cup {y}) = IF y \in S THEN Cardinality(S) ELSE Cardinality(S) + 1
  BY FS_AddElement
<1> QED
  BY <1>1, FS_CardinalityType

LEMMA Returned ==
    ASSUME NEW S, IsFiniteSet(S), NEW T, IsFiniteSet(T), NEW x, NEW y,
           y \in S, Cardinality(S) <= Cardinality(T)
    PROVE  Cardinality(S \ {y}) <= Cardinality(T \ {x})
<1>1. /\ Cardinality(S \ {y}) = Cardinality(S) - 1
      /\ Cardinality(T \ {x}) = IF x \in T THEN Cardinality(T) - 1 ELSE Cardinality(T)
  BY FS_RemoveElement
<1> QED
  BY <1>1, FS_CardinalityType

\* As long as no version is recorded, only MarkAsStarted puts a process to work, and it
\* needs a flag that is down; only who ends its work puts one down.
LEMMA FlagStep == IInv /\ [Next]_vars => FlagInv'
<1> SUFFICES ASSUME IInv, [Next]_vars PROVE FlagInv'
  OBVIOUS
<1> USE MigratorAssumption DEF IInv, TypeOK, FlagInv, Continue, Stop, Flag, Migrating
<1>1. ASSUME NEW p \in Servers, InitMigrationsCollection(p)
      PROVE FlagInv'
  <2>1. AtWork' = AtWork /\ Flagged' = Flagged
    BY <1>1 DEF InitMigrationsCollection, AtWork, Flagged
  <2>2. Unrecorded' => Unrecorded
    BY <1>1 DEF InitMigrationsCollection, Unrecorded
  <2> QED
    BY <1>1, <2>1, <2>2 DEF InitMigrationsCollection
<1>2. ASSUME NEW p \in Servers, InsertDocument(p)
      PROVE FlagInv'
  <2>1. AtWork' = AtWork /\ Flagged' = Flagged /\ (Unrecorded' => Unrecorded)
    BY <1>2 DEF InsertDocument, AtWork, Flagged, Unrecorded
  <2> QED
    BY <1>2, <2>1 DEF InsertDocument
<1>3. ASSUME NEW p \in Servers, MarkAsStarted(p)
      PROVE FlagInv'
  <2>1. PICK d \in documents : ~running[d] /\ running' = [running EXCEPT ![d] = TRUE]
    BY <1>3 DEF MarkAsStarted, TakeFlag
  <2>2. AtWork' = AtWork \cup {p}
    BY <1>3 DEF MarkAsStarted, TakeFlag, AtWork
  <2>3. Flagged' = Flagged \cup {d} /\ d \notin Flagged
    BY <1>3, <2>1 DEF MarkAsStarted, TakeFlag, Flagged
  <2>4. Unrecorded' => Unrecorded
    BY <1>3 DEF MarkAsStarted, TakeFlag, Unrecorded
  <2>5. Unrecorded' => Cardinality(AtWork') <= Cardinality(Flagged')
    BY <2>2, <2>3, <2>4, Taken, Counts
  <2> QED
    BY <1>3, <2>5 DEF MarkAsStarted, TakeFlag
<1>4. ASSUME NEW p \in Servers, LoseAcquisition(p)
      PROVE FlagInv'
  <2>1. PICK d \in documents : ~running[d] /\ running' = [running EXCEPT ![d] = TRUE]
    BY <1>4 DEF LoseAcquisition, TakeFlag
  <2>2. AtWork' = AtWork
    BY <1>4 DEF LoseAcquisition, TakeFlag, AtWork
  <2>3. Flagged' = Flagged \cup {d} /\ d \notin Flagged
    BY <1>4, <2>1 DEF LoseAcquisition, TakeFlag, Flagged
  <2>4. Unrecorded' => Unrecorded
    BY <1>4 DEF LoseAcquisition, TakeFlag, Unrecorded
  <2>5. Cardinality(Flagged') = Cardinality(Flagged) + 1
    BY <2>3, Counts, FS_AddElement
  <2>6. Unrecorded' => Cardinality(AtWork') <= Cardinality(Flagged')
    BY <2>2, <2>4, <2>5, Counts
  <2> QED
    BY <1>4, <2>6 DEF LoseAcquisition, TakeFlag
<1>5. ASSUME NEW p \in Servers, ReadVersion(p)
      PROVE FlagInv'
  <2>1. AtWork' = AtWork /\ Flagged' = Flagged
    BY <1>5 DEF ReadVersion, AtWork, Flagged
  <2>2. Unrecorded' => Unrecorded
    BY <1>5 DEF ReadVersion, Unrecorded
  <2> QED
    BY <1>5, <2>1, <2>2 DEF ReadVersion
<1>6. ASSUME NEW p \in Servers, CompleteUp(p)
      PROVE FlagInv'
  <2>1. AtWork' = AtWork /\ Flagged' = Flagged
    BY <1>6 DEF CompleteUp, AtWork, Flagged
  <2>2. Unrecorded' => Unrecorded
    BY <1>6 DEF CompleteUp, Unrecorded
  <2> QED
    BY <1>6, <2>1, <2>2 DEF CompleteUp
<1>7. ASSUME NEW p \in Servers, RecordVersion(p)
      PROVE FlagInv'
  <2>1. ~Unrecorded'
    BY <1>7 DEF RecordVersion, Unrecorded
  <2> QED
    BY <1>7, <2>1 DEF RecordVersion
<1>8. ASSUME NEW p \in Servers, EndLoop(p)
      PROVE FlagInv'
  <2>1. AtWork' = AtWork /\ Flagged' = Flagged
    BY <1>8 DEF EndLoop, AtWork, Flagged
  <2>2. Unrecorded' => Unrecorded
    BY <1>8 DEF EndLoop, Unrecorded
  <2> QED
    BY <1>8, <2>1, <2>2 DEF EndLoop
<1>9. ASSUME NEW p \in Servers, MarkMigrationAsDone(p)
      PROVE FlagInv'
  <2>1. PICK d \in documents : running' = [running EXCEPT ![d] = FALSE]
    BY <1>9 DEF MarkMigrationAsDone
  <2>2. AtWork' = AtWork \ {p} /\ p \in AtWork
    BY <1>9 DEF MarkMigrationAsDone, AtWork
  <2>3. Flagged' = Flagged \ {d}
    BY <1>9, <2>1 DEF MarkMigrationAsDone, Flagged
  <2>4. Unrecorded' => Unrecorded
    BY <1>9 DEF MarkMigrationAsDone, Unrecorded
  <2>5. Unrecorded' => Cardinality(AtWork') <= Cardinality(Flagged')
    BY <2>2, <2>3, <2>4, Returned, Counts
  <2> QED
    BY <1>9, <2>5 DEF MarkMigrationAsDone
<1>10. ASSUME NEW p \in Servers, Fail(p)
      PROVE FlagInv'
  <2>1. Flagged' = Flagged /\ (Unrecorded' => Unrecorded)
    BY <1>10 DEF Fail, Flagged, Unrecorded
  <2>2. AtWork' = AtWork
    BY <1>10 DEF Fail, AtWork
  <2> QED
    BY <1>10, <2>1, <2>2 DEF Fail
<1>11. ASSUME NEW p \in Servers, FailToMarkAsDone(p)
      PROVE FlagInv'
  <2>1. AtWork' = AtWork \ {p} /\ p \in AtWork /\ (Unrecorded' => Unrecorded)
    BY <1>11 DEF FailToMarkAsDone, AtWork, Unrecorded
  <2>2. CASE UNCHANGED running
    <3>1. Flagged' = Flagged
      BY <1>11, <2>2 DEF FailToMarkAsDone, Flagged
    <3>2. Cardinality(AtWork') = Cardinality(AtWork) - 1
      BY <2>1, Counts, FS_RemoveElement
    <3> QED
      BY <2>1, <3>1, <3>2, Counts, <1>11 DEF FailToMarkAsDone
  <2>3. ASSUME NEW d \in documents, running' = [running EXCEPT ![d] = FALSE]
        PROVE  FlagInv'
    <3>1. Flagged' = Flagged \ {d}
      BY <1>11, <2>3 DEF FailToMarkAsDone, Flagged
    <3>2. Unrecorded' => Cardinality(AtWork') <= Cardinality(Flagged')
      BY <2>1, <3>1, Returned, Counts
    <3> QED
      BY <1>11, <3>2 DEF FailToMarkAsDone
  <2> QED
    BY <1>11, <2>2, <2>3 DEF FailToMarkAsDone
<1>12. ASSUME NEW p \in Servers, Crash(p)
      PROVE FlagInv'
  <2>1. AtWork' = AtWork \ {p} /\ Flagged' = Flagged /\ (Unrecorded' => Unrecorded)
    BY <1>12 DEF Crash, AtWork, Flagged, Unrecorded
  <2>2. Cardinality(AtWork') = IF p \in AtWork THEN Cardinality(AtWork) - 1
                                             ELSE Cardinality(AtWork)
    BY <2>1, Counts, FS_RemoveElement
  <2>3. Unrecorded' => Cardinality(AtWork') <= Cardinality(Flagged')
    BY <2>1, <2>2, Counts
  <2> QED
    BY <1>12, <2>3 DEF Crash
<1>13. CASE UNCHANGED vars
  BY <1>13 DEF vars, AtWork, Flagged, Unrecorded
<1> QED
  BY <1>1, <1>2, <1>3, <1>4, <1>5, <1>6, <1>7, <1>8, <1>9, <1>10, <1>11, <1>12, <1>13
     DEF Next, Progress, Failure

LEMMA Invariant == Spec => []IInv
<1>1. IInv /\ [Next]_vars => IInv'
  BY TypeStep, LoopStep, FlagStep DEF IInv
<1> QED
  BY InitIInv, <1>1, PTL DEF Spec

\* The fields of the migrations documents and the processes' state keep their
\* types; a recorded version is one of a migration that exists.
THEOREM TypeCorrect == Spec => []TypeOK
  BY Invariant, PTL DEF IInv

\* Whatever the interleaving of the migrators, in whatever documents they record,
\* every migration up to a version recorded has completed.
THEOREM Honest == Spec => []VersionIsHonest
  BY Invariant, PTL DEF IInv

\* A migrator that ends without an error leaves every migration completed.
THEOREM NoneSkipped == Spec => []NothingSkipped
<1>1. IInv => NothingSkipped
  BY DEF IInv, LoopInv, NothingSkipped
<1> QED
  BY Invariant, <1>1, PTL

\* The flags admit no more migrators than there are documents as long as no version is
\* recorded, however first starts, failures and lost responses fall together.
THEOREM Exclusive == Spec => []ExclusiveUntilRecorded
<1>1. IInv => ExclusiveUntilRecorded
  BY Counts DEF IInv, FlagInv, ExclusiveUntilRecorded, Unrecorded, AtWork
<1> QED
  BY Invariant, <1>1, PTL

\* Every step of a migrator is a step of the contract, or none of it.
LEMMA ContractStep == IInv /\ [Next]_vars => [Contract!Next]_(Contract!vars)
<1> SUFFICES ASSUME IInv, [Next]_vars PROVE [Contract!Next]_(Contract!vars)
  OBVIOUS
<1> DEFINE Done == {p \in Servers : pc[p] = "done"}
<1> USE MigratorAssumption
    DEF IInv, TypeOK, LoopInv, Continue, Stop, Contract!vars, Contract!Next
<1>1. ASSUME NEW p \in Servers, CompleteUp(p) PROVE Contract!Apply(file[p])
  <2>1. Done' = Done
    BY <1>1 DEF CompleteUp
  <2> QED
    BY <1>1, <2>1 DEF CompleteUp, Contract!Apply
<1>2. ASSUME NEW p \in Servers, MarkMigrationAsDone(p), pc[p] = "release"
      PROVE Contract!Finish(p)
  <2>1. Done' = Done \cup {p}
    BY <1>2 DEF MarkMigrationAsDone
  <2> QED
    BY <1>2, <2>1 DEF MarkMigrationAsDone, Contract!Finish
<1>3. ASSUME NEW p \in Servers,
             \/ InitMigrationsCollection(p) \/ InsertDocument(p) \/ MarkAsStarted(p)
             \/ LoseAcquisition(p) \/ FailToMarkAsDone(p)\/ ReadVersion(p)
             \/ RecordVersion(p) \/ EndLoop(p) \/ Fail(p) \/ Crash(p)
             \/ MarkMigrationAsDone(p) /\ pc[p] = "abandon"
      PROVE UNCHANGED Contract!vars
  <2>1. completed' = completed
    BY <1>3 DEF InitMigrationsCollection, InsertDocument, MarkAsStarted, LoseAcquisition,
                TakeFlag, FailToMarkAsDone, ReadVersion, RecordVersion,
                EndLoop, Fail, Crash, MarkMigrationAsDone
  <2>2. Done' = Done
    BY <1>3 DEF InitMigrationsCollection, InsertDocument, MarkAsStarted, LoseAcquisition,
                TakeFlag, FailToMarkAsDone, ReadVersion, RecordVersion,
                EndLoop, Fail, Crash, MarkMigrationAsDone, Stopped
  <2> QED
    BY <2>1, <2>2
<1>4. CASE UNCHANGED vars
  BY <1>4 DEF vars
<1>5. \A p \in Servers : CompleteUp(p) => file[p] \in 1 .. N
  BY DEF CompleteUp
<1>6. \A p \in Servers : MarkMigrationAsDone(p) => pc[p] \in {"release", "abandon"}
  BY DEF MarkMigrationAsDone
<1> QED
  BY <1>1, <1>2, <1>3, <1>4, <1>5, <1>6 DEF Next, Progress, Failure

\* The migrators implement MigrationContract: completed migrations form a prefix
\* that only grows, and a server finishes on all of them.
THEOREM Implements == Spec => KeepsContract
<1>1. Init => Contract!Init
  BY DEF Init, Contract!Init
<1>2. IInv /\ [Next]_vars => [Contract!Next]_(Contract!vars)
  BY ContractStep
<1> QED
  BY Invariant, <1>1, <1>2, PTL DEF Spec, KeepsContract, Contract!Spec
================================================================================
