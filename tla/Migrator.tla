------------------------------- MODULE Migrator -------------------------------
(***************************************************************************)
(* Database migrations at start-up (src/migrations/Migrator.ts): every     *)
(* server process that connects runs Migrator.migrate over the same        *)
(* migrations collection, which is to be a single document with the        *)
(* version last recorded and the flag migrationRunning that is to keep the *)
(* processes apart.                                                        *)
(*                                                                         *)
(* Each action is the code from one await to the next.  The versions, file *)
(* names sorted in the code, are 1..N.  A process runs once; a restarted   *)
(* one is another process.                                                 *)
(*                                                                         *)
(* External: MongoDB.  Updates and replacements of one document are        *)
(* atomic; an upsert is not, where no unique index stands behind it, and   *)
(* there may be a document of each process that found none.  An access     *)
(* with an empty filter is to any document.  An access may throw, also     *)
(* when it has been carried out and only its response is lost.             *)
(***************************************************************************)
EXTENDS Naturals, FiniteSets

CONSTANTS Servers,   \* the processes
          N,         \* how many migrations there are
          Crashes    \* whether a process may die

ASSUME MigratorAssumption ==
    N \in Nat /\ Crashes \in BOOLEAN /\ IsFiniteSet(Servers)

VARIABLES
    documents,   \* the documents, each named by the process that inserted it
    version,     \* the version field of each
    running,     \* migrationRunning of each; to lack it is as good as false
    completed,   \* the migrations whose up() has completed at least once
    pc,          \* where each process is
    file         \* the version each process is looking at

vars == <<documents, version, running, completed, pc, file>>

Stopped == {"done", "failed", "lost"}
\* From the acquisition of the flag to its release.
Migrating == {"read", "up", "record", "release", "abandon"}

Continue(p, label) == pc' = [pc EXCEPT ![p] = label]
\* migrate has ended; what the process was looking at is forgotten.
Stop(p, label) == Continue(p, label) /\ file' = [file EXCEPT ![p] = 1]
Flag(d, value) == running' = [running EXCEPT ![d] = value]

\* initMigrationsCollection, an upsert with $setOnInsert: it finds a document, or none ...
InitMigrationsCollection(p) ==
    /\ pc[p] = "start"
    /\ Continue(p, IF documents = {} THEN "insert" ELSE "wait")
    /\ UNCHANGED <<documents, version, running, completed, file>>

\* ... and then inserts one, whoever else has done so meanwhile.
InsertDocument(p) ==
    /\ pc[p] = "insert"
    /\ documents' = documents \cup {p}
    /\ version' = [version EXCEPT ![p] = 0] /\ Flag(p, FALSE)
    /\ Continue(p, "wait")
    /\ UNCHANGED <<completed, file>>

\* Variant: the flag is set whatever it was.
MarkWithoutTest(p) ==
    /\ pc[p] = "wait"
    /\ \E d \in documents : Flag(d, TRUE)
    /\ Continue(p, "read")
    /\ UNCHANGED <<documents, version, completed, file>>

TakeFlag(p) ==
    /\ pc[p] = "wait"
    /\ \E d \in documents : ~running[d] /\ Flag(d, TRUE)
    /\ UNCHANGED <<documents, version, completed>>

\* waitForOtherMigrationsAndMarkAsStarted: the flag is set where it is false or
\* not there; otherwise the process sleeps and tries again.
MarkAsStarted(p) == TakeFlag(p) /\ Continue(p, "read") /\ UNCHANGED file

\* The flag is set and the response is lost: migrate ends before its try block.
LoseAcquisition(p) == TakeFlag(p) /\ Stop(p, "lost")

\* Variant: the comparison of versions is off by one.
CompareVersionsOffByOne(p) ==
    /\ pc[p] = "read" /\ file[p] <= N
    /\ \E d \in documents :
         IF file[p] > version[d] + 1
         THEN Continue(p, "up") /\ UNCHANGED file
         ELSE file' = [file EXCEPT ![p] = @ + 1] /\ UNCHANGED pc
    /\ UNCHANGED <<documents, version, running, completed>>

\* up reads the current version, and passes over a file that is not newer.
ReadVersion(p) ==
    /\ pc[p] = "read" /\ file[p] <= N
    /\ \E d \in documents :
         \/ /\ file[p] > version[d]
            /\ Continue(p, "up")
            /\ UNCHANGED file
         \/ /\ file[p] <= version[d]
            /\ file' = [file EXCEPT ![p] = @ + 1]
            /\ UNCHANGED pc
    /\ UNCHANGED <<documents, version, running, completed>>

\* Variant: the version is recorded before the migration is run.
RecordBeforeUp(p) ==
    /\ pc[p] = "up"
    /\ \E d \in documents :
         version' = [version EXCEPT ![d] = file[p]] /\ Flag(d, FALSE)
    /\ Continue(p, "record")
    /\ UNCHANGED <<documents, completed, file>>

\* The migration's own up() comes to its end.
CompleteUp(p) ==
    /\ pc[p] = "up"
    /\ completed' = completed \cup {file[p]}
    /\ Continue(p, "record")
    /\ UNCHANGED <<documents, version, running, file>>

\* Variant: the loop's counter is advanced first.
RecordNextVersion(p) ==
    /\ pc[p] = "record"
    /\ \E d \in documents :
         version' = [version EXCEPT ![d] = file[p] + 1] /\ Flag(d, FALSE)
    /\ file' = [file EXCEPT ![p] = @ + 1]
    /\ Continue(p, "read")
    /\ UNCHANGED <<documents, completed>>

\* findOneAndReplace({}, {version}): the flag goes with the old document.
RecordVersion(p) ==
    /\ pc[p] = "record"
    /\ \E d \in documents :
         version' = [version EXCEPT ![d] = file[p]] /\ Flag(d, FALSE)
    /\ file' = [file EXCEPT ![p] = @ + 1]
    /\ Continue(p, "read")
    /\ UNCHANGED <<documents, completed>>

\* All files seen.
EndLoop(p) ==
    /\ pc[p] = "read" /\ file[p] > N
    /\ Continue(p, "release")
    /\ UNCHANGED <<documents, version, running, completed, file>>

\* Variant: a migration that throws is passed over.
PassOverFailure(p) ==
    /\ pc[p] = "up"
    /\ file' = [file EXCEPT ![p] = @ + 1]
    /\ Continue(p, "read")
    /\ UNCHANGED <<documents, version, running, completed>>

\* A database access or a migration throws: inside the try block the finally
\* clause follows, before it migrate ends at once.
Fail(p) ==
    /\ \/ pc[p] \in {"start", "insert", "wait"} /\ Stop(p, "failed")
       \/ pc[p] \in {"read", "up", "record"} /\ Continue(p, "abandon") /\ UNCHANGED file
    /\ UNCHANGED <<documents, version, running, completed>>

\* Variant: no finally clause; a migrator that fails leaves the flag.
MarkOnlySuccessAsDone(p) ==
    /\ \/ pc[p] = "release" /\ Stop(p, "done") /\ \E d \in documents : Flag(d, FALSE)
       \/ pc[p] = "abandon" /\ Stop(p, "failed") /\ UNCHANGED running
    /\ UNCHANGED <<documents, version, completed>>

\* markMigrationAsDone, in the finally clause.
MarkMigrationAsDone(p) ==
    /\ \/ pc[p] = "release" /\ Stop(p, "done")
       \/ pc[p] = "abandon" /\ Stop(p, "failed")
    /\ \E d \in documents : Flag(d, FALSE)
    /\ UNCHANGED <<documents, version, completed>>

\* It throws as well: carried out, or the flag stays as it is.
FailToMarkAsDone(p) ==
    /\ pc[p] \in {"release", "abandon"}
    /\ \/ Stop(p, "failed") /\ \E d \in documents : Flag(d, FALSE)
       \/ Stop(p, "lost") /\ UNCHANGED running
    /\ UNCHANGED <<documents, version, completed>>

\* The process dies; the flag stays as it is.
Crash(p) ==
    /\ Crashes
    /\ pc[p] \notin Stopped
    /\ Stop(p, "lost")
    /\ UNCHANGED <<documents, version, running, completed>>

Init ==
    /\ documents = {}
    /\ version = [d \in Servers |-> 0] /\ running = [d \in Servers |-> FALSE]
    /\ completed = {}
    /\ pc = [p \in Servers |-> "start"]
    /\ file = [p \in Servers |-> 1]

Progress(p) ==
    \/ InitMigrationsCollection(p) \/ InsertDocument(p) \/ MarkAsStarted(p)
    \/ ReadVersion(p) \/ CompleteUp(p) \/ RecordVersion(p) \/ EndLoop(p)
    \/ MarkMigrationAsDone(p)

Failure(p) == Fail(p) \/ LoseAcquisition(p) \/ FailToMarkAsDone(p) \/ Crash(p)

Next == \E p \in Servers : Progress(p) \/ Failure(p)

Spec == Init /\ [][Next]_vars

\* The event loop of a live process goes on: no step of a process is put off for
\* ever (a wait is tried again after each sleep).
FairSpec == Spec /\ \A p \in Servers : WF_vars(Progress(p))

--------------------------------------------------------------------------------
\* The types of the documents' fields and of the processes' state.
TypeOK ==
    /\ documents \subseteq Servers
    /\ version \in [Servers -> 0 .. N]
    /\ running \in [Servers -> BOOLEAN]
    /\ completed \subseteq 1 .. N
    /\ pc \in [Servers -> {"start", "insert", "wait"} \cup Migrating \cup Stopped]
    /\ file \in [Servers -> 1 .. (N + 1)]

\* A recorded version never promises more than was done: every migration up to
\* it has completed, although two processes may be migrating at once and the
\* slower one may write a smaller version over a greater one.
VersionIsHonest == \A d \in documents : 1 .. version[d] \subseteq completed

\* A process that got through Migrator.migrate without an error finds every
\* migration completed, by itself or by others whose work it passed over.
NothingSkipped == \A p \in Servers : pc[p] = "done" => completed = 1 .. N

\* Until a version has been recorded the flags do their work: no more processes
\* are between acquisition and release than there are documents, one unless first
\* starts overlapped; failures and lost responses only make them fewer.
\* (findOneAndReplace then drops a flag.)
ExclusiveUntilRecorded ==
    (\A d \in documents : version[d] = 0) =>
        Cardinality({p \in Servers : pc[p] \in Migrating}) <= Cardinality(documents)

\* Every process comes to an end unless one dies or fails at the flag itself:
\* whoever holds it otherwise, also one whose migration throws, gives it back, and
\* nobody waits for ever.  (finally, Migrator.ts:55-57)
EveryServerEnds ==
    \/ \A p \in Servers : <>(pc[p] \in Stopped)
    \/ <>(\E p \in Servers : pc[p] = "lost")

Contract == INSTANCE MigrationContract WITH
    finished <- {p \in Servers : pc[p] = "done"}

\* The migrators keep the promise of MigrationContract: a migration is carried
\* out only after all earlier ones have been, whoever carried them out.
KeepsContract == Contract!Spec

\* "Another migration is running. Waiting for it to end." (Migrator.ts:116): a
\* process does not migrate while another one does, at least where the collection
\* is the single document that it is meant to be.
OneMigratorAtATime ==
    Cardinality(documents) = 1 =>
        \A p, q \in Servers : pc[p] \in Migrating /\ pc[q] \in Migrating => p = q
================================================================================
