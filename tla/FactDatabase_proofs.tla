------------------------ MODULE FactDatabase_proofs ------------------------
(***************************************************************************)
(* Theorems about FactDatabase, for every number of processes, migrations,  *)
(* rows and backups: any process may be killed between any two steps, and   *)
(* a lease may run out under its writer.                                    *)
(*                                                                         *)
(* Theorems about StagingRuns, for every set of runs that were given one    *)
(* directory: anything may fail, and any of them may be killed.             *)
(***************************************************************************)
EXTENDS FactDatabase, StagingRuns, FiniteSetTheorems, SequenceTheorems, TLAPS

(***************************************************************************)
(* A set of migrations has a smallest one                                   *)
(***************************************************************************)
LEMMA MinIsOneOfThem ==
  ASSUME NEW S \in SUBSET Nat, S # {}
  PROVE  Min(S) \in S
<1> DEFINE Less == {ss \in Nat \X Nat : ss[1] < ss[2]}
<1>1. IsWellFoundedOn(Less, Nat)
  BY NatLessThanWellFounded DEF OpToRel
<1>2. \A x, y \in Nat : y < x => <<y, x>> \in Less
  OBVIOUS
<1> HIDE DEF Less
<1>3. PICK x \in S : \A y \in S : ~ (<<y, x>> \in Less)
  BY <1>1, WFMin
<1>4. ASSUME NEW y \in S PROVE x <= y
  <2>1. x \in Nat /\ y \in Nat
    OBVIOUS
  <2>2. ~ (y < x)
    BY <1>2, <1>3, <2>1
  <2> QED BY <2>1, <2>2
<1> QED BY <1>4 DEF Min

(***************************************************************************)
(* The inductive invariant                                                  *)
(*                                                                         *)
(* That every migration has its way back is decided long before it is       *)
(* applied: when the backup is copied.  Whoever is not idle holds the lock, *)
(* so that nobody writes between the copy and the migration, and the copy   *)
(* that is placed, and complete, still has the rows of the database and     *)
(* none of the pending migrations.                                          *)
(***************************************************************************)
Steps == {"idle", "copy", "place", "manifest", "record", "dry run", "apply", "write"}

Migrations == 1 .. LastMigration

State == [applied : SUBSET Migrations, rows : Nat, records : Nat,
          run : [owner : Procs \cup {Nobody}, expired : BOOLEAN]]

Backup == [snap : State, manifest : BOOLEAN]

FactTypeOK ==
  /\ db \in State
  /\ shipped \in Migrations
  /\ lock \in Procs \cup {Nobody}
  /\ step \in [Procs -> Steps]
  /\ pending \in [Procs -> SUBSET Migrations]
  /\ snap \in [Procs -> State]
  /\ backups \subseteq Backup
  /\ named \subseteq State
  /\ restored \subseteq State
  /\ wayBack \in [Migrations -> Nat]

OnlyTheHolderWorks == \A p \in Procs : step[p] # "idle" => lock = p

PendingIsCurrent ==
  \A p \in Procs : /\ step[p] = "idle" => pending[p] = {}
                   /\ step[p] = "copy" => pending[p] \cap db.applied = {}

CopyIsCurrent ==
  \A p \in Procs : step[p] \in {"place", "manifest", "record", "dry run", "apply"} =>
    snap[p].rows = db.rows /\ pending[p] \cap snap[p].applied = {}

CopyIsKept ==
  \A p \in Procs : step[p] \in {"record", "dry run", "apply"} =>
    [snap |-> snap[p], manifest |-> TRUE] \in backups

SomethingToApply ==
  \A p \in Procs : step[p] \in {"dry run", "apply"} => pending[p] # {}

FactInv ==
  /\ FactTypeOK
  /\ OnlyTheHolderWorks
  /\ PendingIsCurrent /\ CopyIsCurrent /\ CopyIsKept /\ SomethingToApply
  /\ EveryMigrationHasItsWayBack

\* What every use of these three shows of the process that takes the step.
LEMMA ReleaseEffect ==
  ASSUME FactTypeOK, NEW p \in Procs, Release(p)
  PROVE  /\ lock' \in Procs \cup {Nobody}
         /\ step' \in [Procs -> Steps] /\ pending' \in [Procs -> SUBSET Migrations]
         /\ snap' \in [Procs -> State]
         /\ step'[p] = "idle" /\ pending'[p] = {}
         /\ lock' = IF lock = p THEN Nobody ELSE lock
         /\ \A q \in Procs \ {p} : /\ step'[q] = step[q] /\ pending'[q] = pending[q]
                                   /\ snap'[q] = snap[q]
<1>1. Empty \in State
  BY DEF Empty, State, NoRun
<1> QED BY <1>1 DEF FactTypeOK, Release, Steps

LEMMA GotoEffect ==
  ASSUME FactTypeOK, NEW p \in Procs, NEW s \in Steps, Goto(p, s)
  PROVE  /\ lock' = lock /\ step' \in [Procs -> Steps] /\ step'[p] = s
         /\ \A q \in Procs \ {p} : step'[q] = step[q]
BY DEF FactTypeOK, Goto

LEMMA TakeLockEffect ==
  ASSUME FactTypeOK, NEW p \in Procs, NEW s \in Steps, TakeLock(p, s)
  PROVE  /\ lock = Nobody /\ lock' = p /\ step' \in [Procs -> Steps] /\ step'[p] = s
         /\ \A q \in Procs \ {p} : step'[q] = step[q]
BY DEF FactTypeOK, TakeLock

\* While a process holds the lock every other one is idle.
LEMMA TheOthersAreIdle ==
  ASSUME FactInv, NEW p \in Procs, step[p] # "idle"
  PROVE  lock = p /\ \A q \in Procs \ {p} : step[q] = "idle" /\ pending[q] = {}
BY DEF FactInv, OnlyTheHolderWorks, PendingIsCurrent

\* When nobody holds it, all are.
LEMMA AllAreIdle ==
  ASSUME FactInv, lock = Nobody
  PROVE  \A q \in Procs : step[q] = "idle" /\ pending[q] = {}
BY FactDatabaseAssumption DEF FactInv, OnlyTheHolderWorks, PendingIsCurrent

\* A process that gives up or is killed takes nothing with it that matters.
LEMMA ReleaseStep ==
  ASSUME FactInv, NEW p \in Procs, Release(p),
         UNCHANGED <<db, shipped, backups, named, restored, wayBack>>
  PROVE  FactInv'
<1>1. FactTypeOK
  BY DEF FactInv
<1>2. FactTypeOK'
  BY <1>1, ReleaseEffect DEF FactTypeOK
<1>3. OnlyTheHolderWorks'
  <2>1. \A q \in Procs \ {p} : step[q] # "idle" => lock = q
    BY DEF FactInv, OnlyTheHolderWorks
  <2> QED BY <1>1, <2>1, ReleaseEffect DEF OnlyTheHolderWorks
<1>4. PendingIsCurrent' /\ CopyIsCurrent' /\ CopyIsKept' /\ SomethingToApply'
  BY ZenonT(40), <1>1, ReleaseEffect
     DEF FactInv, PendingIsCurrent, CopyIsCurrent, CopyIsKept, SomethingToApply
<1>5. EveryMigrationHasItsWayBack'
  BY DEF FactInv, EveryMigrationHasItsWayBack
<1> QED BY <1>2, <1>3, <1>4, <1>5 DEF FactInv

\* A backup: with the migrations pending, or without any.
LEMMA StartStep ==
  ASSUME FactInv, NEW p \in Procs, TakeLock(p, "copy"),
         pending' \in [Procs -> SUBSET Migrations],
         pending'[p] \cap db.applied = {},
         \A q \in Procs \ {p} : pending'[q] = pending[q],
         UNCHANGED <<db, shipped, snap, backups, named, restored, wayBack>>
  PROVE  FactInv'
<1>1. FactTypeOK
  BY DEF FactInv
<1>2. /\ lock = Nobody /\ lock' = p /\ step' \in [Procs -> Steps] /\ step'[p] = "copy"
      /\ \A q \in Procs \ {p} : step'[q] = step[q]
  BY <1>1, TakeLockEffect DEF Steps
<1>3. \A q \in Procs \ {p} : step'[q] = "idle" /\ pending'[q] = {}
  BY <1>2, AllAreIdle
<1>4. FactTypeOK'
  BY <1>1, <1>2 DEF FactTypeOK
<1>5. OnlyTheHolderWorks'
  BY <1>2, <1>3 DEF OnlyTheHolderWorks
<1>6. PendingIsCurrent' /\ CopyIsCurrent' /\ CopyIsKept' /\ SomethingToApply'
  BY <1>2, <1>3 DEF PendingIsCurrent, CopyIsCurrent, CopyIsKept, SomethingToApply
<1>7. EveryMigrationHasItsWayBack'
  BY DEF FactInv, EveryMigrationHasItsWayBack
<1> QED BY <1>4, <1>5, <1>6, <1>7 DEF FactInv

\* From one step of the command to the next, nobody else being at work.
LEMMA CommandStep ==
  ASSUME FactInv, NEW p \in Procs, step[p] # "idle", NEW s \in Steps \ {"idle"}, Goto(p, s),
         FactTypeOK',
         \A q \in Procs \ {p} : pending'[q] = pending[q] /\ snap'[q] = snap[q],
         s = "copy" => pending'[p] \cap db'.applied = {},
         s \in {"place", "manifest", "record", "dry run", "apply"} =>
           snap'[p].rows = db'.rows /\ pending'[p] \cap snap'[p].applied = {},
         s \in {"record", "dry run", "apply"} =>
           [snap |-> snap'[p], manifest |-> TRUE] \in backups',
         s \in {"dry run", "apply"} => pending'[p] # {},
         EveryMigrationHasItsWayBack'
  PROVE  FactInv'
<1>1. /\ lock = p
      /\ \A q \in Procs \ {p} : step[q] = "idle" /\ pending[q] = {}
  BY TheOthersAreIdle DEF FactInv, PendingIsCurrent
<1>2. lock' = p /\ step'[p] = s /\ \A q \in Procs \ {p} : step'[q] = "idle"
  BY <1>1, GotoEffect DEF FactInv
<1>3. OnlyTheHolderWorks'
  BY <1>2 DEF OnlyTheHolderWorks
<1>4. PendingIsCurrent' /\ CopyIsCurrent' /\ CopyIsKept' /\ SomethingToApply'
  BY <1>1, <1>2 DEF PendingIsCurrent, CopyIsCurrent, CopyIsKept, SomethingToApply
<1> QED BY <1>3, <1>4 DEF FactInv

\* What is placed or completed stays, so a way back stays one.
LEMMA BackupsOnlyGrow ==
  ASSUME FactInv, UNCHANGED <<db, wayBack>>,
         \A b \in backups : b.manifest => b \in backups'
  PROVE  EveryMigrationHasItsWayBack'
BY DEF FactInv, EveryMigrationHasItsWayBack

LEMMA BackupStep ==
  ASSUME FactInv, NEW p \in Procs,
         \/ StartMigrate(p) \/ StartBackup(p) \/ CopyDatabase(p) \/ PlaceBackup(p)
         \/ BackupNameTaken(p) \/ WriteManifest(p)
  PROVE  FactInv'
<1>1. FactTypeOK
  BY DEF FactInv
<1>2. CASE StartMigrate(p)
  <2>1. (1 .. shipped) \ db.applied \in SUBSET Migrations
    BY <1>1, FactDatabaseAssumption DEF FactTypeOK, Migrations
  <2>2. pending' = [pending EXCEPT ![p] = (1 .. shipped) \ db.applied]
    BY <1>2 DEF StartMigrate
  <2>3. /\ pending' \in [Procs -> SUBSET Migrations]
        /\ pending'[p] \cap db.applied = {}
        /\ \A q \in Procs \ {p} : pending'[q] = pending[q]
    BY <1>1, <2>1, <2>2 DEF FactTypeOK
  <2> QED BY <1>2, <2>3, StartStep DEF StartMigrate
<1>3. CASE StartBackup(p)
  <2>1. pending'[p] = {}
    BY <1>3 DEF StartBackup, TakeLock, FactInv, PendingIsCurrent
  <2> QED BY <1>1, <1>3, <2>1, StartStep DEF StartBackup, FactTypeOK
<1>4. CASE CopyDatabase(p)
  <2>1. /\ snap' = [snap EXCEPT ![p] = db] /\ step[p] = "copy"
        /\ Goto(p, "place")
        /\ UNCHANGED <<db, shipped, pending, backups, named, restored, wayBack>>
    BY <1>4 DEF CopyDatabase
  <2>2. FactTypeOK'
    BY <1>1, <2>1, GotoEffect DEF FactTypeOK, Steps
  <2>3. pending[p] \cap db.applied = {}
    BY <2>1 DEF FactInv, PendingIsCurrent
  <2>4. snap'[p] = db /\ \A q \in Procs \ {p} : snap'[q] = snap[q]
    BY <1>1, <2>1 DEF FactTypeOK
  <2> QED BY <2>1, <2>2, <2>3, <2>4, CommandStep, BackupsOnlyGrow DEF Steps
<1>5. CASE PlaceBackup(p)
  <2>1. /\ step[p] = "place" /\ Goto(p, "manifest")
        /\ backups' = backups \cup {[snap |-> snap[p], manifest |-> FALSE]}
        /\ named' = named \cup {snap[p]}
        /\ UNCHANGED <<db, shipped, pending, snap, restored, wayBack>>
    BY <1>5 DEF PlaceBackup
  <2>2. snap[p] \in State /\ [snap |-> snap[p], manifest |-> FALSE] \in Backup
        /\ [snap |-> snap[p], manifest |-> TRUE] \in Backup
    BY <1>1 DEF FactTypeOK, Backup
  <2>3. FactTypeOK'
    BY <1>1, <2>1, <2>2, GotoEffect DEF FactTypeOK, Steps
  <2>4. snap[p].rows = db.rows /\ pending[p] \cap snap[p].applied = {}
    BY <2>1 DEF FactInv, CopyIsCurrent
  <2>5. EveryMigrationHasItsWayBack'
    BY <2>1, BackupsOnlyGrow
  <2> QED BY <2>1, <2>3, <2>4, <2>5, CommandStep DEF Steps
<1>6. CASE BackupNameTaken(p)
  BY <1>6, ReleaseStep DEF BackupNameTaken
<1>7. CASE WriteManifest(p)
  <2>1. /\ step[p] = "manifest" /\ Goto(p, "record")
        /\ backups' = (backups \ {[snap |-> snap[p], manifest |-> FALSE]})
                         \cup {[snap |-> snap[p], manifest |-> TRUE]}
        /\ UNCHANGED <<db, shipped, pending, snap, named, restored, wayBack>>
    BY <1>7 DEF WriteManifest
  <2>2. snap[p] \in State /\ [snap |-> snap[p], manifest |-> FALSE] \in Backup
        /\ [snap |-> snap[p], manifest |-> TRUE] \in Backup
    BY <1>1 DEF FactTypeOK, Backup
  <2>3. FactTypeOK'
    BY <1>1, <2>1, <2>2, GotoEffect DEF FactTypeOK, Steps
  <2>4. snap[p].rows = db.rows /\ pending[p] \cap snap[p].applied = {}
    BY <2>1 DEF FactInv, CopyIsCurrent
  <2>5. EveryMigrationHasItsWayBack'
    BY <2>1, BackupsOnlyGrow
  <2> QED BY <2>1, <2>3, <2>4, <2>5, CommandStep DEF Steps
<1> QED BY <1>2, <1>3, <1>4, <1>5, <1>6, <1>7

LEMMA MigrateStep ==
  ASSUME FactInv, NEW p \in Procs,
         RecordBackup(p) \/ DryRun(p) \/ ApplyOne(p) \/ ApplyFails(p)
  PROVE  FactInv'
<1>1. FactTypeOK
  BY DEF FactInv
<1>2. CASE RecordBackup(p)
  <2>1. /\ step[p] = "record"
        /\ db' = IF Migrated THEN [db EXCEPT !.records = @ + 1] ELSE db
        /\ UNCHANGED <<shipped, backups, named, restored, wayBack>>
    BY <1>2 DEF RecordBackup
  <2>2. db' \in State /\ db'.applied = db.applied /\ db'.rows = db.rows
    BY <1>1, <2>1 DEF FactTypeOK, State
  <2>3. EveryMigrationHasItsWayBack'
    BY <2>1, <2>2 DEF FactInv, EveryMigrationHasItsWayBack
  <2>4. CASE Release(p)
    <3>1. FactTypeOK'
      BY <1>1, <2>1, <2>2, <2>4, ReleaseEffect DEF FactTypeOK
    <3>2. \A q \in Procs : step'[q] = "idle" /\ pending'[q] = {}
      BY <1>1, <2>1, <2>4, TheOthersAreIdle, ReleaseEffect
    <3> QED BY <2>3, <3>1, <3>2 DEF FactInv, OnlyTheHolderWorks, PendingIsCurrent,
                                    CopyIsCurrent, CopyIsKept, SomethingToApply
  <2>5. CASE pending[p] # {} /\ Goto(p, "dry run") /\ UNCHANGED <<pending, snap>>
    <3>1. FactTypeOK'
      BY <1>1, <2>1, <2>2, <2>5, GotoEffect DEF FactTypeOK, Steps
    <3>2. /\ snap[p].rows = db.rows /\ pending[p] \cap snap[p].applied = {}
          /\ [snap |-> snap[p], manifest |-> TRUE] \in backups
      BY <2>1 DEF FactInv, CopyIsCurrent, CopyIsKept
    <3> QED BY <2>1, <2>2, <2>3, <2>5, <3>1, <3>2, CommandStep DEF Steps
  <2> QED BY <1>2, <2>4, <2>5 DEF RecordBackup
<1>3. CASE DryRun(p)
  <2>1. step[p] = "dry run" /\ UNCHANGED <<db, shipped, backups, named, restored, wayBack>>
    BY <1>3 DEF DryRun
  <2>2. CASE Release(p)
    BY <2>1, <2>2, ReleaseStep
  <2>3. CASE Goto(p, "apply") /\ UNCHANGED <<pending, snap>>
    <3>1. FactTypeOK'
      BY <1>1, <2>1, <2>3, GotoEffect DEF FactTypeOK, Steps
    <3>2. /\ snap[p].rows = db.rows /\ pending[p] \cap snap[p].applied = {}
          /\ [snap |-> snap[p], manifest |-> TRUE] \in backups /\ pending[p] # {}
      BY <2>1 DEF FactInv, CopyIsCurrent, CopyIsKept, SomethingToApply
    <3> QED BY <2>1, <2>3, <3>1, <3>2, CommandStep, BackupsOnlyGrow DEF Steps
  <2> QED BY <1>3, <2>2, <2>3 DEF DryRun
<1>4. CASE ApplyOne(p)
  <2> DEFINE m == Min(pending[p])
  <2>1. /\ step[p] = "apply"
        /\ db' = [db EXCEPT !.applied = @ \cup {m}]
        /\ wayBack' = [wayBack EXCEPT ![m] = db.rows]
        /\ UNCHANGED <<shipped, backups, named, restored>>
    BY <1>4 DEF ApplyOne
  <2>2. m \in pending[p] /\ m \in Migrations
    <3>1. pending[p] # {} /\ pending[p] \in SUBSET Migrations
      BY <1>1, <2>1 DEF FactInv, SomethingToApply, FactTypeOK
    <3>2. pending[p] \in SUBSET Nat
      BY <3>1 DEF Migrations
    <3> QED BY <3>1, <3>2, MinIsOneOfThem
  <2>3. /\ snap[p].rows = db.rows /\ pending[p] \cap snap[p].applied = {}
        /\ [snap |-> snap[p], manifest |-> TRUE] \in backups
    BY <2>1 DEF FactInv, CopyIsCurrent, CopyIsKept
  <2>4. (pending[p] = {m} /\ Release(p))
        \/ (/\ pending[p] # {m} /\ pending' = [pending EXCEPT ![p] = @ \ {m}]
            /\ UNCHANGED <<lock, step, snap>>)
    BY <1>4 DEF ApplyOne
  <2> HIDE DEF m
  <2>5. /\ db' \in State /\ db'.applied = db.applied \cup {m} /\ db'.rows = db.rows
        /\ wayBack' \in [Migrations -> Nat]
        /\ wayBack'[m] = db.rows
        /\ \A n \in db.applied \ {m} : wayBack'[n] = wayBack[n]
    BY <1>1, <2>1, <2>2 DEF FactTypeOK, State
  <2>6. EveryMigrationHasItsWayBack'
    <3> SUFFICES ASSUME NEW n \in db'.applied
                 PROVE  \E b \in backups : /\ b.manifest
                                           /\ n \notin b.snap.applied
                                           /\ b.snap.rows = wayBack'[n]
      BY <2>1 DEF EveryMigrationHasItsWayBack
    <3>1. CASE n = m
      <4> DEFINE b == [snap |-> snap[p], manifest |-> TRUE]
      <4>1. b.manifest /\ n \notin b.snap.applied /\ b.snap.rows = wayBack'[n]
        BY <2>2, <2>3, <2>5, <3>1
      <4> QED BY <2>3, <4>1
    <3>2. CASE n # m
      BY <2>5, <3>2 DEF FactInv, EveryMigrationHasItsWayBack
    <3> QED BY <3>1, <3>2
  <2>7. CASE Release(p)
    <3>1. FactTypeOK'
      BY <1>1, <2>1, <2>5, <2>7, ReleaseEffect DEF FactTypeOK
    <3>2. \A q \in Procs : step'[q] = "idle" /\ pending'[q] = {}
      BY <1>1, <2>1, <2>7, TheOthersAreIdle, ReleaseEffect
    <3> QED BY <2>6, <3>1, <3>2 DEF FactInv, OnlyTheHolderWorks, PendingIsCurrent,
                                    CopyIsCurrent, CopyIsKept, SomethingToApply
  <2>8. CASE /\ pending[p] # {m} /\ pending' = [pending EXCEPT ![p] = @ \ {m}]
             /\ UNCHANGED <<lock, step, snap>>
    <3>1. pending' \in [Procs -> SUBSET Migrations] /\ pending'[p] = pending[p] \ {m}
          /\ pending'[p] # {}
      BY <1>1, <2>2, <2>8 DEF FactTypeOK
    <3>2. FactTypeOK'
      BY <1>1, <2>1, <2>5, <2>8, <3>1 DEF FactTypeOK
    <3>3. lock = p /\ \A q \in Procs \ {p} : step[q] = "idle" /\ pending[q] = {}
      BY <2>1, TheOthersAreIdle
    <3>4. OnlyTheHolderWorks'
      BY <2>8, <3>3 DEF OnlyTheHolderWorks
    <3>5. PendingIsCurrent' /\ CopyIsCurrent' /\ CopyIsKept' /\ SomethingToApply'
      BY <2>1, <2>3, <2>5, <2>8, <3>1, <3>3
         DEF PendingIsCurrent, CopyIsCurrent, CopyIsKept, SomethingToApply
    <3> QED BY <2>6, <3>2, <3>4, <3>5 DEF FactInv
  <2> QED BY <2>4, <2>7, <2>8
<1>5. CASE ApplyFails(p)
  BY <1>5, ReleaseStep DEF ApplyFails
<1> QED BY <1>2, <1>3, <1>4, <1>5

LEMMA WriterStep ==
  ASSUME FactInv, NEW p \in Procs,
         AcquireLease(p) \/ WriteRow(p) \/ EndLease(p) \/ Kill(p)
  PROVE  FactInv'
<1>1. FactTypeOK
  BY DEF FactInv
<1>2. CASE AcquireLease(p)
  <2>1. /\ TakeLock(p, "write")
        /\ db' = [db EXCEPT !.run = [owner |-> p, expired |-> FALSE]]
        /\ UNCHANGED <<shipped, pending, snap, backups, named, restored, wayBack>>
    BY <1>2 DEF AcquireLease
  <2>2. db' \in State /\ db'.applied = db.applied
    BY <1>1, <2>1 DEF FactTypeOK, State
  <2>3. /\ lock = Nobody /\ lock' = p /\ step' \in [Procs -> Steps]
        /\ step'[p] = "write" /\ \A q \in Procs \ {p} : step'[q] = step[q]
    BY <1>1, <2>1, TakeLockEffect DEF Steps
  <2>4. \A q \in Procs \ {p} : step'[q] = "idle" /\ pending'[q] = {}
    BY <2>1, <2>3, AllAreIdle
  <2>5. FactTypeOK'
    BY <1>1, <2>1, <2>2, <2>3 DEF FactTypeOK
  <2>6. EveryMigrationHasItsWayBack'
    BY <2>1, <2>2 DEF FactInv, EveryMigrationHasItsWayBack
  <2> QED BY <2>3, <2>4, <2>5, <2>6
          DEF FactInv, OnlyTheHolderWorks, PendingIsCurrent, CopyIsCurrent,
              CopyIsKept, SomethingToApply
<1>3. CASE WriteRow(p)
  <2>1. /\ step[p] = "write" /\ db' = [db EXCEPT !.rows = @ + 1]
        /\ UNCHANGED <<shipped, lock, step, pending, snap, backups, named, restored,
                       wayBack>>
    BY <1>3 DEF WriteRow
  <2>2. db' \in State /\ db'.applied = db.applied
    BY <1>1, <2>1 DEF FactTypeOK, State
  <2>3. lock = p /\ \A q \in Procs \ {p} : step[q] = "idle" /\ pending[q] = {}
    BY <2>1, TheOthersAreIdle
  <2>4. FactTypeOK'
    BY <1>1, <2>1, <2>2 DEF FactTypeOK
  <2>5. EveryMigrationHasItsWayBack'
    BY <2>1, <2>2 DEF FactInv, EveryMigrationHasItsWayBack
  <2> QED BY <2>1, <2>3, <2>4, <2>5
          DEF FactInv, OnlyTheHolderWorks, PendingIsCurrent, CopyIsCurrent,
              CopyIsKept, SomethingToApply
<1>4. CASE EndLease(p)
  <2>1. /\ step[p] = "write" /\ db' = [db EXCEPT !.run = NoRun] /\ Release(p)
        /\ UNCHANGED <<shipped, backups, named, restored, wayBack>>
    BY <1>4 DEF EndLease
  <2>2. db' \in State /\ db'.applied = db.applied
    BY <1>1, <2>1 DEF FactTypeOK, State, NoRun
  <2>3. \A q \in Procs : step'[q] = "idle" /\ pending'[q] = {}
    BY <1>1, <2>1, TheOthersAreIdle, ReleaseEffect
  <2>4. FactTypeOK'
    BY <1>1, <2>1, <2>2, ReleaseEffect DEF FactTypeOK
  <2>5. EveryMigrationHasItsWayBack'
    BY <2>1, <2>2 DEF FactInv, EveryMigrationHasItsWayBack
  <2> QED BY <2>3, <2>4, <2>5
          DEF FactInv, OnlyTheHolderWorks, PendingIsCurrent, CopyIsCurrent,
              CopyIsKept, SomethingToApply
<1>5. CASE Kill(p)
  BY <1>5, ReleaseStep DEF Kill
<1> QED BY <1>2, <1>3, <1>4, <1>5

\* The steps that are nobody's command.
LEMMA SurroundingsStep ==
  ASSUME FactInv,
         \/ \E b \in backups : Restore(b)
         \/ LeaseExpires \/ ShipMigration \/ NextSecond
  PROVE  FactInv'
<1>1. FactTypeOK
  BY DEF FactInv
<1>2. UNCHANGED <<lock, step, pending, snap, backups, wayBack>>
  BY DEF Restore, LeaseExpires, ShipMigration, NextSecond
<1>3. db' \in State /\ db'.applied = db.applied /\ db'.rows = db.rows
  <2>1. CASE LeaseExpires
    BY <1>1, <2>1 DEF LeaseExpires, FactTypeOK, State
  <2>2. CASE ~ LeaseExpires
    <3>1. db' = db
      BY <2>2 DEF Restore, ShipMigration, NextSecond
    <3> QED BY <1>1, <3>1 DEF FactTypeOK, State
  <2> QED BY <2>1, <2>2
<1>4. shipped' \in Migrations
  BY <1>1, FactDatabaseAssumption
     DEF Restore, LeaseExpires, ShipMigration, NextSecond, FactTypeOK, Migrations
<1>5. named' \subseteq State /\ restored' \subseteq State
  BY <1>1 DEF Restore, LeaseExpires, ShipMigration, NextSecond, FactTypeOK, Backup
<1>6. FactTypeOK'
  BY <1>1, <1>2, <1>3, <1>4, <1>5 DEF FactTypeOK
<1> QED BY <1>2, <1>3, <1>6
        DEF FactInv, OnlyTheHolderWorks, PendingIsCurrent, CopyIsCurrent,
            CopyIsKept, SomethingToApply, EveryMigrationHasItsWayBack

LEMMA FactInvInductive ==
  /\ Init => FactInv
  /\ FactInv /\ [Next]_fvars => FactInv'
<1>1. ASSUME Init PROVE FactInv
  <2>1. Empty \in State
    BY DEF Empty, State, NoRun
  <2>2. 1 \in Migrations
    BY FactDatabaseAssumption DEF Migrations
  <2>3. FactTypeOK
    BY <1>1, <2>1, <2>2 DEF Init, FactTypeOK, Steps, Migrations
  <2> QED BY <1>1, <2>3
          DEF Init, FactInv, OnlyTheHolderWorks, PendingIsCurrent, CopyIsCurrent,
              CopyIsKept, SomethingToApply, EveryMigrationHasItsWayBack, Empty
<1>2. ASSUME FactInv, UNCHANGED fvars PROVE FactInv'
  BY <1>2 DEF fvars, FactInv, FactTypeOK, OnlyTheHolderWorks, PendingIsCurrent,
              CopyIsCurrent, CopyIsKept, SomethingToApply, EveryMigrationHasItsWayBack
<1>3. ASSUME FactInv, Next PROVE FactInv'
  <2>1. ASSUME NEW p \in Procs, Command(p) PROVE FactInv'
    BY <1>3, <2>1, BackupStep, MigrateStep, WriterStep DEF Command
  <2> QED BY <1>3, <2>1, SurroundingsStep DEF Next
<1> QED BY <1>1, <1>2, <1>3

\* Every migration in the database has a complete backup without it and with all
\* the rows there were, whoever was killed or wrote in between.
THEOREM MigrationsHaveTheirWayBack == FactSpec => []EveryMigrationHasItsWayBack
<1>1. FactInv => EveryMigrationHasItsWayBack
  BY DEF FactInv
<1> QED BY <1>1, FactInvInductive, PTL DEF FactSpec

\* The lease of a writer that is still writing does not change hands, though it
\* may run out under it: the next writer does not get past the lock.
THEOREM LivingWritersKeepTheirLease == FactSpec => NeverTakenFromALivingWriter
<1> DEFINE A == \A p \in Procs : (RunningOwner = p /\ step[p] = "write"
                                   /\ RunningOwner' # p) => step'[p] = "idle"
<1>1. FactInv /\ [Next]_fvars => [A]_fvars
  <2> SUFFICES ASSUME FactInv, Next, NEW p \in Procs, RunningOwner = p,
                      step[p] = "write", RunningOwner' # p
               PROVE  step'[p] = "idle"
    OBVIOUS
  <2>1. FactTypeOK /\ lock = p /\ \A q \in Procs \ {p} : step[q] = "idle"
    BY TheOthersAreIdle DEF FactInv
  <2>2. lock # Nobody
    BY <2>1, FactDatabaseAssumption
  <2>3. db'.run.owner # db.run.owner
    BY DEF RunningOwner
  <2>4. ASSUME NEW q \in Procs, Command(q) PROVE step'[p] = "idle"
    <3>1. ~ AcquireLease(q)
      BY <2>2 DEF AcquireLease, TakeLock
    <3>2. ASSUME EndLease(q) PROVE step'[p] = "idle"
      <4>1. q = p
        BY <2>1, <3>2 DEF EndLease
      <4> QED BY <2>1, <3>2, <4>1, ReleaseEffect DEF EndLease
    <3>3. ASSUME ~ EndLease(q), ~ AcquireLease(q) PROVE db'.run = db.run
      BY <2>1, <2>4, <3>3
         DEF Command, StartMigrate, StartBackup, CopyDatabase, PlaceBackup,
             BackupNameTaken, WriteManifest, RecordBackup, DryRun, ApplyOne,
             ApplyFails, WriteRow, Kill, FactTypeOK, State
    <3> QED BY <2>3, <3>1, <3>2, <3>3
  <2>5. ASSUME \/ \E b \in backups : Restore(b)
               \/ LeaseExpires \/ ShipMigration \/ NextSecond
        PROVE  db'.run.owner = db.run.owner
    BY <2>1, <2>5 DEF Restore, LeaseExpires, ShipMigration, NextSecond, FactTypeOK, State
  <2> QED BY <2>3, <2>4, <2>5 DEF Next
<1> QED BY <1>1, FactInvInductive, PTL DEF FactSpec, NeverTakenFromALivingWriter

(***************************************************************************)
(* The dry runs: what a connector is                                       *)
(*                                                                         *)
(* A connector is a literal sequence of steps. What the invariant needs of *)
(* each one is stated here as Sound, Single, Usual and Migrating, and      *)
(* proved of the eight sequences one by one, in the same steps.            *)
(***************************************************************************)

\* Step m of a connector inserts this row; a row q is inserted before step n.
Laid(p, m, t, i) == p[m].do = "insert" /\ p[m].row = <<t, i>>
Has(p, n, q)     == \E m \in 1..(n - 1) : p[m].do = "insert" /\ p[m].row = q

\* The tables whose rows refer to none.
Plain == {"subject", "metric", "source", "contract", "change", "release", "validation", "run"}

\* What the rows of the legacy datasets refer to is inserted before step n.
Founded(p, n) ==
    /\ Has(p, n, <<"subject", "listing">>)
    /\ Has(p, n, <<"metric", "legacy">>)
    /\ Has(p, n, <<"source", "one">>)
    /\ Has(p, n, <<"artifact", "endpoint">>)

\* Every row comes after the rows it refers to.
Closed(p) ==
    \A n \in 1..Len(p) : p[n].do = "insert" =>
        \A q \in Needs(p[n].row[1], p[n].row[2]) : Has(p, n, q)

\* Of every connector.
Sound(p) ==
    /\ Len(p) \in Nat /\ DOMAIN p = 1..Len(p)
    /\ \A n \in 1..Len(p) : p[n].do = "save" => p[n].row[1] \in AllDocs
    /\ Closed(p)
    /\ \A n \in 1..Len(p) : p[n].do = "datasets" => Founded(p, n)

\* Of all but 08: it begins by making its directory and hashing, and hashes only
\* then; it ends with its summary; and it reads nothing after it has compared.
Single(p) ==
    /\ Len(p) > 2
    /\ p[1].do = "mkdir" /\ p[2].do = "hash" /\ p[Len(p)].do = "summary"
    /\ \A n \in 1..Len(p) : p[n].do = "hash" => n = 2
    /\ \A n \in 1..Len(p) : p[n].do = "summary" => n = Len(p)
    /\ \A n, m \in 1..Len(p) :
           p[n].do = "compare" /\ p[m].do \in {"read", "datasets"} => m < n

\* Of the other connectors, and of the migrator: what is done before the summary.
Usual(p) ==
    /\ \E n \in 1..(Len(p) - 1) : p[n].do = "schema"
    /\ \E n \in 1..(Len(p) - 1) : p[n].do = "candidate"
    /\ \E n \in 1..(Len(p) - 1) : p[n].do = "compare"
    /\ \A n \in 1..Len(p) : p[n].do = "insert" => p[n].row # <<"run", "RUNNING">>
Migrating(p) ==
    /\ \E n \in 1..(Len(p) - 1) : p[n].do = "schema"
    /\ \E n \in 1..(Len(p) - 1) : p[n].do = "datasets"
    /\ \E n \in 1..(Len(p) - 1) : p[n].do = "mark"

LEMMA NeedsAre ==
    ASSUME NEW t, NEW i, NEW q \in Needs(t, i)
    PROVE  \/ t = "artifact" /\ q = <<"source", "one">>
           \/ /\ t = "observation"
              /\ \/ q = <<"subject", "listing">> \/ q = <<"metric", i>>
                 \/ q = <<"source", "one">> \/ q = <<"artifact", "endpoint">>
           \/ /\ t = "evidence"
              /\ q = <<"observation", i>> \/ q = <<"artifact", "endpoint">>
           \/ /\ t = "row"
              /\ q = <<"artifact", "endpoint">> \/ q = <<"subject", "listing">>
           \/ t = "fact" /\ q = <<"row", "one">>
           \/ /\ t = "fact" /\ i \in {"verified", "percent", "concept"}
              /\ q = <<"observation", i>>
           \/ t = "comparison" /\ i \in {"ratio", "percent"} /\ q = <<"fact", i>>
           \/ t = "series" /\ q = <<"row", "one">>
           \/ t = "execution" /\ q = <<"contract", "one">>
           \/ t = "derived" /\ (q = <<"subject", "listing">> \/ q = <<"metric", i>>)
           \/ t = "mapping" /\ q = <<"metric", "legacy">>
BY DEF Needs

LEMMA Table01 == Sound(Steps01) /\ Single(Steps01) /\ Usual(Steps01)
<1>1. Len(Steps01) = 22 /\ DOMAIN Steps01 = 1..22
    BY DEF Steps01, Opening, Registry01, Facts01, Closing01, Ending, Do, Row,
           FetchDoc, SaveDoc
<1>2. \A n \in 1..22 : Steps01[n].do = "save" => n \in {5, 6}
    BY DEF Steps01, Opening, Registry01, Facts01, Closing01, Ending, Do, Row,
           FetchDoc, SaveDoc
<1>3. Steps01[5].row[1] = "swagger" /\ Steps01[6].row[1] = "endpoint"
    BY DEF Steps01, Opening, Registry01, Facts01, Closing01, Ending, Do, Row,
           FetchDoc, SaveDoc
<1>4. \A n \in 1..22 : Steps01[n].do = "save" => Steps01[n].row[1] \in AllDocs
    BY <1>2, <1>3 DEF AllDocs
<1>5. /\ Laid(Steps01, 11, "subject", "listing")
      /\ Laid(Steps01, 12, "metric", "close")
      /\ Laid(Steps01, 13, "source", "one")
      /\ Laid(Steps01, 14, "artifact", "endpoint")
      /\ Laid(Steps01, 15, "contract", "one")
      /\ Laid(Steps01, 16, "observation", "close")
    BY DEF Laid, Steps01, Opening, Registry01, Facts01, Closing01, Ending, Do, Row,
           FetchDoc, SaveDoc
<1>6. /\ Steps01[14].row[1] = "artifact"
      /\ Steps01[16].row[1] = "observation"
      /\ Steps01[16].row[2] = "close"
      /\ Steps01[17].row[1] = "evidence"
      /\ Steps01[17].row[2] = "close"
      /\ Steps01[18].row[1] = "execution"
    BY DEF Steps01, Opening, Registry01, Facts01, Closing01, Ending, Do, Row,
           FetchDoc, SaveDoc
<1>7. \A n \in (1..22) \ {14, 16, 17, 18} :
         Steps01[n].do = "insert" => Steps01[n].row[1] \in Plain
    BY DEF Plain, Steps01, Opening, Registry01, Facts01, Closing01, Ending, Do, Row,
           FetchDoc, SaveDoc
<1>8. \A n \in 1..22 : Steps01[n].do = "insert" =>
         \/ n = 14 /\ Steps01[n].row[1] = "artifact"
         \/ n = 16 /\ Steps01[n].row[1] = "observation" /\ Steps01[n].row[2] = "close"
         \/ n = 17 /\ Steps01[n].row[1] = "evidence" /\ Steps01[n].row[2] = "close"
         \/ n = 18 /\ Steps01[n].row[1] = "execution"
         \/ Steps01[n].row[1] \in Plain
    BY <1>6, <1>7
<1>9. ASSUME NEW n \in 1..22, Steps01[n].do = "insert",
             NEW q \in Needs(Steps01[n].row[1], Steps01[n].row[2])
      PROVE  Has(Steps01, n, q)
  <2>1. PICK t, i : t = Steps01[n].row[1] /\ i = Steps01[n].row[2]
    OBVIOUS
  <2>2. q \in Needs(t, i)
    BY <2>1
  <2>3. \/ n = 14 /\ t = "artifact"
        \/ n = 16 /\ t = "observation" /\ i = "close"
        \/ n = 17 /\ t = "evidence" /\ i = "close"
        \/ n = 18 /\ t = "execution"
        \/ t \in Plain
    BY <1>8, <1>9, <2>1
  <2>4. \/ n = 14 /\ q \in {<<"source", "one">>}
        \/ n = 16 /\ q \in {<<"subject", "listing">>, <<"metric", "close">>,
                            <<"source", "one">>, <<"artifact", "endpoint">>}
        \/ n = 17 /\ q \in {<<"observation", "close">>, <<"artifact", "endpoint">>}
        \/ n = 18 /\ q \in {<<"contract", "one">>}
    BY <2>2, <2>3, NeedsAre DEF Plain
  <2> QED
    BY <1>5, <2>4 DEF Has, Laid
<1>10. \A n \in 1..22 : Steps01[n].do # "datasets"
    BY DEF Steps01, Opening, Registry01, Facts01, Closing01, Ending, Do, Row,
           FetchDoc, SaveDoc
<1>11. Sound(Steps01)
    BY <1>1, <1>4, <1>9, <1>10 DEF Sound, Closed
<1>12. /\ Steps01[1].do = "mkdir"
      /\ Steps01[2].do = "hash"
      /\ Steps01[22].do = "summary"
    BY DEF Steps01, Opening, Registry01, Facts01, Closing01, Ending, Do, Row,
           FetchDoc, SaveDoc
<1>13. \A n \in 1..22 : Steps01[n].do = "hash" => n = 2
    BY DEF Steps01, Opening, Registry01, Facts01, Closing01, Ending, Do, Row,
           FetchDoc, SaveDoc
<1>14. \A n \in 1..22 : Steps01[n].do = "summary" => n = 22
    BY DEF Steps01, Opening, Registry01, Facts01, Closing01, Ending, Do, Row,
           FetchDoc, SaveDoc
<1>15. \A n \in 1..22 : Steps01[n].do = "compare" => n = 20
    BY DEF Steps01, Opening, Registry01, Facts01, Closing01, Ending, Do, Row,
           FetchDoc, SaveDoc
<1>16. \A n \in 1..22 : Steps01[n].do = "read" => n < 20
    BY DEF Steps01, Opening, Registry01, Facts01, Closing01, Ending, Do, Row,
           FetchDoc, SaveDoc
<1>17. \A n, m \in 1..22 :
         Steps01[n].do = "compare" /\ Steps01[m].do \in {"read", "datasets"} => m < n
    BY <1>10, <1>15, <1>16
<1>18. Single(Steps01)
  <2>1. Len(Steps01) > 2 /\ Steps01[1].do = "mkdir" /\ Steps01[2].do = "hash"
    BY <1>1, <1>12
  <2>2. Steps01[Len(Steps01)].do = "summary"
    BY <1>1, <1>12
  <2>3. \A n \in 1..Len(Steps01) : Steps01[n].do = "hash" => n = 2
    BY <1>1, <1>13
  <2>4. \A n \in 1..Len(Steps01) : Steps01[n].do = "summary" => n = Len(Steps01)
    BY <1>1, <1>14
  <2>5. \A n, m \in 1..Len(Steps01) :
           Steps01[n].do = "compare" /\ Steps01[m].do \in {"read", "datasets"} => m < n
    BY <1>1, <1>17
  <2> QED
    BY <2>1, <2>2, <2>3, <2>4, <2>5 DEF Single
<1>19. /\ Steps01[8].do = "schema"
       /\ Steps01[21].do = "candidate"
       /\ Steps01[20].do = "compare"
    BY DEF Steps01, Opening, Registry01, Facts01, Closing01, Ending, Do, Row,
           FetchDoc, SaveDoc
<1>20. \A n \in 1..22 : Steps01[n].do = "insert" => Steps01[n].row # <<"run", "RUNNING">>
    BY DEF Steps01, Opening, Registry01, Facts01, Closing01, Ending, Do, Row,
           FetchDoc, SaveDoc
<1>21. Usual(Steps01)
    BY <1>1, <1>19, <1>20 DEF Usual
<1> QED
    BY <1>11, <1>18, <1>21

LEMMA Table02 == Sound(Steps02) /\ Single(Steps02) /\ Usual(Steps02)
<1>1. Len(Steps02) = 23 /\ DOMAIN Steps02 = 1..23
    BY DEF Steps02, Opening, Registry02, Facts02, Closing02, Ending, Do, Row,
           FetchDoc, SaveDoc
<1>2. \A n \in 1..23 : Steps02[n].do = "save" => n \in {5, 6}
    BY DEF Steps02, Opening, Registry02, Facts02, Closing02, Ending, Do, Row,
           FetchDoc, SaveDoc
<1>3. Steps02[5].row[1] = "swagger" /\ Steps02[6].row[1] = "endpoint"
    BY DEF Steps02, Opening, Registry02, Facts02, Closing02, Ending, Do, Row,
           FetchDoc, SaveDoc
<1>4. \A n \in 1..23 : Steps02[n].do = "save" => Steps02[n].row[1] \in AllDocs
    BY <1>2, <1>3 DEF AllDocs
<1>5. /\ Laid(Steps02, 9, "subject", "listing")
      /\ Laid(Steps02, 10, "metric", "verified")
      /\ Laid(Steps02, 11, "source", "one")
      /\ Laid(Steps02, 12, "artifact", "endpoint")
      /\ Laid(Steps02, 13, "contract", "one")
      /\ Laid(Steps02, 14, "row", "one")
      /\ Laid(Steps02, 15, "observation", "verified")
    BY DEF Laid, Steps02, Opening, Registry02, Facts02, Closing02, Ending, Do, Row,
           FetchDoc, SaveDoc
<1>6. /\ Steps02[12].row[1] = "artifact"
      /\ Steps02[14].row[1] = "row"
      /\ Steps02[15].row[1] = "observation"
      /\ Steps02[15].row[2] = "verified"
      /\ Steps02[16].row[1] = "evidence"
      /\ Steps02[16].row[2] = "verified"
      /\ Steps02[17].row[1] = "fact"
      /\ Steps02[17].row[2] = "verified"
      /\ Steps02[18].row[1] = "fact"
      /\ Steps02[18].row[2] = "amount"
      /\ Steps02[20].row[1] = "execution"
    BY DEF Steps02, Opening, Registry02, Facts02, Closing02, Ending, Do, Row,
           FetchDoc, SaveDoc
<1>7. \A n \in (1..23) \ {12, 14, 15, 16, 17, 18, 20} :
         Steps02[n].do = "insert" => Steps02[n].row[1] \in Plain
    BY DEF Plain, Steps02, Opening, Registry02, Facts02, Closing02, Ending, Do, Row,
           FetchDoc, SaveDoc
<1>8. \A n \in 1..23 : Steps02[n].do = "insert" =>
         \/ n = 12 /\ Steps02[n].row[1] = "artifact"
         \/ n = 14 /\ Steps02[n].row[1] = "row"
         \/ n = 15 /\ Steps02[n].row[1] = "observation" /\ Steps02[n].row[2] = "verified"
         \/ n = 16 /\ Steps02[n].row[1] = "evidence" /\ Steps02[n].row[2] = "verified"
         \/ n = 17 /\ Steps02[n].row[1] = "fact" /\ Steps02[n].row[2] = "verified"
         \/ n = 18 /\ Steps02[n].row[1] = "fact" /\ Steps02[n].row[2] = "amount"
         \/ n = 20 /\ Steps02[n].row[1] = "execution"
         \/ Steps02[n].row[1] \in Plain
    BY <1>6, <1>7
<1>9. ASSUME NEW n \in 1..23, Steps02[n].do = "insert",
             NEW q \in Needs(Steps02[n].row[1], Steps02[n].row[2])
      PROVE  Has(Steps02, n, q)
  <2>1. PICK t, i : t = Steps02[n].row[1] /\ i = Steps02[n].row[2]
    OBVIOUS
  <2>2. q \in Needs(t, i)
    BY <2>1
  <2>3. \/ n = 12 /\ t = "artifact"
        \/ n = 14 /\ t = "row"
        \/ n = 15 /\ t = "observation" /\ i = "verified"
        \/ n = 16 /\ t = "evidence" /\ i = "verified"
        \/ n = 17 /\ t = "fact" /\ i = "verified"
        \/ n = 18 /\ t = "fact" /\ i = "amount"
        \/ n = 20 /\ t = "execution"
        \/ t \in Plain
    BY <1>8, <1>9, <2>1
  <2>4. \/ n = 12 /\ q \in {<<"source", "one">>}
        \/ n = 14 /\ q \in {<<"artifact", "endpoint">>, <<"subject", "listing">>}
        \/ n = 15 /\ q \in {<<"subject", "listing">>, <<"metric", "verified">>,
                            <<"source", "one">>, <<"artifact", "endpoint">>}
        \/ n = 16 /\ q \in {<<"observation", "verified">>, <<"artifact", "endpoint">>}
        \/ n = 17 /\ q \in {<<"row", "one">>, <<"observation", "verified">>}
        \/ n = 18 /\ q \in {<<"row", "one">>}
        \/ n = 20 /\ q \in {<<"contract", "one">>}
    BY <2>2, <2>3, NeedsAre DEF Plain
  <2> QED
    BY <1>5, <2>4 DEF Has, Laid
<1>10. \A n \in 1..23 : Steps02[n].do # "datasets"
    BY DEF Steps02, Opening, Registry02, Facts02, Closing02, Ending, Do, Row,
           FetchDoc, SaveDoc
<1>11. Sound(Steps02)
    BY <1>1, <1>4, <1>9, <1>10 DEF Sound, Closed
<1>12. /\ Steps02[1].do = "mkdir"
      /\ Steps02[2].do = "hash"
      /\ Steps02[23].do = "summary"
    BY DEF Steps02, Opening, Registry02, Facts02, Closing02, Ending, Do, Row,
           FetchDoc, SaveDoc
<1>13. \A n \in 1..23 : Steps02[n].do = "hash" => n = 2
    BY DEF Steps02, Opening, Registry02, Facts02, Closing02, Ending, Do, Row,
           FetchDoc, SaveDoc
<1>14. \A n \in 1..23 : Steps02[n].do = "summary" => n = 23
    BY DEF Steps02, Opening, Registry02, Facts02, Closing02, Ending, Do, Row,
           FetchDoc, SaveDoc
<1>15. \A n \in 1..23 : Steps02[n].do = "compare" => n = 21
    BY DEF Steps02, Opening, Registry02, Facts02, Closing02, Ending, Do, Row,
           FetchDoc, SaveDoc
<1>16. \A n \in 1..23 : Steps02[n].do = "read" => n < 21
    BY DEF Steps02, Opening, Registry02, Facts02, Closing02, Ending, Do, Row,
           FetchDoc, SaveDoc
<1>17. \A n, m \in 1..23 :
         Steps02[n].do = "compare" /\ Steps02[m].do \in {"read", "datasets"} => m < n
    BY <1>10, <1>15, <1>16
<1>18. Single(Steps02)
  <2>1. Len(Steps02) > 2 /\ Steps02[1].do = "mkdir" /\ Steps02[2].do = "hash"
    BY <1>1, <1>12
  <2>2. Steps02[Len(Steps02)].do = "summary"
    BY <1>1, <1>12
  <2>3. \A n \in 1..Len(Steps02) : Steps02[n].do = "hash" => n = 2
    BY <1>1, <1>13
  <2>4. \A n \in 1..Len(Steps02) : Steps02[n].do = "summary" => n = Len(Steps02)
    BY <1>1, <1>14
  <2>5. \A n, m \in 1..Len(Steps02) :
           Steps02[n].do = "compare" /\ Steps02[m].do \in {"read", "datasets"} => m < n
    BY <1>1, <1>17
  <2> QED
    BY <2>1, <2>2, <2>3, <2>4, <2>5 DEF Single
<1>19. /\ Steps02[8].do = "schema"
       /\ Steps02[22].do = "candidate"
       /\ Steps02[21].do = "compare"
    BY DEF Steps02, Opening, Registry02, Facts02, Closing02, Ending, Do, Row,
           FetchDoc, SaveDoc
<1>20. \A n \in 1..23 : Steps02[n].do = "insert" => Steps02[n].row # <<"run", "RUNNING">>
    BY DEF Steps02, Opening, Registry02, Facts02, Closing02, Ending, Do, Row,
           FetchDoc, SaveDoc
<1>21. Usual(Steps02)
    BY <1>1, <1>19, <1>20 DEF Usual
<1> QED
    BY <1>11, <1>18, <1>21

LEMMA Table03 == Sound(Steps03) /\ Single(Steps03) /\ Usual(Steps03)
<1>1. Len(Steps03) = 22 /\ DOMAIN Steps03 = 1..22
    BY DEF Steps03, Opening, Registry03, Facts03, Closing03, Ending, Do, Row,
           FetchDoc, SaveDoc
<1>2. \A n \in 1..22 : Steps03[n].do = "save" => n \in {5, 6}
    BY DEF Steps03, Opening, Registry03, Facts03, Closing03, Ending, Do, Row,
           FetchDoc, SaveDoc
<1>3. Steps03[5].row[1] = "swagger" /\ Steps03[6].row[1] = "endpoint"
    BY DEF Steps03, Opening, Registry03, Facts03, Closing03, Ending, Do, Row,
           FetchDoc, SaveDoc
<1>4. \A n \in 1..22 : Steps03[n].do = "save" => Steps03[n].row[1] \in AllDocs
    BY <1>2, <1>3 DEF AllDocs
<1>5. /\ Laid(Steps03, 10, "subject", "listing")
      /\ Laid(Steps03, 11, "source", "one")
      /\ Laid(Steps03, 12, "artifact", "endpoint")
      /\ Laid(Steps03, 13, "contract", "one")
      /\ Laid(Steps03, 14, "row", "one")
      /\ Laid(Steps03, 16, "fact", "ratio")
    BY DEF Laid, Steps03, Opening, Registry03, Facts03, Closing03, Ending, Do, Row,
           FetchDoc, SaveDoc
<1>6. /\ Steps03[12].row[1] = "artifact"
      /\ Steps03[14].row[1] = "row"
      /\ Steps03[15].row[1] = "fact"
      /\ Steps03[15].row[2] = "amount"
      /\ Steps03[16].row[1] = "fact"
      /\ Steps03[16].row[2] = "ratio"
      /\ Steps03[17].row[1] = "comparison"
      /\ Steps03[17].row[2] = "ratio"
      /\ Steps03[19].row[1] = "execution"
    BY DEF Steps03, Opening, Registry03, Facts03, Closing03, Ending, Do, Row,
           FetchDoc, SaveDoc
<1>7. \A n \in (1..22) \ {12, 14, 15, 16, 17, 19} :
         Steps03[n].do = "insert" => Steps03[n].row[1] \in Plain
    BY DEF Plain, Steps03, Opening, Registry03, Facts03, Closing03, Ending, Do, Row,
           FetchDoc, SaveDoc
<1>8. \A n \in 1..22 : Steps03[n].do = "insert" =>
         \/ n = 12 /\ Steps03[n].row[1] = "artifact"
         \/ n = 14 /\ Steps03[n].row[1] = "row"
         \/ n = 15 /\ Steps03[n].row[1] = "fact" /\ Steps03[n].row[2] = "amount"
         \/ n = 16 /\ Steps03[n].row[1] = "fact" /\ Steps03[n].row[2] = "ratio"
         \/ n = 17 /\ Steps03[n].row[1] = "comparison" /\ Steps03[n].row[2] = "ratio"
         \/ n = 19 /\ Steps03[n].row[1] = "execution"
         \/ Steps03[n].row[1] \in Plain
    BY <1>6, <1>7
<1>9. ASSUME NEW n \in 1..22, Steps03[n].do = "insert",
             NEW q \in Needs(Steps03[n].row[1], Steps03[n].row[2])
      PROVE  Has(Steps03, n, q)
  <2>1. PICK t, i : t = Steps03[n].row[1] /\ i = Steps03[n].row[2]
    OBVIOUS
  <2>2. q \in Needs(t, i)
    BY <2>1
  <2>3. \/ n = 12 /\ t = "artifact"
        \/ n = 14 /\ t = "row"
        \/ n = 15 /\ t = "fact" /\ i = "amount"
        \/ n = 16 /\ t = "fact" /\ i = "ratio"
        \/ n = 17 /\ t = "comparison" /\ i = "ratio"
        \/ n = 19 /\ t = "execution"
        \/ t \in Plain
    BY <1>8, <1>9, <2>1
  <2>4. \/ n = 12 /\ q \in {<<"source", "one">>}
        \/ n = 14 /\ q \in {<<"artifact", "endpoint">>, <<"subject", "listing">>}
        \/ n = 15 /\ q \in {<<"row", "one">>}
        \/ n = 16 /\ q \in {<<"row", "one">>}
        \/ n = 17 /\ q \in {<<"fact", "ratio">>}
        \/ n = 19 /\ q \in {<<"contract", "one">>}
    BY <2>2, <2>3, NeedsAre DEF Plain
  <2> QED
    BY <1>5, <2>4 DEF Has, Laid
<1>10. \A n \in 1..22 : Steps03[n].do # "datasets"
    BY DEF Steps03, Opening, Registry03, Facts03, Closing03, Ending, Do, Row,
           FetchDoc, SaveDoc
<1>11. Sound(Steps03)
    BY <1>1, <1>4, <1>9, <1>10 DEF Sound, Closed
<1>12. /\ Steps03[1].do = "mkdir"
      /\ Steps03[2].do = "hash"
      /\ Steps03[22].do = "summary"
    BY DEF Steps03, Opening, Registry03, Facts03, Closing03, Ending, Do, Row,
           FetchDoc, SaveDoc
<1>13. \A n \in 1..22 : Steps03[n].do = "hash" => n = 2
    BY DEF Steps03, Opening, Registry03, Facts03, Closing03, Ending, Do, Row,
           FetchDoc, SaveDoc
<1>14. \A n \in 1..22 : Steps03[n].do = "summary" => n = 22
    BY DEF Steps03, Opening, Registry03, Facts03, Closing03, Ending, Do, Row,
           FetchDoc, SaveDoc
<1>15. \A n \in 1..22 : Steps03[n].do = "compare" => n = 20
    BY DEF Steps03, Opening, Registry03, Facts03, Closing03, Ending, Do, Row,
           FetchDoc, SaveDoc
<1>16. \A n \in 1..22 : Steps03[n].do = "read" => n < 20
    BY DEF Steps03, Opening, Registry03, Facts03, Closing03, Ending, Do, Row,
           FetchDoc, SaveDoc
<1>17. \A n, m \in 1..22 :
         Steps03[n].do = "compare" /\ Steps03[m].do \in {"read", "datasets"} => m < n
    BY <1>10, <1>15, <1>16
<1>18. Single(Steps03)
  <2>1. Len(Steps03) > 2 /\ Steps03[1].do = "mkdir" /\ Steps03[2].do = "hash"
    BY <1>1, <1>12
  <2>2. Steps03[Len(Steps03)].do = "summary"
    BY <1>1, <1>12
  <2>3. \A n \in 1..Len(Steps03) : Steps03[n].do = "hash" => n = 2
    BY <1>1, <1>13
  <2>4. \A n \in 1..Len(Steps03) : Steps03[n].do = "summary" => n = Len(Steps03)
    BY <1>1, <1>14
  <2>5. \A n, m \in 1..Len(Steps03) :
           Steps03[n].do = "compare" /\ Steps03[m].do \in {"read", "datasets"} => m < n
    BY <1>1, <1>17
  <2> QED
    BY <2>1, <2>2, <2>3, <2>4, <2>5 DEF Single
<1>19. /\ Steps03[8].do = "schema"
       /\ Steps03[21].do = "candidate"
       /\ Steps03[20].do = "compare"
    BY DEF Steps03, Opening, Registry03, Facts03, Closing03, Ending, Do, Row,
           FetchDoc, SaveDoc
<1>20. \A n \in 1..22 : Steps03[n].do = "insert" => Steps03[n].row # <<"run", "RUNNING">>
    BY DEF Steps03, Opening, Registry03, Facts03, Closing03, Ending, Do, Row,
           FetchDoc, SaveDoc
<1>21. Usual(Steps03)
    BY <1>1, <1>19, <1>20 DEF Usual
<1> QED
    BY <1>11, <1>18, <1>21

LEMMA Table05 == Sound(Steps05) /\ Single(Steps05) /\ Usual(Steps05)
<1>1. Len(Steps05) = 24 /\ DOMAIN Steps05 = 1..24
    BY DEF Steps05, Opening, Registry05, Facts05, Closing05, Ending, Do, Row,
           FetchDoc, SaveDoc
<1>2. \A n \in 1..24 : Steps05[n].do = "save" => n \in {5, 6}
    BY DEF Steps05, Opening, Registry05, Facts05, Closing05, Ending, Do, Row,
           FetchDoc, SaveDoc
<1>3. Steps05[5].row[1] = "swagger" /\ Steps05[6].row[1] = "endpoint"
    BY DEF Steps05, Opening, Registry05, Facts05, Closing05, Ending, Do, Row,
           FetchDoc, SaveDoc
<1>4. \A n \in 1..24 : Steps05[n].do = "save" => Steps05[n].row[1] \in AllDocs
    BY <1>2, <1>3 DEF AllDocs
<1>5. /\ Laid(Steps05, 9, "subject", "listing")
      /\ Laid(Steps05, 10, "source", "one")
      /\ Laid(Steps05, 11, "artifact", "endpoint")
      /\ Laid(Steps05, 12, "contract", "one")
      /\ Laid(Steps05, 13, "row", "one")
      /\ Laid(Steps05, 15, "metric", "percent")
      /\ Laid(Steps05, 16, "observation", "percent")
      /\ Laid(Steps05, 18, "fact", "percent")
    BY DEF Laid, Steps05, Opening, Registry05, Facts05, Closing05, Ending, Do, Row,
           FetchDoc, SaveDoc
<1>6. /\ Steps05[11].row[1] = "artifact"
      /\ Steps05[13].row[1] = "row"
      /\ Steps05[14].row[1] = "fact"
      /\ Steps05[14].row[2] = "amount"
      /\ Steps05[16].row[1] = "observation"
      /\ Steps05[16].row[2] = "percent"
      /\ Steps05[17].row[1] = "evidence"
      /\ Steps05[17].row[2] = "percent"
      /\ Steps05[18].row[1] = "fact"
      /\ Steps05[18].row[2] = "percent"
      /\ Steps05[19].row[1] = "comparison"
      /\ Steps05[19].row[2] = "percent"
      /\ Steps05[21].row[1] = "execution"
    BY DEF Steps05, Opening, Registry05, Facts05, Closing05, Ending, Do, Row,
           FetchDoc, SaveDoc
<1>7. \A n \in (1..24) \ {11, 13, 14, 16, 17, 18, 19, 21} :
         Steps05[n].do = "insert" => Steps05[n].row[1] \in Plain
    BY DEF Plain, Steps05, Opening, Registry05, Facts05, Closing05, Ending, Do, Row,
           FetchDoc, SaveDoc
<1>8. \A n \in 1..24 : Steps05[n].do = "insert" =>
         \/ n = 11 /\ Steps05[n].row[1] = "artifact"
         \/ n = 13 /\ Steps05[n].row[1] = "row"
         \/ n = 14 /\ Steps05[n].row[1] = "fact" /\ Steps05[n].row[2] = "amount"
         \/ n = 16 /\ Steps05[n].row[1] = "observation" /\ Steps05[n].row[2] = "percent"
         \/ n = 17 /\ Steps05[n].row[1] = "evidence" /\ Steps05[n].row[2] = "percent"
         \/ n = 18 /\ Steps05[n].row[1] = "fact" /\ Steps05[n].row[2] = "percent"
         \/ n = 19 /\ Steps05[n].row[1] = "comparison" /\ Steps05[n].row[2] = "percent"
         \/ n = 21 /\ Steps05[n].row[1] = "execution"
         \/ Steps05[n].row[1] \in Plain
    BY <1>6, <1>7
<1>9. ASSUME NEW n \in 1..24, Steps05[n].do = "insert",
             NEW q \in Needs(Steps05[n].row[1], Steps05[n].row[2])
      PROVE  Has(Steps05, n, q)
  <2>1. PICK t, i : t = Steps05[n].row[1] /\ i = Steps05[n].row[2]
    OBVIOUS
  <2>2. q \in Needs(t, i)
    BY <2>1
  <2>3. \/ n = 11 /\ t = "artifact"
        \/ n = 13 /\ t = "row"
        \/ n = 14 /\ t = "fact" /\ i = "amount"
        \/ n = 16 /\ t = "observation" /\ i = "percent"
        \/ n = 17 /\ t = "evidence" /\ i = "percent"
        \/ n = 18 /\ t = "fact" /\ i = "percent"
        \/ n = 19 /\ t = "comparison" /\ i = "percent"
        \/ n = 21 /\ t = "execution"
        \/ t \in Plain
    BY <1>8, <1>9, <2>1
  <2>4. \/ n = 11 /\ q \in {<<"source", "one">>}
        \/ n = 13 /\ q \in {<<"artifact", "endpoint">>, <<"subject", "listing">>}
        \/ n = 14 /\ q \in {<<"row", "one">>}
        \/ n = 16 /\ q \in {<<"subject", "listing">>, <<"metric", "percent">>,
                            <<"source", "one">>, <<"artifact", "endpoint">>}
        \/ n = 17 /\ q \in {<<"observation", "percent">>, <<"artifact", "endpoint">>}
        \/ n = 18 /\ q \in {<<"row", "one">>, <<"observation", "percent">>}
        \/ n = 19 /\ q \in {<<"fact", "percent">>}
        \/ n = 21 /\ q \in {<<"contract", "one">>}
    BY <2>2, <2>3, NeedsAre DEF Plain
  <2> QED
    BY <1>5, <2>4 DEF Has, Laid
<1>10. \A n \in 1..24 : Steps05[n].do # "datasets"
    BY DEF Steps05, Opening, Registry05, Facts05, Closing05, Ending, Do, Row,
           FetchDoc, SaveDoc
<1>11. Sound(Steps05)
    BY <1>1, <1>4, <1>9, <1>10 DEF Sound, Closed
<1>12. /\ Steps05[1].do = "mkdir"
      /\ Steps05[2].do = "hash"
      /\ Steps05[24].do = "summary"
    BY DEF Steps05, Opening, Registry05, Facts05, Closing05, Ending, Do, Row,
           FetchDoc, SaveDoc
<1>13. \A n \in 1..24 : Steps05[n].do = "hash" => n = 2
    BY DEF Steps05, Opening, Registry05, Facts05, Closing05, Ending, Do, Row,
           FetchDoc, SaveDoc
<1>14. \A n \in 1..24 : Steps05[n].do = "summary" => n = 24
    BY DEF Steps05, Opening, Registry05, Facts05, Closing05, Ending, Do, Row,
           FetchDoc, SaveDoc
<1>15. \A n \in 1..24 : Steps05[n].do = "compare" => n = 22
    BY DEF Steps05, Opening, Registry05, Facts05, Closing05, Ending, Do, Row,
           FetchDoc, SaveDoc
<1>16. \A n \in 1..24 : Steps05[n].do = "read" => n < 22
    BY DEF Steps05, Opening, Registry05, Facts05, Closing05, Ending, Do, Row,
           FetchDoc, SaveDoc
<1>17. \A n, m \in 1..24 :
         Steps05[n].do = "compare" /\ Steps05[m].do \in {"read", "datasets"} => m < n
    BY <1>10, <1>15, <1>16
<1>18. Single(Steps05)
  <2>1. Len(Steps05) > 2 /\ Steps05[1].do = "mkdir" /\ Steps05[2].do = "hash"
    BY <1>1, <1>12
  <2>2. Steps05[Len(Steps05)].do = "summary"
    BY <1>1, <1>12
  <2>3. \A n \in 1..Len(Steps05) : Steps05[n].do = "hash" => n = 2
    BY <1>1, <1>13
  <2>4. \A n \in 1..Len(Steps05) : Steps05[n].do = "summary" => n = Len(Steps05)
    BY <1>1, <1>14
  <2>5. \A n, m \in 1..Len(Steps05) :
           Steps05[n].do = "compare" /\ Steps05[m].do \in {"read", "datasets"} => m < n
    BY <1>1, <1>17
  <2> QED
    BY <2>1, <2>2, <2>3, <2>4, <2>5 DEF Single
<1>19. /\ Steps05[8].do = "schema"
       /\ Steps05[23].do = "candidate"
       /\ Steps05[22].do = "compare"
    BY DEF Steps05, Opening, Registry05, Facts05, Closing05, Ending, Do, Row,
           FetchDoc, SaveDoc
<1>20. \A n \in 1..24 : Steps05[n].do = "insert" => Steps05[n].row # <<"run", "RUNNING">>
    BY DEF Steps05, Opening, Registry05, Facts05, Closing05, Ending, Do, Row,
           FetchDoc, SaveDoc
<1>21. Usual(Steps05)
    BY <1>1, <1>19, <1>20 DEF Usual
<1> QED
    BY <1>11, <1>18, <1>21

LEMMA Table06 == Sound(Steps06) /\ Single(Steps06) /\ Usual(Steps06)
<1>1. Len(Steps06) = 31 /\ DOMAIN Steps06 = 1..31
    BY DEF Steps06, Opening, Registry06, Facts06, Closing06, Ending, Do, Row,
           FetchDoc, SaveDoc
<1>2. \A n \in 1..31 : Steps06[n].do = "save" => n \in {9, 10, 11}
    BY DEF Steps06, Opening, Registry06, Facts06, Closing06, Ending, Do, Row,
           FetchDoc, SaveDoc
<1>3. /\ Steps06[9].row[1] = "discovery"
      /\ Steps06[10].row[1] = "endpoint"
      /\ Steps06[11].row[1] = "manual"
    BY DEF Steps06, Opening, Registry06, Facts06, Closing06, Ending, Do, Row,
           FetchDoc, SaveDoc
<1>4. \A n \in 1..31 : Steps06[n].do = "save" => Steps06[n].row[1] \in AllDocs
    BY <1>2, <1>3 DEF AllDocs
<1>5. /\ Laid(Steps06, 13, "subject", "listing")
      /\ Laid(Steps06, 14, "source", "one")
      /\ Laid(Steps06, 16, "artifact", "endpoint")
      /\ Laid(Steps06, 18, "contract", "one")
      /\ Laid(Steps06, 19, "row", "one")
      /\ Laid(Steps06, 20, "metric", "concept")
      /\ Laid(Steps06, 21, "observation", "concept")
    BY DEF Laid, Steps06, Opening, Registry06, Facts06, Closing06, Ending, Do, Row,
           FetchDoc, SaveDoc
<1>6. /\ Steps06[15].row[1] = "artifact"
      /\ Steps06[16].row[1] = "artifact"
      /\ Steps06[17].row[1] = "artifact"
      /\ Steps06[19].row[1] = "row"
      /\ Steps06[21].row[1] = "observation"
      /\ Steps06[21].row[2] = "concept"
      /\ Steps06[22].row[1] = "fact"
      /\ Steps06[22].row[2] = "concept"
      /\ Steps06[23].row[1] = "evidence"
      /\ Steps06[23].row[2] = "concept"
      /\ Steps06[25].row[1] = "comparison"
      /\ Steps06[25].row[2] = "concept"
      /\ Steps06[26].row[1] = "comparison"
      /\ Steps06[26].row[2] = "manual"
      /\ Steps06[28].row[1] = "execution"
    BY DEF Steps06, Opening, Registry06, Facts06, Closing06, Ending, Do, Row,
           FetchDoc, SaveDoc
<1>7. \A n \in (1..31) \ {15, 16, 17, 19, 21, 22, 23, 25, 26, 28} :
         Steps06[n].do = "insert" => Steps06[n].row[1] \in Plain
    BY DEF Plain, Steps06, Opening, Registry06, Facts06, Closing06, Ending, Do, Row,
           FetchDoc, SaveDoc
<1>8. \A n \in 1..31 : Steps06[n].do = "insert" =>
         \/ n = 15 /\ Steps06[n].row[1] = "artifact"
         \/ n = 16 /\ Steps06[n].row[1] = "artifact"
         \/ n = 17 /\ Steps06[n].row[1] = "artifact"
         \/ n = 19 /\ Steps06[n].row[1] = "row"
         \/ n = 21 /\ Steps06[n].row[1] = "observation" /\ Steps06[n].row[2] = "concept"
         \/ n = 22 /\ Steps06[n].row[1] = "fact" /\ Steps06[n].row[2] = "concept"
         \/ n = 23 /\ Steps06[n].row[1] = "evidence" /\ Steps06[n].row[2] = "concept"
         \/ n = 28 /\ Steps06[n].row[1] = "execution"
         \/ Steps06[n].row[1] = "comparison" /\ Steps06[n].row[2] \in {"concept", "manual"}
         \/ Steps06[n].row[1] \in Plain
    BY <1>6, <1>7
<1>9. ASSUME NEW n \in 1..31, Steps06[n].do = "insert",
             NEW q \in Needs(Steps06[n].row[1], Steps06[n].row[2])
      PROVE  Has(Steps06, n, q)
  <2>1. PICK t, i : t = Steps06[n].row[1] /\ i = Steps06[n].row[2]
    OBVIOUS
  <2>2. q \in Needs(t, i)
    BY <2>1
  <2>3. \/ n = 15 /\ t = "artifact"
        \/ n = 16 /\ t = "artifact"
        \/ n = 17 /\ t = "artifact"
        \/ n = 19 /\ t = "row"
        \/ n = 21 /\ t = "observation" /\ i = "concept"
        \/ n = 22 /\ t = "fact" /\ i = "concept"
        \/ n = 23 /\ t = "evidence" /\ i = "concept"
        \/ n = 28 /\ t = "execution"
        \/ t = "comparison" /\ i \in {"concept", "manual"}
        \/ t \in Plain
    BY <1>8, <1>9, <2>1
  <2>4. \/ n = 15 /\ q \in {<<"source", "one">>}
        \/ n = 16 /\ q \in {<<"source", "one">>}
        \/ n = 17 /\ q \in {<<"source", "one">>}
        \/ n = 19 /\ q \in {<<"artifact", "endpoint">>, <<"subject", "listing">>}
        \/ n = 21 /\ q \in {<<"subject", "listing">>, <<"metric", "concept">>,
                            <<"source", "one">>, <<"artifact", "endpoint">>}
        \/ n = 22 /\ q \in {<<"row", "one">>, <<"observation", "concept">>}
        \/ n = 23 /\ q \in {<<"observation", "concept">>, <<"artifact", "endpoint">>}
        \/ n = 28 /\ q \in {<<"contract", "one">>}
    BY <2>2, <2>3, NeedsAre DEF Plain
  <2> QED
    BY <1>5, <2>4 DEF Has, Laid
<1>10. \A n \in 1..31 : Steps06[n].do # "datasets"
    BY DEF Steps06, Opening, Registry06, Facts06, Closing06, Ending, Do, Row,
           FetchDoc, SaveDoc
<1>11. Sound(Steps06)
    BY <1>1, <1>4, <1>9, <1>10 DEF Sound, Closed
<1>12. /\ Steps06[1].do = "mkdir"
      /\ Steps06[2].do = "hash"
      /\ Steps06[31].do = "summary"
    BY DEF Steps06, Opening, Registry06, Facts06, Closing06, Ending, Do, Row,
           FetchDoc, SaveDoc
<1>13. \A n \in 1..31 : Steps06[n].do = "hash" => n = 2
    BY DEF Steps06, Opening, Registry06, Facts06, Closing06, Ending, Do, Row,
           FetchDoc, SaveDoc
<1>14. \A n \in 1..31 : Steps06[n].do = "summary" => n = 31
    BY DEF Steps06, Opening, Registry06, Facts06, Closing06, Ending, Do, Row,
           FetchDoc, SaveDoc
<1>15. \A n \in 1..31 : Steps06[n].do = "compare" => n = 29
    BY DEF Steps06, Opening, Registry06, Facts06, Closing06, Ending, Do, Row,
           FetchDoc, SaveDoc
<1>16. \A n \in 1..31 : Steps06[n].do = "read" => n < 29
    BY DEF Steps06, Opening, Registry06, Facts06, Closing06, Ending, Do, Row,
           FetchDoc, SaveDoc
<1>17. \A n, m \in 1..31 :
         Steps06[n].do = "compare" /\ Steps06[m].do \in {"read", "datasets"} => m < n
    BY <1>10, <1>15, <1>16
<1>18. Single(Steps06)
  <2>1. Len(Steps06) > 2 /\ Steps06[1].do = "mkdir" /\ Steps06[2].do = "hash"
    BY <1>1, <1>12
  <2>2. Steps06[Len(Steps06)].do = "summary"
    BY <1>1, <1>12
  <2>3. \A n \in 1..Len(Steps06) : Steps06[n].do = "hash" => n = 2
    BY <1>1, <1>13
  <2>4. \A n \in 1..Len(Steps06) : Steps06[n].do = "summary" => n = Len(Steps06)
    BY <1>1, <1>14
  <2>5. \A n, m \in 1..Len(Steps06) :
           Steps06[n].do = "compare" /\ Steps06[m].do \in {"read", "datasets"} => m < n
    BY <1>1, <1>17
  <2> QED
    BY <2>1, <2>2, <2>3, <2>4, <2>5 DEF Single
<1>19. /\ Steps06[12].do = "schema"
       /\ Steps06[30].do = "candidate"
       /\ Steps06[29].do = "compare"
    BY DEF Steps06, Opening, Registry06, Facts06, Closing06, Ending, Do, Row,
           FetchDoc, SaveDoc
<1>20. \A n \in 1..31 : Steps06[n].do = "insert" => Steps06[n].row # <<"run", "RUNNING">>
    BY DEF Steps06, Opening, Registry06, Facts06, Closing06, Ending, Do, Row,
           FetchDoc, SaveDoc
<1>21. Usual(Steps06)
    BY <1>1, <1>19, <1>20 DEF Usual
<1> QED
    BY <1>11, <1>18, <1>21

LEMMA Table07 == Sound(Steps07) /\ Single(Steps07) /\ Usual(Steps07)
<1>1. Len(Steps07) = 19 /\ DOMAIN Steps07 = 1..19
    BY DEF Steps07, Opening, Rows07, Do, Row, FetchDoc, SaveDoc
<1>2. \A n \in 1..19 : Steps07[n].do = "save" => n \in {5}
    BY DEF Steps07, Opening, Rows07, Do, Row, FetchDoc, SaveDoc
<1>3. Steps07[5].row[1] = "endpoint"
    BY DEF Steps07, Opening, Rows07, Do, Row, FetchDoc, SaveDoc
<1>4. \A n \in 1..19 : Steps07[n].do = "save" => Steps07[n].row[1] \in AllDocs
    BY <1>2, <1>3 DEF AllDocs
<1>5. /\ Laid(Steps07, 9, "subject", "listing")
      /\ Laid(Steps07, 10, "source", "one")
      /\ Laid(Steps07, 11, "contract", "one")
      /\ Laid(Steps07, 12, "artifact", "endpoint")
      /\ Laid(Steps07, 13, "row", "one")
    BY DEF Laid, Steps07, Opening, Rows07, Do, Row, FetchDoc, SaveDoc
<1>6. /\ Steps07[12].row[1] = "artifact"
      /\ Steps07[13].row[1] = "row"
      /\ Steps07[14].row[1] = "series"
      /\ Steps07[17].row[1] = "execution"
    BY DEF Steps07, Opening, Rows07, Do, Row, FetchDoc, SaveDoc
<1>7. \A n \in (1..19) \ {12, 13, 14, 17} :
         Steps07[n].do = "insert" => Steps07[n].row[1] \in Plain
    BY DEF Plain, Steps07, Opening, Rows07, Do, Row, FetchDoc, SaveDoc
<1>8. \A n \in 1..19 : Steps07[n].do = "insert" =>
         \/ n = 12 /\ Steps07[n].row[1] = "artifact"
         \/ n = 13 /\ Steps07[n].row[1] = "row"
         \/ n = 14 /\ Steps07[n].row[1] = "series"
         \/ n = 17 /\ Steps07[n].row[1] = "execution"
         \/ Steps07[n].row[1] \in Plain
    BY <1>6, <1>7
<1>9. ASSUME NEW n \in 1..19, Steps07[n].do = "insert",
             NEW q \in Needs(Steps07[n].row[1], Steps07[n].row[2])
      PROVE  Has(Steps07, n, q)
  <2>1. PICK t, i : t = Steps07[n].row[1] /\ i = Steps07[n].row[2]
    OBVIOUS
  <2>2. q \in Needs(t, i)
    BY <2>1
  <2>3. \/ n = 12 /\ t = "artifact"
        \/ n = 13 /\ t = "row"
        \/ n = 14 /\ t = "series"
        \/ n = 17 /\ t = "execution"
        \/ t \in Plain
    BY <1>8, <1>9, <2>1
  <2>4. \/ n = 12 /\ q \in {<<"source", "one">>}
        \/ n = 13 /\ q \in {<<"artifact", "endpoint">>, <<"subject", "listing">>}
        \/ n = 14 /\ q \in {<<"row", "one">>}
        \/ n = 17 /\ q \in {<<"contract", "one">>}
    BY <2>2, <2>3, NeedsAre DEF Plain
  <2> QED
    BY <1>5, <2>4 DEF Has, Laid
<1>10. \A n \in 1..19 : Steps07[n].do # "datasets"
    BY DEF Steps07, Opening, Rows07, Do, Row, FetchDoc, SaveDoc
<1>11. Sound(Steps07)
    BY <1>1, <1>4, <1>9, <1>10 DEF Sound, Closed
<1>12. /\ Steps07[1].do = "mkdir"
      /\ Steps07[2].do = "hash"
      /\ Steps07[19].do = "summary"
    BY DEF Steps07, Opening, Rows07, Do, Row, FetchDoc, SaveDoc
<1>13. \A n \in 1..19 : Steps07[n].do = "hash" => n = 2
    BY DEF Steps07, Opening, Rows07, Do, Row, FetchDoc, SaveDoc
<1>14. \A n \in 1..19 : Steps07[n].do = "summary" => n = 19
    BY DEF Steps07, Opening, Rows07, Do, Row, FetchDoc, SaveDoc
<1>15. \A n \in 1..19 : Steps07[n].do = "compare" => n = 18
    BY DEF Steps07, Opening, Rows07, Do, Row, FetchDoc, SaveDoc
<1>16. \A n \in 1..19 : Steps07[n].do = "read" => n < 18
    BY DEF Steps07, Opening, Rows07, Do, Row, FetchDoc, SaveDoc
<1>17. \A n, m \in 1..19 :
         Steps07[n].do = "compare" /\ Steps07[m].do \in {"read", "datasets"} => m < n
    BY <1>10, <1>15, <1>16
<1>18. Single(Steps07)
  <2>1. Len(Steps07) > 2 /\ Steps07[1].do = "mkdir" /\ Steps07[2].do = "hash"
    BY <1>1, <1>12
  <2>2. Steps07[Len(Steps07)].do = "summary"
    BY <1>1, <1>12
  <2>3. \A n \in 1..Len(Steps07) : Steps07[n].do = "hash" => n = 2
    BY <1>1, <1>13
  <2>4. \A n \in 1..Len(Steps07) : Steps07[n].do = "summary" => n = Len(Steps07)
    BY <1>1, <1>14
  <2>5. \A n, m \in 1..Len(Steps07) :
           Steps07[n].do = "compare" /\ Steps07[m].do \in {"read", "datasets"} => m < n
    BY <1>1, <1>17
  <2> QED
    BY <2>1, <2>2, <2>3, <2>4, <2>5 DEF Single
<1>19. /\ Steps07[8].do = "schema"
       /\ Steps07[7].do = "candidate"
       /\ Steps07[18].do = "compare"
    BY DEF Steps07, Opening, Rows07, Do, Row, FetchDoc, SaveDoc
<1>20. \A n \in 1..19 : Steps07[n].do = "insert" => Steps07[n].row # <<"run", "RUNNING">>
    BY DEF Steps07, Opening, Rows07, Do, Row, FetchDoc, SaveDoc
<1>21. Usual(Steps07)
    BY <1>1, <1>19, <1>20 DEF Usual
<1> QED
    BY <1>11, <1>18, <1>21

LEMMA Table08 == Sound(Steps08)
<1>1. Len(Steps08) = 23 /\ DOMAIN Steps08 = 1..23
    BY DEF Steps08, Registry08, Facts08, Do, Row, FetchDoc, SaveDoc
<1>2. \A n \in 1..23 : Steps08[n].do = "save" => n \in {5, 7}
    BY DEF Steps08, Registry08, Facts08, Do, Row, FetchDoc, SaveDoc
<1>3. Steps08[5].row[1] = "page" /\ Steps08[7].row[1] = "endpoint"
    BY DEF Steps08, Registry08, Facts08, Do, Row, FetchDoc, SaveDoc
<1>4. \A n \in 1..23 : Steps08[n].do = "save" => Steps08[n].row[1] \in AllDocs
    BY <1>2, <1>3 DEF AllDocs
<1>5. /\ Laid(Steps08, 11, "subject", "listing")
      /\ Laid(Steps08, 12, "metric", "shares")
      /\ Laid(Steps08, 13, "source", "one")
      /\ Laid(Steps08, 15, "artifact", "endpoint")
      /\ Laid(Steps08, 16, "contract", "one")
      /\ Laid(Steps08, 17, "observation", "shares")
    BY DEF Laid, Steps08, Registry08, Facts08, Do, Row, FetchDoc, SaveDoc
<1>6. /\ Steps08[14].row[1] = "artifact"
      /\ Steps08[15].row[1] = "artifact"
      /\ Steps08[17].row[1] = "observation"
      /\ Steps08[17].row[2] = "shares"
      /\ Steps08[18].row[1] = "evidence"
      /\ Steps08[18].row[2] = "shares"
      /\ Steps08[19].row[1] = "execution"
    BY DEF Steps08, Registry08, Facts08, Do, Row, FetchDoc, SaveDoc
<1>7. \A n \in (1..23) \ {14, 15, 17, 18, 19} :
         Steps08[n].do = "insert" => Steps08[n].row[1] \in Plain
    BY DEF Plain, Steps08, Registry08, Facts08, Do, Row, FetchDoc, SaveDoc
<1>8. \A n \in 1..23 : Steps08[n].do = "insert" =>
         \/ n = 14 /\ Steps08[n].row[1] = "artifact"
         \/ n = 15 /\ Steps08[n].row[1] = "artifact"
         \/ n = 17 /\ Steps08[n].row[1] = "observation" /\ Steps08[n].row[2] = "shares"
         \/ n = 18 /\ Steps08[n].row[1] = "evidence" /\ Steps08[n].row[2] = "shares"
         \/ n = 19 /\ Steps08[n].row[1] = "execution"
         \/ Steps08[n].row[1] \in Plain
    BY <1>6, <1>7
<1>9. ASSUME NEW n \in 1..23, Steps08[n].do = "insert",
             NEW q \in Needs(Steps08[n].row[1], Steps08[n].row[2])
      PROVE  Has(Steps08, n, q)
  <2>1. PICK t, i : t = Steps08[n].row[1] /\ i = Steps08[n].row[2]
    OBVIOUS
  <2>2. q \in Needs(t, i)
    BY <2>1
  <2>3. \/ n = 14 /\ t = "artifact"
        \/ n = 15 /\ t = "artifact"
        \/ n = 17 /\ t = "observation" /\ i = "shares"
        \/ n = 18 /\ t = "evidence" /\ i = "shares"
        \/ n = 19 /\ t = "execution"
        \/ t \in Plain
    BY <1>8, <1>9, <2>1
  <2>4. \/ n = 14 /\ q \in {<<"source", "one">>}
        \/ n = 15 /\ q \in {<<"source", "one">>}
        \/ n = 17 /\ q \in {<<"subject", "listing">>, <<"metric", "shares">>,
                            <<"source", "one">>, <<"artifact", "endpoint">>}
        \/ n = 18 /\ q \in {<<"observation", "shares">>, <<"artifact", "endpoint">>}
        \/ n = 19 /\ q \in {<<"contract", "one">>}
    BY <2>2, <2>3, NeedsAre DEF Plain
  <2> QED
    BY <1>5, <2>4 DEF Has, Laid
<1>10. \A n \in 1..23 : Steps08[n].do # "datasets"
    BY DEF Steps08, Registry08, Facts08, Do, Row, FetchDoc, SaveDoc
<1>11. Sound(Steps08)
    BY <1>1, <1>4, <1>9, <1>10 DEF Sound, Closed
<1> QED
    BY <1>11

LEMMA TableLegacy == Sound(StepsLegacy) /\ Single(StepsLegacy) /\ Migrating(StepsLegacy)
<1>1. Len(StepsLegacy) = 13 /\ DOMAIN StepsLegacy = 1..13
    BY DEF StepsLegacy, Opening, RegistryLegacy, Do, Row, FetchDoc, SaveDoc
<1>2. \A n \in 1..13 : StepsLegacy[n].do # "save"
    BY DEF StepsLegacy, Opening, RegistryLegacy, Do, Row, FetchDoc, SaveDoc
<1>3. /\ Laid(StepsLegacy, 5, "subject", "listing")
      /\ Laid(StepsLegacy, 6, "source", "one")
      /\ Laid(StepsLegacy, 7, "artifact", "endpoint")
      /\ Laid(StepsLegacy, 8, "metric", "legacy")
    BY DEF Laid, StepsLegacy, Opening, RegistryLegacy, Do, Row, FetchDoc, SaveDoc
<1>4. StepsLegacy[7].row[1] = "artifact" /\ StepsLegacy[9].row[1] = "mapping"
    BY DEF StepsLegacy, Opening, RegistryLegacy, Do, Row, FetchDoc, SaveDoc
<1>5. \A n \in (1..13) \ {7, 9} :
         StepsLegacy[n].do = "insert" => StepsLegacy[n].row[1] \in Plain
    BY DEF Plain, StepsLegacy, Opening, RegistryLegacy, Do, Row, FetchDoc, SaveDoc
<1>6. \A n \in 1..13 : StepsLegacy[n].do = "insert" =>
         \/ n = 7 /\ StepsLegacy[n].row[1] = "artifact"
         \/ n = 9 /\ StepsLegacy[n].row[1] = "mapping"
         \/ StepsLegacy[n].row[1] \in Plain
    BY <1>4, <1>5
<1>7. ASSUME NEW n \in 1..13, StepsLegacy[n].do = "insert",
             NEW q \in Needs(StepsLegacy[n].row[1], StepsLegacy[n].row[2])
      PROVE  Has(StepsLegacy, n, q)
  <2>1. PICK t, i : t = StepsLegacy[n].row[1] /\ i = StepsLegacy[n].row[2]
    OBVIOUS
  <2>2. q \in Needs(t, i)
    BY <2>1
  <2>3. \/ n = 7 /\ t = "artifact"
        \/ n = 9 /\ t = "mapping"
        \/ t \in Plain
    BY <1>6, <1>7, <2>1
  <2>4. \/ n = 7 /\ q \in {<<"source", "one">>}
        \/ n = 9 /\ q \in {<<"metric", "legacy">>}
    BY <2>2, <2>3, NeedsAre DEF Plain
  <2> QED
    BY <1>3, <2>4 DEF Has, Laid
<1>8. \A n \in 1..13 : StepsLegacy[n].do = "datasets" => n = 10
    BY DEF StepsLegacy, Opening, RegistryLegacy, Do, Row, FetchDoc, SaveDoc
<1>9. Founded(StepsLegacy, 10)
    BY <1>3 DEF Has, Laid, Founded
<1>10. Sound(StepsLegacy)
    BY <1>1, <1>2, <1>7, <1>8, <1>9 DEF Sound, Closed
<1>11. /\ StepsLegacy[1].do = "mkdir"
      /\ StepsLegacy[2].do = "hash"
      /\ StepsLegacy[13].do = "summary"
    BY DEF StepsLegacy, Opening, RegistryLegacy, Do, Row, FetchDoc, SaveDoc
<1>12. \A n \in 1..13 : StepsLegacy[n].do = "hash" => n = 2
    BY DEF StepsLegacy, Opening, RegistryLegacy, Do, Row, FetchDoc, SaveDoc
<1>13. \A n \in 1..13 : StepsLegacy[n].do = "summary" => n = 13
    BY DEF StepsLegacy, Opening, RegistryLegacy, Do, Row, FetchDoc, SaveDoc
<1>14. \A n \in 1..13 : StepsLegacy[n].do # "compare"
    BY DEF StepsLegacy, Opening, RegistryLegacy, Do, Row, FetchDoc, SaveDoc
<1>15. \A n, m \in 1..13 :
         StepsLegacy[n].do = "compare" /\ StepsLegacy[m].do \in {"read", "datasets"} => m < n
    BY <1>14
<1>16. Single(StepsLegacy)
  <2>1. Len(StepsLegacy) > 2 /\ StepsLegacy[1].do = "mkdir" /\ StepsLegacy[2].do = "hash"
    BY <1>1, <1>11
  <2>2. StepsLegacy[Len(StepsLegacy)].do = "summary"
    BY <1>1, <1>11
  <2>3. \A n \in 1..Len(StepsLegacy) : StepsLegacy[n].do = "hash" => n = 2
    BY <1>1, <1>12
  <2>4. \A n \in 1..Len(StepsLegacy) : StepsLegacy[n].do = "summary" => n = Len(StepsLegacy)
    BY <1>1, <1>13
  <2>5. \A n, m \in 1..Len(StepsLegacy) :
           StepsLegacy[n].do = "compare" /\ StepsLegacy[m].do \in {"read", "datasets"} => m < n
    BY <1>1, <1>15
  <2> QED
    BY <2>1, <2>2, <2>3, <2>4, <2>5 DEF Single
<1>17. /\ StepsLegacy[3].do = "schema"
       /\ StepsLegacy[10].do = "datasets"
       /\ StepsLegacy[12].do = "mark"
    BY DEF StepsLegacy, Opening, RegistryLegacy, Do, Row, FetchDoc, SaveDoc
<1>18. Migrating(StepsLegacy)
    BY <1>1, <1>17 DEF Migrating
<1> QED
    BY <1>10, <1>16, <1>18

LEMMA ConnectorsAreSound ==
    ASSUME NEW k \in Kinds
    PROVE  /\ Sound(Connector[k])
           /\ k # "08" => Single(Connector[k])
           /\ k \notin {"08", "legacy"} => Usual(Connector[k])
           /\ k = "legacy" => Migrating(Connector[k])
<1>1. k \in {"01", "02", "03", "05", "06", "07", "08", "legacy"}
    BY KindsAreKnown
<1>2. /\ k = "01" => Connector[k] = Steps01
      /\ k = "02" => Connector[k] = Steps02
      /\ k = "03" => Connector[k] = Steps03
      /\ k = "05" => Connector[k] = Steps05
      /\ k = "06" => Connector[k] = Steps06
      /\ k = "07" => Connector[k] = Steps07
      /\ k = "08" => Connector[k] = Steps08
      /\ k = "legacy" => Connector[k] = StepsLegacy
    BY DEF Connector
<1> QED
    BY <1>1, <1>2, Table01, Table02, Table03, Table05, Table06, Table07, Table08, TableLegacy

(***************************************************************************)
(* The dry runs: the inductive invariant                                   *)
(*                                                                         *)
(* Two runs cannot be at work in one directory, because only one of them   *)
(* makes it (08 is the exception, and what is said of a PASS leaves it     *)
(* out). So whatever a run at work has done is still there: its documents, *)
(* its database, its candidate, the rows it inserted. Unless a publish was *)
(* taken back meanwhile, the version it read lies between the one it       *)
(* hashed and the current one, so that equal hashes at the comparison mean *)
(* it read what it had hashed. With a PASS                                 *)
(* nobody is at work any more, and nobody can begin.                       *)
(***************************************************************************)

\* The connector that runs, and a run that is at work.
Program  == Connector[kind]
Size     == Len(Program)
Going(r) == run[r].pc > 1 /\ ~ Ended(r)

RunType == [pc : 1..(Size + 1), before : [csv : Nat, db : Nat], read : Nat]

Cells == RowsOf(kind) \cup MigratedRows
            \cup {<<"run", "RUNNING">>, <<"run", "PASS">>, <<"run", "FAIL">>}

DirType == [exists : BOOLEAN, raw : [AllDocs -> Runs \cup {NoOne}],
            owner : Runs \cup {NoOne}, rows : SUBSET Cells,
            candidate : Runs \cup {NoOne},
            summary : [by : Runs \cup {NoOne}, status : {"none", "PASS", "FAIL"}]]

StagingType ==
    /\ kind \in Kinds
    /\ formal \in [csv : Nat, db : Nat]
    /\ run \in [Runs -> RunType]
    /\ dir \in DirType

\* What a run inserted stays; only the migrator replaces the row of its own run.
RowsAreThere ==
    \A r \in Runs : ~ Ended(r) =>
        \A n \in 1..(run[r].pc - 1) : Program[n].do = "insert" =>
            Program[n].row \in dir.rows \cup {<<"run", "RUNNING">>}

OneAtATime       == kind # "08" => \A r, s \in Runs : Going(r) /\ Going(s) => r = s
InTheirDirectory == kind # "08" => \A r \in Runs : Going(r) => dir.exists

\* What step n of r leaves in the directory, or says of what r has read.
Leaves(r, n) ==
    LET do == Program[n].do IN
    /\ do = "save" => dir.raw[Program[n].row[1]] = r
    /\ do = "schema" => dir.owner = r
    /\ do = "candidate" => dir.candidate = r
    /\ do = "datasets" => MigratedRows \subseteq dir.rows
    /\ do = "mark" => <<"run", "PASS">> \in dir.rows
    /\ do = "compare" => run[r].read \in {0, run[r].before.csv} \/ r \in undone

WorkIsThere ==
    kind # "08" =>
        \A r \in Runs : Going(r) => \A n \in 1..(run[r].pc - 1) : Leaves(r, n)

ReadInBetween ==
    kind # "08" => \A r \in Runs :
        /\ run[r].pc <= 2 => run[r].read = 0 /\ run[r].before.csv = 0
        /\ ~ Ended(r) /\ r \notin undone =>
              /\ run[r].before.csv <= formal.csv
              /\ \/ run[r].read = 0
                 \/ run[r].before.csv <= run[r].read /\ run[r].read <= formal.csv

PassIsFinal ==
    dir.summary.status = "PASS" /\ kind # "08" =>
        /\ dir.exists
        /\ dir.summary.by \in Runs
        /\ \A r \in Runs : ~ Going(r)
        /\ Ended(dir.summary.by)

StagingInv ==
    /\ StagingType /\ RowsAreThere /\ OneAtATime /\ InTheirDirectory
    /\ WorkIsThere /\ ReadInBetween /\ PassIsFinal
    /\ NoDanglingRows /\ PassDescribesItsDirectory

(***************************************************************************)
(* The dry runs: the two kinds of step                                     *)
(*                                                                         *)
(* A run moves on, having done what its step is, or halts: by an error,    *)
(* which may leave a FAIL behind, or killed.                               *)
(***************************************************************************)

\* The directory after the step of r.
DirectoryMoves(r, d, e) ==
    LET do  == Task(r).do
        row == Task(r).row IN
    /\ e.exists = IF do \in {"mkdir", "enter"} THEN TRUE ELSE d.exists
    /\ \A c \in AllDocs : e.raw[c] = IF do = "save" /\ c = row[1] THEN r ELSE d.raw[c]
    /\ e.owner = IF do = "schema" THEN r ELSE d.owner
    /\ e.rows = IF do = "insert" THEN d.rows \cup {row}
                   ELSE IF do = "datasets" THEN d.rows \cup MigratedRows
                   ELSE IF do = "mark"
                        THEN (d.rows \ {<<"run", "RUNNING">>}) \cup {<<"run", "PASS">>}
                   ELSE d.rows
    /\ e.candidate = IF do = "candidate" THEN r ELSE d.candidate
    /\ e.summary.by = IF do = "summary" THEN r ELSE d.summary.by
    /\ e.summary.status = IF do = "summary" THEN "PASS" ELSE d.summary.status

Forward(r) ==
    LET do  == Task(r).do
        row == Task(r).row IN
    /\ ~ Ended(r)
    /\ kind' = kind /\ formal' = formal /\ undone' = undone
    /\ \A s \in Runs \ {r} : run'[s] = run[s]
    /\ run'[r].pc = run[r].pc + 1
    /\ run'[r].before = IF do = "hash" THEN formal ELSE run[r].before
    /\ run'[r].read = IF do \in {"read", "datasets"} THEN formal.csv ELSE run[r].read
    /\ DirectoryMoves(r, dir, dir')
    /\ do = "mkdir" => ~ dir.exists
    /\ do = "compare" => formal = run[r].before

\* The directory after r failed, or was killed.
DirectoryHalts(d, e) ==
    /\ e.raw = d.raw /\ e.owner = d.owner /\ e.candidate = d.candidate
    /\ d.exists => e.exists
    /\ d.rows \ {<<"run", "RUNNING">>} \subseteq e.rows
    /\ e.rows \subseteq d.rows \cup {<<"run", "FAIL">>}
    /\ e.summary.status = "PASS" => e.summary = d.summary /\ e.exists = d.exists

Halted(r) ==
    /\ ~ Ended(r)
    /\ kind' = kind /\ formal' = formal /\ undone' = undone
    /\ \A s \in Runs \ {r} : run'[s] = run[s]
    /\ run'[r].pc = Size + 1
    /\ run'[r].before = run[r].before /\ run'[r].read = run[r].read
    /\ kind # "08" => run[r].pc > 1 \/ dir.exists
    /\ DirectoryHalts(dir, dir')

\* Nothing but run r moved: to this step, with these hashes and this file.
OnlyMoves(r, new, pc, before, read) ==
    /\ new \in [Runs -> RunType]
    /\ \A s \in Runs \ {r} : new[s] = run[s]
    /\ new[r].pc = pc /\ new[r].before = before /\ new[r].read = read

LEMMA RunMoves ==
    ASSUME StagingType, NEW r \in Runs, ~ Ended(r)
    PROVE  /\ run[r].pc \in 1..Size /\ Size \in Nat
           /\ Task(r) = Program[run[r].pc]
           /\ OnlyMoves(r, StopRun(r), Size + 1, run[r].before, run[r].read)
           /\ OnlyMoves(r, Next1(r), run[r].pc + 1, run[r].before, run[r].read)
           /\ OnlyMoves(r, [Next1(r) EXCEPT ![r].before = formal],
                        run[r].pc + 1, formal, run[r].read)
           /\ OnlyMoves(r, [Next1(r) EXCEPT ![r].read = formal.csv],
                        run[r].pc + 1, run[r].before, formal.csv)
<1>1. Size \in Nat
    BY ConnectorsAreSound DEF Sound, Size, Program, StagingType
<1>2. run[r] \in RunType /\ run[r].pc \in 1..Size /\ Task(r) = Program[run[r].pc]
    BY <1>1 DEF StagingType, Ended, Size, Program, RunType, Task
<1>3. run[r].pc + 1 \in 1..(Size + 1) /\ Size + 1 \in 1..(Size + 1)
    BY <1>1, <1>2
<1>4. OnlyMoves(r, StopRun(r), Size + 1, run[r].before, run[r].read)
  <2>1. StopRun(r) = [run EXCEPT ![r].pc = Size + 1]
    BY DEF StopRun, Size, Program
  <2> QED
    BY <1>2, <1>3, <2>1 DEF StagingType, OnlyMoves, RunType
<1>5. OnlyMoves(r, Next1(r), run[r].pc + 1, run[r].before, run[r].read)
    BY <1>2, <1>3 DEF StagingType, OnlyMoves, Next1, RunType
<1>6. formal \in [csv : Nat, db : Nat] /\ formal.csv \in Nat
    BY DEF StagingType
<1>7. OnlyMoves(r, [Next1(r) EXCEPT ![r].before = formal],
                run[r].pc + 1, formal, run[r].read)
    BY <1>5, <1>6 DEF OnlyMoves, RunType
<1>8. OnlyMoves(r, [Next1(r) EXCEPT ![r].read = formal.csv],
                run[r].pc + 1, run[r].before, formal.csv)
    BY <1>5, <1>6 DEF OnlyMoves, RunType
<1> QED
    BY <1>1, <1>2, <1>4, <1>5, <1>7, <1>8

LEMMA HaltingHalts ==
    ASSUME StagingType, NEW r \in Runs, ~ Ended(r),
           run' = StopRun(r), dir' \in {dir, Failed(r, dir)}, UNCHANGED <<kind, formal, undone>>,
           kind # "08" => run[r].pc > 1 \/ dir.exists
    PROVE  Halted(r) /\ StagingType'
<1>1. dir \in DirType /\ Size' = Size /\ Cells' = Cells
    BY DEF StagingType, Size, Program, Cells
<1>2. DirectoryHalts(dir, dir') /\ dir' \in DirType
  <2>1. CASE dir' = dir
    BY <1>1, <2>1 DEF DirectoryHalts
  <2>2. CASE dir' = Failed(r, dir) /\ kind = "legacy"
    BY <1>1, <2>2 DEF Failed, DirType, DirectoryHalts, Cells
  <2>3. CASE dir' = Failed(r, dir) /\ kind # "legacy"
    BY <1>1, <2>3 DEF Failed, DirType, DirectoryHalts
  <2> QED
    BY <2>1, <2>2, <2>3
<1>3. OnlyMoves(r, run', Size + 1, run[r].before, run[r].read)
    BY RunMoves
<1>4. StagingType'
    BY <1>1, <1>2, <1>3 DEF StagingType, OnlyMoves, RunType, DirType
<1> QED
    BY <1>2, <1>3, <1>4 DEF Halted, OnlyMoves

LEMMA LaterThanFirst ==
    ASSUME StagingType, NEW r \in Runs, ~ Ended(r), kind # "08", Task(r).do # "mkdir"
    PROVE  run[r].pc > 1
<1>1. /\ Program[1].do = "mkdir" /\ run[r].pc \in 1..Size
      /\ Task(r) = Program[run[r].pc] /\ Size \in Nat
    BY ConnectorsAreSound, RunMoves DEF Single, StagingType, Program
<1> QED
    BY <1>1

LEMMA InsertedCells ==
    ASSUME StagingType, NEW r \in Runs, AtTask(r, "insert")
    PROVE  Task(r).row \in Cells
<1>1. Task(r) = Program[run[r].pc] /\ run[r].pc \in DOMAIN Program
    BY RunMoves, ConnectorsAreSound DEF AtTask, Sound, Program, Size, StagingType
<1> QED
    BY <1>1 DEF AtTask, Cells, RowsOf, Program

LEMMA SavedDocs ==
    ASSUME StagingType, NEW r \in Runs, AtTask(r, "save")
    PROVE  Task(r).row[1] \in AllDocs
<1>1. Task(r) = Program[run[r].pc] /\ run[r].pc \in 1..Size
    BY RunMoves DEF AtTask
<1> QED
    BY <1>1, ConnectorsAreSound DEF AtTask, Sound, Program, Size, StagingType

LEMMA MakeDirectoryMoves ==
    ASSUME StagingType, NEW r \in Runs, MakeDirectory(r)
    PROVE  (Forward(r) \/ Halted(r)) /\ StagingType'
<1>1. CASE ~ dir.exists
  <2>1. ~ Ended(r) /\ UNCHANGED <<kind, formal, undone>> /\ run' = Next1(r)
    BY <1>1, RunMoves DEF MakeDirectory, AtTask
  <2>2. dir \in DirType /\ Size' = Size /\ Cells' = Cells
    BY <2>1 DEF StagingType, Size, Program, Cells
  <2>3. DirectoryMoves(r, dir, dir') /\ dir' \in DirType
    <3>1. dir' = [dir EXCEPT !.exists = TRUE] /\ Task(r).do = "mkdir"
      BY <1>1 DEF MakeDirectory, AtTask
    <3> QED
      BY <2>2, <3>1 DEF DirectoryMoves, DirType
  <2>4. StagingType'
    BY <2>1, <2>2, <2>3, RunMoves DEF StagingType, OnlyMoves, RunType, DirType
  <2>5. OnlyMoves(r, run', run[r].pc + 1, run[r].before, run[r].read)
    BY <2>1, RunMoves
  <2>6. Task(r).do = "mkdir"
    BY DEF MakeDirectory, AtTask
  <2> QED
    BY <1>1, <2>1, <2>3, <2>4, <2>5, <2>6 DEF Forward, OnlyMoves
<1>2. CASE ~ (~ dir.exists)
  <2>1. /\ run' = StopRun(r) /\ dir' = Failed(r, dir)
        /\ ~ Ended(r) /\ UNCHANGED <<kind, formal, undone>>
    BY <1>2 DEF MakeDirectory, AtTask
  <2> QED
    BY <1>2, <2>1, HaltingHalts, LaterThanFirst DEF MakeDirectory, AtTask
<1> QED
    BY <1>1, <1>2

LEMMA EnterDirectoryMoves ==
    ASSUME StagingType, NEW r \in Runs, EnterDirectory(r)
    PROVE  (Forward(r)) /\ StagingType'
<1>1. ~ Ended(r) /\ UNCHANGED <<kind, formal, undone>> /\ run' = Next1(r)
    BY RunMoves DEF EnterDirectory, AtTask
<1>2. dir \in DirType /\ Size' = Size /\ Cells' = Cells
    BY <1>1 DEF StagingType, Size, Program, Cells
<1>3. DirectoryMoves(r, dir, dir') /\ dir' \in DirType
    BY <1>1, <1>2, RunMoves DEF EnterDirectory, AtTask, DirectoryMoves, DirType, Cells
<1>4. StagingType'
    BY <1>1, <1>2, <1>3, RunMoves DEF StagingType, OnlyMoves, RunType, DirType
<1>5. OnlyMoves(r, run', run[r].pc + 1, run[r].before, run[r].read)
    BY <1>1, RunMoves
<1>6. Task(r).do = "enter"
    BY DEF EnterDirectory, AtTask
<1> QED
    BY <1>1, <1>3, <1>4, <1>5, <1>6 DEF Forward, OnlyMoves

LEMMA TakeHashesMoves ==
    ASSUME StagingType, NEW r \in Runs, TakeHashes(r)
    PROVE  (Forward(r)) /\ StagingType'
<1>1. ~ Ended(r) /\ UNCHANGED <<kind, formal, undone>> /\ run' = [Next1(r) EXCEPT ![r].before = formal]
    BY RunMoves DEF TakeHashes, AtTask
<1>2. dir \in DirType /\ Size' = Size /\ Cells' = Cells
    BY <1>1 DEF StagingType, Size, Program, Cells
<1>3. DirectoryMoves(r, dir, dir') /\ dir' \in DirType
    BY <1>1, <1>2, RunMoves DEF TakeHashes, AtTask, DirectoryMoves, DirType, Cells
<1>4. StagingType'
    BY <1>1, <1>2, <1>3, RunMoves DEF StagingType, OnlyMoves, RunType, DirType
<1>5. OnlyMoves(r, run', run[r].pc + 1, formal, run[r].read)
    BY <1>1, RunMoves
<1>6. Task(r).do = "hash"
    BY DEF TakeHashes, AtTask
<1> QED
    BY <1>1, <1>3, <1>4, <1>5, <1>6 DEF Forward, OnlyMoves

LEMMA FetchOrParseMoves ==
    ASSUME StagingType, NEW r \in Runs, FetchOrParse(r)
    PROVE  (Forward(r)) /\ StagingType'
<1>1. ~ Ended(r) /\ UNCHANGED <<kind, formal, undone>> /\ run' = Next1(r)
    BY RunMoves DEF FetchOrParse, AtTask
<1>2. dir \in DirType /\ Size' = Size /\ Cells' = Cells
    BY <1>1 DEF StagingType, Size, Program, Cells
<1>3. DirectoryMoves(r, dir, dir') /\ dir' \in DirType
    BY <1>1, <1>2, RunMoves DEF FetchOrParse, AtTask, DirectoryMoves, DirType, Cells
<1>4. StagingType'
    BY <1>1, <1>2, <1>3, RunMoves DEF StagingType, OnlyMoves, RunType, DirType
<1>5. OnlyMoves(r, run', run[r].pc + 1, run[r].before, run[r].read)
    BY <1>1, RunMoves
<1>6. Task(r).do = "fetch" \/ Task(r).do = "parse"
    BY DEF FetchOrParse, AtTask
<1> QED
    BY <1>1, <1>3, <1>4, <1>5, <1>6 DEF Forward, OnlyMoves

LEMMA SaveRawMoves ==
    ASSUME StagingType, NEW r \in Runs, SaveRaw(r)
    PROVE  (Forward(r)) /\ StagingType'
<1>1. ~ Ended(r) /\ UNCHANGED <<kind, formal, undone>> /\ run' = Next1(r)
    BY RunMoves DEF SaveRaw, AtTask
<1>2. dir \in DirType /\ Size' = Size /\ Cells' = Cells
    BY <1>1 DEF StagingType, Size, Program, Cells
<1>3. DirectoryMoves(r, dir, dir') /\ dir' \in DirType
    BY <1>1, <1>2, RunMoves, SavedDocs DEF SaveRaw, AtTask, DirectoryMoves, DirType, Cells
<1>4. StagingType'
    BY <1>1, <1>2, <1>3, RunMoves DEF StagingType, OnlyMoves, RunType, DirType
<1>5. OnlyMoves(r, run', run[r].pc + 1, run[r].before, run[r].read)
    BY <1>1, RunMoves
<1>6. Task(r).do = "save"
    BY DEF SaveRaw, AtTask
<1> QED
    BY <1>1, <1>3, <1>4, <1>5, <1>6 DEF Forward, OnlyMoves

LEMMA CreateSchemaMoves ==
    ASSUME StagingType, NEW r \in Runs, CreateSchema(r)
    PROVE  (Forward(r) \/ Halted(r)) /\ StagingType'
<1>1. CASE dir.owner = NoOne
  <2>1. ~ Ended(r) /\ UNCHANGED <<kind, formal, undone>> /\ run' = Next1(r)
    BY <1>1, RunMoves DEF CreateSchema, AtTask
  <2>2. dir \in DirType /\ Size' = Size /\ Cells' = Cells
    BY <2>1 DEF StagingType, Size, Program, Cells
  <2>3. DirectoryMoves(r, dir, dir') /\ dir' \in DirType
    BY <1>1, <2>1, <2>2, RunMoves DEF CreateSchema, AtTask, DirectoryMoves, DirType, Cells
  <2>4. StagingType'
    BY <2>1, <2>2, <2>3, RunMoves DEF StagingType, OnlyMoves, RunType, DirType
  <2>5. OnlyMoves(r, run', run[r].pc + 1, run[r].before, run[r].read)
    BY <2>1, RunMoves
  <2>6. Task(r).do = "schema"
    BY DEF CreateSchema, AtTask
  <2> QED
    BY <1>1, <2>1, <2>3, <2>4, <2>5, <2>6 DEF Forward, OnlyMoves
<1>2. CASE ~ (dir.owner = NoOne)
  <2>1. /\ run' = StopRun(r) /\ dir' = Failed(r, dir)
        /\ ~ Ended(r) /\ UNCHANGED <<kind, formal, undone>>
    BY <1>2 DEF CreateSchema, AtTask
  <2> QED
    BY <1>2, <2>1, HaltingHalts, LaterThanFirst DEF CreateSchema, AtTask
<1> QED
    BY <1>1, <1>2

LEMMA InsertMoves ==
    ASSUME StagingType, NEW r \in Runs, Insert(r)
    PROVE  (Forward(r)) /\ StagingType'
<1>1. ~ Ended(r) /\ UNCHANGED <<kind, formal, undone>> /\ run' = Next1(r)
    BY RunMoves DEF Insert, AtTask
<1>2. dir \in DirType /\ Size' = Size /\ Cells' = Cells
    BY <1>1 DEF StagingType, Size, Program, Cells
<1>3. DirectoryMoves(r, dir, dir') /\ dir' \in DirType
    BY <1>1, <1>2, RunMoves, InsertedCells DEF Insert, AtTask, DirectoryMoves, DirType, Cells
<1>4. StagingType'
    BY <1>1, <1>2, <1>3, RunMoves DEF StagingType, OnlyMoves, RunType, DirType
<1>5. OnlyMoves(r, run', run[r].pc + 1, run[r].before, run[r].read)
    BY <1>1, RunMoves
<1>6. Task(r).do = "insert"
    BY DEF Insert, AtTask
<1> QED
    BY <1>1, <1>3, <1>4, <1>5, <1>6 DEF Forward, OnlyMoves

LEMMA ReadMasterMoves ==
    ASSUME StagingType, NEW r \in Runs, ReadMaster(r)
    PROVE  (Forward(r)) /\ StagingType'
<1>1. ~ Ended(r) /\ UNCHANGED <<kind, formal, undone>> /\ run' = [Next1(r) EXCEPT ![r].read = formal.csv]
    BY RunMoves DEF ReadMaster, AtTask
<1>2. dir \in DirType /\ Size' = Size /\ Cells' = Cells
    BY <1>1 DEF StagingType, Size, Program, Cells
<1>3. DirectoryMoves(r, dir, dir') /\ dir' \in DirType
    BY <1>1, <1>2, RunMoves DEF ReadMaster, AtTask, DirectoryMoves, DirType, Cells
<1>4. StagingType'
    BY <1>1, <1>2, <1>3, RunMoves DEF StagingType, OnlyMoves, RunType, DirType
<1>5. OnlyMoves(r, run', run[r].pc + 1, run[r].before, formal.csv)
    BY <1>1, RunMoves
<1>6. Task(r).do = "read"
    BY DEF ReadMaster, AtTask
<1> QED
    BY <1>1, <1>3, <1>4, <1>5, <1>6 DEF Forward, OnlyMoves

LEMMA MigrateDatasetsMoves ==
    ASSUME StagingType, NEW r \in Runs, MigrateDatasets(r)
    PROVE  (Forward(r)) /\ StagingType'
<1>1. ~ Ended(r) /\ UNCHANGED <<kind, formal, undone>> /\ run' = [Next1(r) EXCEPT ![r].read = formal.csv]
    BY RunMoves DEF MigrateDatasets, AtTask
<1>2. dir \in DirType /\ Size' = Size /\ Cells' = Cells
    BY <1>1 DEF StagingType, Size, Program, Cells
<1>3. DirectoryMoves(r, dir, dir') /\ dir' \in DirType
    BY <1>1, <1>2, RunMoves DEF MigrateDatasets, AtTask, DirectoryMoves, DirType, Cells
<1>4. StagingType'
    BY <1>1, <1>2, <1>3, RunMoves DEF StagingType, OnlyMoves, RunType, DirType
<1>5. OnlyMoves(r, run', run[r].pc + 1, run[r].before, formal.csv)
    BY <1>1, RunMoves
<1>6. Task(r).do = "datasets"
    BY DEF MigrateDatasets, AtTask
<1> QED
    BY <1>1, <1>3, <1>4, <1>5, <1>6 DEF Forward, OnlyMoves

LEMMA CompareHashesMoves ==
    ASSUME StagingType, NEW r \in Runs, CompareHashes(r)
    PROVE  (Forward(r) \/ Halted(r)) /\ StagingType'
<1>1. CASE formal = run[r].before
  <2>1. ~ Ended(r) /\ UNCHANGED <<kind, formal, undone>> /\ run' = Next1(r)
    BY <1>1, RunMoves DEF CompareHashes, AtTask
  <2>2. dir \in DirType /\ Size' = Size /\ Cells' = Cells
    BY <2>1 DEF StagingType, Size, Program, Cells
  <2>3. DirectoryMoves(r, dir, dir') /\ dir' \in DirType
    BY <1>1, <2>1, <2>2, RunMoves DEF CompareHashes, AtTask, DirectoryMoves, DirType, Cells
  <2>4. StagingType'
    BY <2>1, <2>2, <2>3, RunMoves DEF StagingType, OnlyMoves, RunType, DirType
  <2>5. OnlyMoves(r, run', run[r].pc + 1, run[r].before, run[r].read)
    BY <2>1, RunMoves
  <2>6. Task(r).do = "compare"
    BY DEF CompareHashes, AtTask
  <2> QED
    BY <1>1, <2>1, <2>3, <2>4, <2>5, <2>6 DEF Forward, OnlyMoves
<1>2. CASE ~ (formal = run[r].before)
  <2>1. /\ run' = StopRun(r) /\ dir' = Failed(r, dir)
        /\ ~ Ended(r) /\ UNCHANGED <<kind, formal, undone>>
    BY <1>2 DEF CompareHashes, AtTask
  <2> QED
    BY <1>2, <2>1, HaltingHalts, LaterThanFirst DEF CompareHashes, AtTask
<1> QED
    BY <1>1, <1>2

LEMMA CompareDatabaseMoves ==
    ASSUME StagingType, NEW r \in Runs, CompareDatabase(r)
    PROVE  (Forward(r) \/ Halted(r)) /\ StagingType'
<1>1. CASE formal.db = run[r].before.db
  <2>1. ~ Ended(r) /\ UNCHANGED <<kind, formal, undone>> /\ run' = Next1(r)
    BY <1>1, RunMoves DEF CompareDatabase, AtTask
  <2>2. dir \in DirType /\ Size' = Size /\ Cells' = Cells
    BY <2>1 DEF StagingType, Size, Program, Cells
  <2>3. DirectoryMoves(r, dir, dir') /\ dir' \in DirType
    BY <1>1, <2>1, <2>2, RunMoves DEF CompareDatabase, AtTask, DirectoryMoves, DirType, Cells
  <2>4. StagingType'
    BY <2>1, <2>2, <2>3, RunMoves DEF StagingType, OnlyMoves, RunType, DirType
  <2>5. OnlyMoves(r, run', run[r].pc + 1, run[r].before, run[r].read)
    BY <2>1, RunMoves
  <2>6. Task(r).do = "recheck"
    BY DEF CompareDatabase, AtTask
  <2> QED
    BY <1>1, <2>1, <2>3, <2>4, <2>5, <2>6 DEF Forward, OnlyMoves
<1>2. CASE ~ (formal.db = run[r].before.db)
  <2>1. /\ run' = StopRun(r) /\ dir' = Failed(r, dir)
        /\ ~ Ended(r) /\ UNCHANGED <<kind, formal, undone>>
    BY <1>2 DEF CompareDatabase, AtTask
  <2> QED
    BY <1>2, <2>1, HaltingHalts, LaterThanFirst DEF CompareDatabase, AtTask
<1> QED
    BY <1>1, <1>2

LEMMA NoteProtectedMoves ==
    ASSUME StagingType, NEW r \in Runs, NoteProtected(r)
    PROVE  (Forward(r)) /\ StagingType'
<1>1. ~ Ended(r) /\ UNCHANGED <<kind, formal, undone>> /\ run' = Next1(r)
    BY RunMoves DEF NoteProtected, AtTask
<1>2. dir \in DirType /\ Size' = Size /\ Cells' = Cells
    BY <1>1 DEF StagingType, Size, Program, Cells
<1>3. DirectoryMoves(r, dir, dir') /\ dir' \in DirType
    BY <1>1, <1>2, RunMoves DEF NoteProtected, AtTask, DirectoryMoves, DirType, Cells
<1>4. StagingType'
    BY <1>1, <1>2, <1>3, RunMoves DEF StagingType, OnlyMoves, RunType, DirType
<1>5. OnlyMoves(r, run', run[r].pc + 1, run[r].before, run[r].read)
    BY <1>1, RunMoves
<1>6. Task(r).do = "note"
    BY DEF NoteProtected, AtTask
<1> QED
    BY <1>1, <1>3, <1>4, <1>5, <1>6 DEF Forward, OnlyMoves

LEMMA WriteCandidateMoves ==
    ASSUME StagingType, NEW r \in Runs, WriteCandidate(r)
    PROVE  (Forward(r)) /\ StagingType'
<1>1. ~ Ended(r) /\ UNCHANGED <<kind, formal, undone>> /\ run' = Next1(r)
    BY RunMoves DEF WriteCandidate, AtTask
<1>2. dir \in DirType /\ Size' = Size /\ Cells' = Cells
    BY <1>1 DEF StagingType, Size, Program, Cells
<1>3. DirectoryMoves(r, dir, dir') /\ dir' \in DirType
    BY <1>1, <1>2, RunMoves DEF WriteCandidate, AtTask, DirectoryMoves, DirType, Cells
<1>4. StagingType'
    BY <1>1, <1>2, <1>3, RunMoves DEF StagingType, OnlyMoves, RunType, DirType
<1>5. OnlyMoves(r, run', run[r].pc + 1, run[r].before, run[r].read)
    BY <1>1, RunMoves
<1>6. Task(r).do = "candidate"
    BY DEF WriteCandidate, AtTask
<1> QED
    BY <1>1, <1>3, <1>4, <1>5, <1>6 DEF Forward, OnlyMoves

LEMMA MarkRunMoves ==
    ASSUME StagingType, NEW r \in Runs, MarkRun(r)
    PROVE  (Forward(r)) /\ StagingType'
<1>1. ~ Ended(r) /\ UNCHANGED <<kind, formal, undone>> /\ run' = Next1(r)
    BY RunMoves DEF MarkRun, AtTask
<1>2. dir \in DirType /\ Size' = Size /\ Cells' = Cells
    BY <1>1 DEF StagingType, Size, Program, Cells
<1>3. DirectoryMoves(r, dir, dir') /\ dir' \in DirType
    BY <1>1, <1>2, RunMoves DEF MarkRun, AtTask, DirectoryMoves, DirType, Cells
<1>4. StagingType'
    BY <1>1, <1>2, <1>3, RunMoves DEF StagingType, OnlyMoves, RunType, DirType
<1>5. OnlyMoves(r, run', run[r].pc + 1, run[r].before, run[r].read)
    BY <1>1, RunMoves
<1>6. Task(r).do = "mark"
    BY DEF MarkRun, AtTask
<1> QED
    BY <1>1, <1>3, <1>4, <1>5, <1>6 DEF Forward, OnlyMoves

LEMMA WriteSummaryMoves ==
    ASSUME StagingType, NEW r \in Runs, WriteSummary(r)
    PROVE  (Forward(r)) /\ StagingType'
<1>1. ~ Ended(r) /\ UNCHANGED <<kind, formal, undone>> /\ run' = Next1(r)
    BY RunMoves DEF WriteSummary, AtTask
<1>2. dir \in DirType /\ Size' = Size /\ Cells' = Cells
    BY <1>1 DEF StagingType, Size, Program, Cells
<1>3. DirectoryMoves(r, dir, dir') /\ dir' \in DirType
    BY <1>1, <1>2, RunMoves DEF WriteSummary, AtTask, DirectoryMoves, DirType, Cells
<1>4. StagingType'
    BY <1>1, <1>2, <1>3, RunMoves DEF StagingType, OnlyMoves, RunType, DirType
<1>5. OnlyMoves(r, run', run[r].pc + 1, run[r].before, run[r].read)
    BY <1>1, RunMoves
<1>6. Task(r).do = "summary"
    BY DEF WriteSummary, AtTask
<1> QED
    BY <1>1, <1>3, <1>4, <1>5, <1>6 DEF Forward, OnlyMoves

(***************************************************************************)
(* The dry runs: each kind of step keeps the invariant                     *)
(***************************************************************************)

LEMMA NoRunIsNeeded ==
    ASSUME NEW t, NEW i, NEW q \in Needs(t, i)
    PROVE  q # <<"run", "RUNNING">>
BY NeedsAre

LEMMA RunsNeedNothing ==
    ASSUME NEW i
    PROVE  Needs("run", i) = {}
BY DEF Needs

LEMMA SameConnector ==
    ASSUME StagingType, kind' = kind
    PROVE  /\ Program' = Program /\ Size' = Size /\ Size \in Nat
           /\ Sound(Program) /\ (kind # "08" => Single(Program))
           /\ \A s : Ended(s) <=> run[s].pc > Size
           /\ \A s : Ended(s)' <=> run'[s].pc > Size
           /\ \A s : Going(s) <=> run[s].pc > 1 /\ ~ (run[s].pc > Size)
           /\ \A s : Going(s)' <=> run'[s].pc > 1 /\ ~ (run'[s].pc > Size)
BY ConnectorsAreSound DEF StagingType, Program, Size, Sound, Ended, Going

LEMMA RowIsFound ==
    ASSUME RowsAreThere, NEW r \in Runs, ~ Ended(r), NEW q, Has(Program, run[r].pc, q),
           q # <<"run", "RUNNING">>
    PROVE  q \in dir.rows
BY DEF RowsAreThere, Has

LEMMA RowsOnlyGrow ==
    ASSUME NEW r \in Runs, Forward(r) \/ Halted(r)
    PROVE  dir.rows \ {<<"run", "RUNNING">>} \subseteq dir'.rows
BY DEF Forward, Halted, DirectoryMoves, DirectoryHalts

LEMMA ForwardRows ==
    ASSUME StagingType, RowsAreThere, NEW r \in Runs, Forward(r)
    PROVE  RowsAreThere'
<1> USE DEF RowsAreThere
<1> SUFFICES ASSUME NEW s \in Runs, ~ Ended(s)', NEW n \in 1..(run'[s].pc - 1),
                    Program[n].do = "insert"
             PROVE  Program[n].row \in dir'.rows \cup {<<"run", "RUNNING">>}
    BY SameConnector DEF Forward
<1>1. run[r].pc \in 1..Size /\ Task(r) = Program[run[r].pc] /\ ~ Ended(r)
    BY RunMoves DEF Forward
<1>2. CASE s # r
  <2>1. run'[s] = run[s] /\ ~ Ended(s)
    BY <1>2, SameConnector DEF Forward
  <2> QED
    BY <2>1, RowsOnlyGrow
<1>3. CASE s = r /\ n # run[r].pc
  <2>1. n \in 1..(run[r].pc - 1)
    BY <1>1, <1>3 DEF Forward
  <2> QED
    BY <1>1, <1>3, <2>1, RowsOnlyGrow
<1>4. CASE s = r /\ n = run[r].pc
    BY <1>1, <1>4 DEF Forward, DirectoryMoves
<1> QED
    BY <1>2, <1>3, <1>4

LEMMA ForwardRefers ==
    ASSUME StagingType, RowsAreThere, NoDanglingRows, NEW r \in Runs, Forward(r)
    PROVE  NoDanglingRows'
<1> SUFFICES ASSUME NEW x \in dir'.rows, NEW q \in Needs(x[1], x[2])
             PROVE  q \in dir'.rows
    BY DEF NoDanglingRows
<1>0. q # <<"run", "RUNNING">>
    BY NoRunIsNeeded
<1>1. run[r].pc \in 1..Size /\ Task(r) = Program[run[r].pc] /\ ~ Ended(r) /\ Size = Len(Program)
    BY RunMoves DEF Forward, Size
<1>2. CASE x \in dir.rows
    BY <1>0, <1>2, RowsOnlyGrow DEF NoDanglingRows
<1>3. CASE Task(r).do = "insert" /\ x = Task(r).row
  <2>1. Has(Program, run[r].pc, q)
    BY <1>1, <1>3, SameConnector DEF Forward, Sound, Closed
  <2> QED
    BY <1>0, <1>1, <2>1, RowIsFound, RowsOnlyGrow
<1>4. CASE Task(r).do = "datasets" /\ x \in MigratedRows
  <2>1. Founded(Program, run[r].pc)
    BY <1>1, <1>4, SameConnector DEF Forward, Sound
  <2>2. {<<"subject", "listing">>, <<"metric", "legacy">>, <<"source", "one">>,
         <<"artifact", "endpoint">>} \subseteq dir.rows
    BY <1>1, <2>1, RowIsFound DEF Founded
  <2>3. MigratedRows \subseteq dir'.rows
    BY <1>4 DEF Forward, DirectoryMoves
  <2>4. x \in {<<"row", "one">>, <<"derived", "legacy">>,
               <<"observation", "legacy">>, <<"evidence", "legacy">>}
    BY <1>4 DEF MigratedRows
  <2>5. q \in {<<"subject", "listing">>, <<"metric", "legacy">>, <<"source", "one">>,
               <<"artifact", "endpoint">>, <<"observation", "legacy">>}
    BY <2>4, NeedsAre
  <2>6. <<"observation", "legacy">> \in dir'.rows
    BY <2>3 DEF MigratedRows
  <2> QED
    BY <1>0, <2>2, <2>5, <2>6, RowsOnlyGrow
<1>5. CASE Task(r).do = "mark" /\ x = <<"run", "PASS">>
    BY <1>5, RunsNeedNothing
<1> QED
    BY <1>2, <1>3, <1>4, <1>5 DEF Forward, DirectoryMoves

LEMMA TheFirstMakesIt ==
    ASSUME StagingType, InTheirDirectory, PassIsFinal, kind # "08", NEW r \in Runs, Forward(r),
           run[r].pc = 1
    PROVE  /\ Task(r).do = "mkdir" /\ ~ dir.exists /\ dir'.exists
           /\ \A s \in Runs : ~ Going(s)
           /\ dir.summary.status # "PASS"
<1>1. Task(r).do = "mkdir"
    BY RunMoves, SameConnector DEF Forward, Single
<1> QED
    BY <1>1 DEF Forward, DirectoryMoves, InTheirDirectory, PassIsFinal

LEMMA ForwardOne ==
    ASSUME StagingType, OneAtATime, InTheirDirectory, PassIsFinal, kind # "08",
           NEW r \in Runs, Forward(r)
    PROVE  /\ \A s \in Runs : Going(s)' => s = r
           /\ dir'.exists
           /\ run[r].pc # 1 => dir.summary.status # "PASS" /\ Going(r)
<1>1. run[r].pc \in 1..Size /\ run \in [Runs -> RunType]
    BY RunMoves DEF Forward, StagingType
<1>2. run[r].pc # 1 => Going(r)
    BY <1>1, SameConnector DEF Forward
<1>3. ASSUME NEW s \in Runs, Going(s)', s # r
      PROVE  FALSE
  <2>1. Going(s)
    BY <1>3, SameConnector DEF Forward
  <2> QED
    BY <1>2, <1>3, <2>1, TheFirstMakesIt DEF OneAtATime
<1> QED
    BY <1>2, <1>3, TheFirstMakesIt DEF Forward, DirectoryMoves, InTheirDirectory, PassIsFinal

LEMMA ForwardBetween ==
    ASSUME StagingType, ReadInBetween, NEW r \in Runs, Forward(r)
    PROVE  ReadInBetween'
<1> SUFFICES ASSUME kind # "08", NEW s \in Runs
             PROVE  /\ run'[s].pc <= 2 => run'[s].read = 0 /\ run'[s].before.csv = 0
                    /\ ~ Ended(s)' /\ s \notin undone =>
                          /\ run'[s].before.csv <= formal'.csv
                          /\ \/ run'[s].read = 0
                             \/ run'[s].before.csv <= run'[s].read
                                /\ run'[s].read <= formal'.csv
    BY DEF ReadInBetween, Forward
<1>1. CASE s # r
    BY <1>1, SameConnector DEF Forward, ReadInBetween
<1>2. CASE s = r
  <2>1. /\ run[r].pc \in 1..Size /\ Task(r) = Program[run[r].pc]
        /\ Size = Len(Program) /\ Single(Program)
    BY RunMoves, SameConnector DEF Forward, Size
  <2>2. formal.csv \in Nat /\ run[r].before.csv \in Nat /\ run[r].read \in Nat
    BY DEF StagingType, RunType
  <2>3. Task(r).do = "hash" => run[r].pc = 2
    BY <2>1 DEF Single
  <2>4. run[r].pc = 1 => Task(r).do = "mkdir"
    BY <2>1 DEF Single
  <2> QED
    BY <1>2, <2>1, <2>2, <2>3, <2>4 DEF Forward, ReadInBetween
<1> QED
    BY <1>1, <1>2

LEMMA ForwardLeaves ==
    ASSUME StagingInv, kind # "08", NEW r \in Runs, Forward(r), NEW n \in 1..run[r].pc
    PROVE  Leaves(r, n)'
<1>1. /\ run[r].pc \in 1..Size /\ Task(r) = Program[run[r].pc] /\ Size = Len(Program)
      /\ Single(Program) /\ Program' = Program /\ Sound(Program)
    BY RunMoves, SameConnector DEF Forward, Size, StagingInv
<1>2. CASE n = run[r].pc
  <2>1. Program[n].do = "save" => Program[n].row[1] \in AllDocs
    BY <1>1 DEF Sound
  <2>2. Program[n].do = "compare" =>
           run'[r].read \in {0, run'[r].before.csv} \/ r \in undone'
    BY <1>1, <1>2 DEF Forward, StagingInv, ReadInBetween, StagingType, RunType
  <2> QED
    BY <1>1, <1>2, <2>1, <2>2 DEF Leaves, Forward, DirectoryMoves
<1>3. CASE n < run[r].pc
  <2>1. Leaves(r, n)
    BY <1>1, <1>3, SameConnector, ForwardOne DEF StagingInv, WorkIsThere
  <2>2. Program[n].do = "save" => Program[n].row[1] \in AllDocs
    BY <1>1 DEF Sound
  <2>3. /\ Program[n].do = "save" => dir'.raw[Program[n].row[1]] = r
        /\ Program[n].do = "schema" => dir'.owner = r
        /\ Program[n].do = "candidate" => dir'.candidate = r
    BY <2>1, <2>2 DEF Leaves, Forward, DirectoryMoves
  <2>4. /\ Program[n].do = "datasets" => MigratedRows \subseteq dir'.rows
        /\ Program[n].do = "mark" => <<"run", "PASS">> \in dir'.rows
    BY <2>1, RowsOnlyGrow DEF Leaves, MigratedRows
  <2>5. Program[n].do = "compare" => Task(r).do \notin {"read", "datasets"}
    BY <1>1, <1>3 DEF Single
  <2>6. Program[n].do = "compare" => Task(r).do # "hash"
    BY <1>1, <1>3 DEF Single
  <2>7. Program[n].do = "compare" =>
           run'[r].read \in {0, run'[r].before.csv} \/ r \in undone'
    BY <2>1, <2>5, <2>6 DEF Leaves, Forward
  <2> QED
    BY <1>1, <2>3, <2>4, <2>7 DEF Leaves
<1> QED
    BY <1>1, <1>2, <1>3

LEMMA ForwardPass ==
    ASSUME StagingInv, kind # "08", NEW r \in Runs, Forward(r), dir'.summary.status = "PASS"
    PROVE  /\ dir'.summary.by = r /\ run[r].pc = Size /\ Task(r).do = "summary"
           /\ \A n \in 1..(Size - 1) : Leaves(r, n)'
<1>1. /\ run[r].pc \in 1..Size /\ Task(r) = Program[run[r].pc] /\ Size = Len(Program)
      /\ Single(Program)
    BY RunMoves, SameConnector DEF Forward, Size, StagingInv
<1>2. Task(r).do = "summary"
    BY TheFirstMakesIt, ForwardOne DEF StagingInv, Forward, DirectoryMoves
<1>3. run[r].pc = Size
    BY <1>1, <1>2 DEF Single
<1>4. dir'.summary.by = r
    BY <1>2 DEF Forward, DirectoryMoves
<1>5. ASSUME NEW n \in 1..(Size - 1)
      PROVE  Leaves(r, n)'
  <2>1. n \in 1..run[r].pc
    BY <1>1, <1>3
  <2> QED
    BY <2>1, ForwardLeaves
<1> QED
    BY <1>2, <1>3, <1>4, <1>5

LEMMA ForwardDescribes ==
    ASSUME StagingInv, NEW r \in Runs, Forward(r)
    PROVE  PassDescribesItsDirectory'
<1> SUFFICES ASSUME kind # "08", dir'.summary.status = "PASS"
             PROVE  /\ \A d \in Docs(kind) : dir'.raw[d] = r
                    /\ dir'.owner = r
                    /\ kind # "legacy" => dir'.candidate = r /\ RowsOf(kind) \subseteq dir'.rows
                    /\ kind = "legacy" => MigratedRows \cup {<<"run", "PASS">>} \subseteq dir'.rows
                    /\ kind # "legacy" =>
                          run'[r].read \in {0, run'[r].before.csv} \/ r \in undone'
    BY ForwardPass DEF PassDescribesItsDirectory, Forward, StagingInv
<1>1. /\ Task(r).do = "summary" /\ run[r].pc = Size /\ Task(r) = Program[Size]
      /\ DOMAIN Program = 1..Size /\ Program = Connector[kind] /\ Program' = Program
      /\ Size \in Nat /\ Len(Program) = Size /\ ~ Ended(r)
  <2>1. Task(r).do = "summary" /\ run[r].pc = Size
    BY ForwardPass
  <2>2. ~ Ended(r) /\ Task(r) = Program[run[r].pc] /\ Sound(Program) /\ Program' = Program
        /\ Size \in Nat
    BY RunMoves, SameConnector DEF Forward, StagingInv
  <2> QED
    BY <2>1, <2>2 DEF Sound, Size, Program
<1>2. \A n \in 1..(Size - 1) :
         /\ Program[n].do = "save" => dir'.raw[Program[n].row[1]] = r
         /\ Program[n].do = "schema" => dir'.owner = r
         /\ Program[n].do = "candidate" => dir'.candidate = r
         /\ Program[n].do = "datasets" => MigratedRows \subseteq dir'.rows
         /\ Program[n].do = "mark" => <<"run", "PASS">> \in dir'.rows
         /\ Program[n].do = "compare" =>
               run'[r].read \in {0, run'[r].before.csv} \/ r \in undone'
    BY <1>1, ForwardPass DEF Leaves
<1>3. ASSUME NEW n \in DOMAIN Program, Program[n].do # "summary"
      PROVE  n \in 1..(Size - 1)
    BY <1>1, <1>3
<1>4. \A d \in Docs(kind) : dir'.raw[d] = r
    BY <1>1, <1>2, <1>3 DEF Docs
<1>5. CASE kind = "legacy"
  <2>1. Migrating(Program)
    BY <1>5, ConnectorsAreSound DEF Program, StagingInv, StagingType
  <2> QED
    BY <1>1, <1>2, <1>4, <1>5, <2>1 DEF Migrating
<1>6. CASE kind # "legacy"
  <2>1. Usual(Program)
    BY <1>6, ConnectorsAreSound DEF Program, StagingInv, StagingType
  <2>2. RowsOf(kind) \subseteq dir'.rows
    <3> SUFFICES ASSUME NEW n \in DOMAIN Program, Program[n].do = "insert"
                 PROVE  Program[n].row \in dir'.rows
      BY <1>1 DEF RowsOf
    <3>1. n \in 1..(run[r].pc - 1) /\ Program[n].row # <<"run", "RUNNING">>
      BY <1>1, <1>3, <2>1 DEF Usual
    <3> QED
      BY <1>1, <3>1, RowsOnlyGrow DEF StagingInv, RowsAreThere
  <2> QED
    BY <1>1, <1>2, <1>4, <1>6, <2>1, <2>2 DEF Usual
<1> QED
    BY <1>5, <1>6

LEMMA ForwardKeeps ==
    ASSUME StagingInv, NEW r \in Runs, Forward(r), StagingType'
    PROVE  StagingInv'
<1> USE DEF StagingInv
<1>1. /\ kind' = kind /\ run[r].pc \in 1..Size /\ run'[r].pc = run[r].pc + 1
      /\ Program' = Program /\ Size' = Size /\ Size \in Nat
    BY RunMoves, SameConnector DEF Forward
<1>2. OneAtATime' /\ InTheirDirectory'
    BY <1>1, ForwardOne DEF OneAtATime, InTheirDirectory
<1>3. WorkIsThere'
  <2> SUFFICES ASSUME kind # "08", NEW s \in Runs, Going(s)', NEW n \in 1..(run'[s].pc - 1)
               PROVE  Leaves(s, n)'
    BY <1>1 DEF WorkIsThere
  <2>1. s = r
    BY ForwardOne
  <2>2. n \in 1..run[r].pc
    BY <1>1, <2>1
  <2> QED
    BY <2>1, <2>2, ForwardLeaves
<1>4. PassIsFinal'
  <2> SUFFICES ASSUME kind # "08", dir'.summary.status = "PASS"
               PROVE  /\ dir'.exists /\ dir'.summary.by \in Runs
                      /\ \A s \in Runs : ~ Going(s)'
                      /\ Ended(dir.summary.by)'
    BY <1>1 DEF PassIsFinal
  <2>1. dir'.summary.by = r /\ run[r].pc = Size
    BY ForwardPass
  <2>2. Ended(r)' /\ ~ Going(r)'
    BY <1>1, <2>1, SameConnector
  <2>3. Ended(dir.summary.by)'
    BY <2>1, <2>2 DEF Ended
  <2> QED
    BY <2>1, <2>2, <2>3, ForwardOne
<1> QED
    BY <1>2, <1>3, <1>4, ForwardRows, ForwardRefers, ForwardBetween, ForwardDescribes

LEMMA HaltedKeeps ==
    ASSUME StagingInv, NEW r \in Runs, Halted(r), StagingType'
    PROVE  StagingInv'
<1> USE DEF StagingInv
<1>1. /\ kind' = kind /\ formal' = formal /\ undone' = undone
      /\ run[r].pc \in 1..Size /\ run'[r].pc = Size + 1
      /\ Program' = Program /\ Size' = Size /\ Size \in Nat /\ ~ Ended(r)
      /\ run'[r].before = run[r].before /\ run'[r].read = run[r].read
      /\ \A s \in Runs \ {r} : run'[s] = run[s]
    BY RunMoves, SameConnector DEF Halted
<1>2. ASSUME NEW s \in Runs
      PROVE  /\ Ended(r)' /\ ~ Going(r)'
             /\ s # r => (Ended(s)' <=> Ended(s)) /\ (Going(s)' <=> Going(s))
    BY <1>1, SameConnector
<1>3. RowsAreThere'
  <2> SUFFICES ASSUME NEW s \in Runs, ~ Ended(s)', NEW n \in 1..(run'[s].pc - 1),
                      Program[n].do = "insert"
               PROVE  Program[n].row \in dir'.rows \cup {<<"run", "RUNNING">>}
    BY <1>1 DEF RowsAreThere
  <2>1. s # r /\ ~ Ended(s) /\ run'[s] = run[s]
    BY <1>1, <1>2
  <2> QED
    BY <2>1, RowsOnlyGrow DEF RowsAreThere
<1>4. NoDanglingRows'
  <2> SUFFICES ASSUME NEW x \in dir'.rows, NEW q \in Needs(x[1], x[2])
               PROVE  q \in dir'.rows
    BY DEF NoDanglingRows
  <2>1. q # <<"run", "RUNNING">>
    BY NoRunIsNeeded
  <2>2. x # <<"run", "FAIL">>
    BY RunsNeedNothing
  <2> QED
    BY <2>1, <2>2, RowsOnlyGrow DEF NoDanglingRows, Halted, DirectoryHalts
<1>5. OneAtATime'
    BY <1>1, <1>2 DEF OneAtATime
<1>6. InTheirDirectory'
    BY <1>1, <1>2 DEF InTheirDirectory, Halted, DirectoryHalts
<1>7. WorkIsThere'
  <2> SUFFICES ASSUME kind # "08", NEW s \in Runs, Going(s)', NEW n \in 1..(run'[s].pc - 1)
               PROVE  Leaves(s, n)'
    BY <1>1 DEF WorkIsThere
  <2>1. s # r /\ Going(s) /\ run'[s] = run[s]
    BY <1>1, <1>2
  <2>2. Leaves(s, n)
    BY <2>1 DEF WorkIsThere
  <2>3. /\ Program[n].do = "datasets" => MigratedRows \subseteq dir'.rows
        /\ Program[n].do = "mark" => <<"run", "PASS">> \in dir'.rows
    BY <2>2, RowsOnlyGrow DEF Leaves, MigratedRows
  <2> QED
    BY <1>1, <2>1, <2>2, <2>3 DEF Leaves, Halted, DirectoryHalts
<1>8. ReadInBetween'
  <2> SUFFICES ASSUME kind # "08", NEW s \in Runs
               PROVE  /\ run'[s].pc <= 2 => run'[s].read = 0 /\ run'[s].before.csv = 0
                      /\ ~ Ended(s)' /\ s \notin undone =>
                            /\ run'[s].before.csv <= formal'.csv
                            /\ \/ run'[s].read = 0
                               \/ run'[s].before.csv <= run'[s].read
                                  /\ run'[s].read <= formal'.csv
    BY <1>1 DEF ReadInBetween
  <2>1. Size > 2
    BY <1>1, SameConnector DEF Single, Size
  <2> QED
    BY <1>1, <1>2, <2>1 DEF ReadInBetween
<1>9. dir'.summary.status = "PASS" /\ kind # "08" =>
         /\ dir'.summary = dir.summary /\ dir'.exists /\ dir.exists
         /\ dir.summary.by \in Runs /\ dir.summary.by # r
         /\ \A s \in Runs : ~ Going(s)
         /\ Ended(dir.summary.by)
    BY <1>1 DEF PassIsFinal, Halted, DirectoryHalts
<1>10. PassIsFinal'
  <2> SUFFICES ASSUME kind # "08", dir'.summary.status = "PASS"
               PROVE  /\ dir'.exists /\ dir'.summary.by \in Runs
                      /\ \A s \in Runs : ~ Going(s)'
                      /\ Ended(dir.summary.by)'
    BY <1>1 DEF PassIsFinal
  <2>1. Ended(dir.summary.by)'
    BY <1>1, <1>9, SameConnector DEF Ended
  <2> QED
    BY <1>2, <1>9, <2>1
<1>11. PassDescribesItsDirectory'
  <2> SUFFICES ASSUME kind # "08", dir'.summary.status = "PASS"
               PROVE  PassDescribesItsDirectory'
    BY <1>1 DEF PassDescribesItsDirectory
  <2>1. run'[dir.summary.by] = run[dir.summary.by] /\ dir'.summary = dir.summary
    BY <1>1, <1>9
  <2>2. dir'.raw = dir.raw /\ dir'.owner = dir.owner /\ dir'.candidate = dir.candidate
    BY DEF Halted, DirectoryHalts
  <2>3. kind = "legacy" => MigratedRows \cup {<<"run", "PASS">>} \subseteq dir'.rows
    BY <2>1, RowsOnlyGrow DEF PassDescribesItsDirectory, MigratedRows
  <2>4. kind # "legacy" => RowsOf(kind) \subseteq dir'.rows
    <3> SUFFICES ASSUME kind # "legacy", NEW n \in DOMAIN Program, Program[n].do = "insert"
                 PROVE  Program[n].row \in dir'.rows
      BY DEF RowsOf, Program
    <3>1. Program[n].row # <<"run", "RUNNING">> /\ Program[n].row \in RowsOf(kind)
      BY ConnectorsAreSound DEF RowsOf, Program, Usual, StagingType, Sound
    <3> QED
      BY <2>1, <3>1, RowsOnlyGrow DEF PassDescribesItsDirectory
  <2> QED
    BY <1>1, <2>1, <2>2, <2>3, <2>4 DEF PassDescribesItsDirectory
<1> QED
    BY <1>3, <1>4, <1>5, <1>6, <1>7, <1>8, <1>10, <1>11

LEMMA FormalChangeKeeps ==
    ASSUME StagingInv, NEW f \in {"csv", "db"}, FormalChange(f)
    PROVE  StagingInv'
<1> USE DEF StagingInv
<1>1. /\ UNCHANGED <<kind, run, dir, undone>> /\ formal' \in [csv : Nat, db : Nat]
      /\ formal.csv <= formal'.csv
    BY DEF FormalChange, StagingType
<1>2. StagingType'
    BY <1>1 DEF StagingType, RunType, DirType, Cells, Size, Program
<1>3. ReadInBetween'
  <2> SUFFICES ASSUME kind # "08", NEW s \in Runs
               PROVE  /\ run[s].pc <= 2 => run[s].read = 0 /\ run[s].before.csv = 0
                      /\ ~ Ended(s) /\ s \notin undone =>
                            /\ run[s].before.csv <= formal'.csv
                            /\ \/ run[s].read = 0
                               \/ run[s].before.csv <= run[s].read /\ run[s].read <= formal'.csv
    BY <1>1 DEF ReadInBetween, Ended
  <2>1. /\ run[s].before.csv \in Nat /\ run[s].read \in Nat /\ formal.csv \in Nat
        /\ formal'.csv \in Nat
    BY <1>1 DEF StagingType, RunType
  <2> QED
    BY <1>1, <2>1 DEF ReadInBetween
<1>4. RowsAreThere' /\ OneAtATime' /\ InTheirDirectory'
    BY <1>1 DEF RowsAreThere, OneAtATime, InTheirDirectory, Going, Ended, Program
<1>5. WorkIsThere'
    BY <1>1 DEF WorkIsThere, Leaves, Going, Ended, Program
<1>6. PassIsFinal' /\ NoDanglingRows' /\ PassDescribesItsDirectory'
    BY <1>1 DEF PassIsFinal, NoDanglingRows, PassDescribesItsDirectory, Going, Ended
<1> QED
    BY <1>2, <1>3, <1>4, <1>5, <1>6

\* A run that had taken its hashes is noted, one that had not has read nothing.
LEMMA FormalRestoredKeeps ==
    ASSUME StagingInv, FormalRestored
    PROVE  StagingInv'
<1> USE DEF StagingInv
<1>1. /\ UNCHANGED <<kind, run, dir>> /\ formal' \in [csv : Nat, db : Nat]
      /\ undone' = undone \cup {r \in Runs : ~ Ended(r) /\ run[r].pc > 2}
    BY DEF FormalRestored, StagingType
<1>2. StagingType'
    BY <1>1 DEF StagingType, RunType, DirType, Cells, Size, Program
<1>3. ReadInBetween'
  <2> SUFFICES ASSUME kind # "08", NEW s \in Runs, ~ Ended(s), s \notin undone'
               PROVE  /\ run[s].before.csv <= formal'.csv
                      /\ run[s].read = 0
    BY <1>1 DEF ReadInBetween, Ended
  <2>1. run[s].pc \in Nat /\ run[s].pc <= 2 /\ formal'.csv \in Nat
    BY <1>1, SameConnector DEF StagingType, RunType, Size
  <2> QED
    BY <2>1 DEF ReadInBetween
<1>4. RowsAreThere' /\ OneAtATime' /\ InTheirDirectory'
    BY <1>1 DEF RowsAreThere, OneAtATime, InTheirDirectory, Going, Ended, Program
<1>5. WorkIsThere'
    BY <1>1 DEF WorkIsThere, Leaves, Going, Ended, Program
<1>6. PassIsFinal' /\ NoDanglingRows' /\ PassDescribesItsDirectory'
    BY <1>1 DEF PassIsFinal, NoDanglingRows, PassDescribesItsDirectory, Going, Ended
<1> QED
    BY <1>2, <1>3, <1>4, <1>5, <1>6

LEMMA StagingStutters ==
    ASSUME StagingInv, UNCHANGED svars
    PROVE  StagingInv'
<1> USE DEF StagingInv
<1>1. UNCHANGED <<kind, formal, run, dir, undone>>
    BY DEF svars
<1>2. StagingType' /\ ReadInBetween'
    BY <1>1 DEF StagingType, RunType, DirType, Cells, Size, Program, ReadInBetween, Ended
<1>3. RowsAreThere' /\ OneAtATime' /\ InTheirDirectory'
    BY <1>1 DEF RowsAreThere, OneAtATime, InTheirDirectory, Going, Ended, Program
<1>4. WorkIsThere'
    BY <1>1 DEF WorkIsThere, Leaves, Going, Ended, Program
<1>5. PassIsFinal' /\ NoDanglingRows' /\ PassDescribesItsDirectory'
    BY <1>1 DEF PassIsFinal, NoDanglingRows, PassDescribesItsDirectory, Going, Ended
<1> QED
    BY <1>2, <1>3, <1>4, <1>5

LEMMA StagingStarts == StagingInit => StagingInv
<1> SUFFICES ASSUME StagingInit
             PROVE  StagingInv
    OBVIOUS
<1>1. /\ kind \in Kinds /\ formal = [csv |-> 1, db |-> 1]
      /\ run = [r \in Runs |-> [pc |-> 1, before |-> NoHash, read |-> 0]]
      /\ dir = [exists |-> FALSE, raw |-> [d \in AllDocs |-> NoOne],
              owner |-> NoOne, rows |-> {}, candidate |-> NoOne,
              summary |-> [by |-> NoOne, status |-> "none"]]
      /\ undone = {}
    BY DEF StagingInit
<1>2. Size \in Nat
    BY <1>1, ConnectorsAreSound DEF Size, Program, Sound
<1>3. dir \in DirType
    BY <1>1 DEF DirType
<1>4. run \in [Runs -> RunType]
  <2>1. [pc |-> 1, before |-> NoHash, read |-> 0] \in RunType
    BY <1>2 DEF RunType, NoHash
  <2> QED
    BY <1>1, <2>1
<1>5. StagingType
    BY <1>1, <1>3, <1>4 DEF StagingType
<1>6. \A r \in Runs : run[r].pc = 1 /\ ~ Going(r) /\ run[r].read = 0 /\ run[r].before.csv = 0
    BY <1>1 DEF Going, NoHash
<1>7. RowsAreThere
    BY <1>6 DEF RowsAreThere
<1> QED
    BY <1>1, <1>5, <1>6, <1>7 DEF StagingInv, OneAtATime, InTheirDirectory, WorkIsThere,
       ReadInBetween, PassIsFinal, NoDanglingRows, PassDescribesItsDirectory

LEMMA StagingKeeps == StagingInv /\ [StagingNext]_svars => StagingInv'
<1> SUFFICES ASSUME StagingInv, [StagingNext]_svars
             PROVE  StagingInv'
    OBVIOUS
<1>0. StagingType
    BY DEF StagingInv
<1>1. CASE UNCHANGED svars
    BY <1>1, StagingStutters
<1>2. CASE FormalRestored \/ \E f \in {"csv", "db"} : FormalChange(f)
    BY <1>2, FormalChangeKeeps, FormalRestoredKeeps
<1>3. ASSUME NEW r \in Runs,
             \/ MakeDirectory(r) \/ EnterDirectory(r) \/ TakeHashes(r)
             \/ FetchOrParse(r) \/ SaveRaw(r) \/ CreateSchema(r) \/ Insert(r)
             \/ ReadMaster(r) \/ MigrateDatasets(r) \/ CompareHashes(r)
             \/ CompareDatabase(r) \/ NoteProtected(r) \/ WriteCandidate(r)
             \/ MarkRun(r) \/ WriteSummary(r)
      PROVE  StagingInv'
  <2>1. (Forward(r) \/ Halted(r)) /\ StagingType'
    BY <1>0, <1>3, MakeDirectoryMoves, EnterDirectoryMoves, TakeHashesMoves, FetchOrParseMoves,
       SaveRawMoves, CreateSchemaMoves, InsertMoves, ReadMasterMoves, MigrateDatasetsMoves,
       CompareHashesMoves, CompareDatabaseMoves, NoteProtectedMoves, WriteCandidateMoves,
       MarkRunMoves, WriteSummaryMoves
  <2> QED
    BY <2>1, ForwardKeeps, HaltedKeeps
<1>4. ASSUME NEW r \in Runs, Raise(r) \/ KillRun(r)
      PROVE  StagingInv'
  <2>1. Halted(r) /\ StagingType'
    BY <1>0, <1>4, HaltingHalts DEF Raise, KillRun
  <2> QED
    BY <2>1, HaltedKeeps
<1> QED
    BY <1>1, <1>2, <1>3, <1>4 DEF StagingNext

\* A PASS summary of a dry run describes the directory it lies in, whoever else was
\* given that directory, whatever failed or was killed, and whatever was published
\* to the formal files meanwhile, or, for all but what was read of them, taken back:
\* for every set of runs, of the eight connectors.
THEOREM PassesTellTheTruth == StagingSpec => []PassDescribesItsDirectory
<1>1. StagingInv => PassDescribesItsDirectory
    BY DEF StagingInv
<1> QED
    BY <1>1, StagingStarts, StagingKeeps, PTL DEF StagingSpec

\* Every row of a dry run's database has the rows it refers to, wherever the run
\* that wrote it was killed, and with two runs of 08 writing into one directory.
THEOREM RowsFindTheirRows == StagingSpec => []NoDanglingRows
<1>1. StagingInv => NoDanglingRows
    BY DEF StagingInv
<1> QED
    BY <1>1, StagingStarts, StagingKeeps, PTL DEF StagingSpec

============================================================================
