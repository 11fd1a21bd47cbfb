---------------------------- MODULE FactDatabase ----------------------------
(* The maintenance tool of the SQLite fact database (db/tools/p1008_db.py):   *)
(* forward-only migrations behind a backup and a dry run, online backups with *)
(* a manifest, restores into a new path, and the lease of the one writer.     *)
(*                                                                            *)
(* Every operation that writes holds an operating system lock on a file       *)
(* beside the database for as long as its process lives; the lock is not      *)
(* waited for.  The lease is a RUNNING row in pipeline_runs that outlives a   *)
(* killed process until it expires.  The connection commits every statement   *)
(* of its own (isolation_level None), so what a writer wrote before it failed *)
(* stays.                                                                     *)
(*                                                                            *)
(* A committed state of the database is a record: the migrations applied, the *)
(* number of rows its writers added, the backups recorded and the RUNNING     *)
(* row.  A step that fails may do so between any two of the actions below.    *)
EXTENDS Naturals, FiniteSets, FiniteSetsExt

CONSTANTS Procs,        \* processes of the tool and of its writers
          LastMigration,\* the migrations are numbered 1 .. LastMigration
          Bad,          \* the migrations whose SQL fails
          MaxRows,      \* bound on the rows writers add
          MaxBackups,   \* bound on the backups placed
          Nobody

ASSUME FactDatabaseAssumption ==
    /\ LastMigration \in Nat \ {0} /\ MaxRows \in Nat /\ MaxBackups \in Nat
    /\ Bad \subseteq 1 .. LastMigration
    /\ Nobody \notin Procs

VARIABLES db,        \* the committed state of the database
          shipped,   \* migration files 1 .. shipped are in the directory
          lock,      \* who holds the operating system lock
          step,      \* what each process does next
          pending,   \* the migrations a process found to be applied
          snap,      \* the state a process copied for its backup
          backups,   \* the backup files: content, and whether a manifest exists
          named,     \* contents named in the current second (second and hash)
          restored,  \* what was restored into the one path restores go to
          wayBack    \* history: the rows there were when a migration was applied

fvars == <<db, shipped, lock, step, pending, snap, backups, named, restored,
           wayBack>>

NoRun    == [owner |-> Nobody, expired |-> FALSE]
Empty    == [applied |-> {}, rows |-> 0, records |-> 0, run |-> NoRun]
Migrated == db.applied # {}      \* the tables exist from migration 1 on
RunningOwner == db.run.owner

Init ==
    /\ db = Empty
    /\ shipped = 1
    /\ lock = Nobody
    /\ step = [p \in Procs |-> "idle"]
    /\ pending = [p \in Procs |-> {}]
    /\ snap = [p \in Procs |-> Empty]
    /\ backups = {}
    /\ named = {}
    /\ restored = {}
    /\ wayBack = [m \in 1 .. LastMigration |-> 0]

-----------------------------------------------------------------------------
(* The operating system lock: taken or refused at once, released by the       *)
(* context manager or by the death of the process.                            *)
(* Mutant: nobody asks for the lock.                                          *)
TakeLockUnasked(p, s) ==
    /\ step[p] = "idle"
    /\ lock' = p
    /\ step' = [step EXCEPT ![p] = s]

TakeLock(p, s) ==
    /\ step[p] = "idle"
    /\ lock = Nobody
    /\ lock' = p
    /\ step' = [step EXCEPT ![p] = s]

Release(p) ==
    /\ lock' = IF lock = p THEN Nobody ELSE lock
    /\ step' = [step EXCEPT ![p] = "idle"]
    /\ pending' = [pending EXCEPT ![p] = {}]
    /\ snap' = [snap EXCEPT ![p] = Empty]

Goto(p, s) == step' = [step EXCEPT ![p] = s] /\ UNCHANGED lock

-----------------------------------------------------------------------------
(* migrate: what is pending is read once, before the backup, and used after   *)
(* the connection was closed and opened again.                                *)
StartMigrate(p) ==
    /\ TakeLock(p, "copy")
    /\ pending' = [pending EXCEPT ![p] = (1 .. shipped) \ db.applied]
    /\ pending'[p] # {}
    /\ UNCHANGED <<db, shipped, snap, backups, named, restored, wayBack>>

(* backup: the same copy without migrations behind it. *)
StartBackup(p) ==
    /\ TakeLock(p, "copy")
    /\ UNCHANGED <<db, shipped, pending, snap, backups, named, restored, wayBack>>

(* create_backup, first the online copy and its integrity check ... *)
CopyDatabase(p) ==
    /\ step[p] = "copy"
    /\ snap' = [snap EXCEPT ![p] = db]
    /\ Goto(p, "place")
    /\ UNCHANGED <<db, shipped, pending, backups, named, restored, wayBack>>

(* ... then its name of second and hash, which must be free, ... *)
PlaceBackup(p) ==
    /\ step[p] = "place"
    /\ snap[p] \notin named
    /\ Cardinality(backups) < MaxBackups
    /\ backups' = backups \cup {[snap |-> snap[p], manifest |-> FALSE]}
    /\ named' = named \cup {snap[p]}
    /\ Goto(p, "manifest")
    /\ UNCHANGED <<db, shipped, pending, snap, restored, wayBack>>

BackupNameTaken(p) ==
    /\ step[p] = "place"
    /\ snap[p] \in named
    /\ Release(p)
    /\ UNCHANGED <<db, shipped, backups, named, restored, wayBack>>

(* ... then the manifest, without which the backup is refused, ... *)
WriteManifest(p) ==
    /\ step[p] = "manifest"
    /\ backups' = (backups \ {[snap |-> snap[p], manifest |-> FALSE]})
                     \cup {[snap |-> snap[p], manifest |-> TRUE]}
    /\ Goto(p, "record")
    /\ UNCHANGED <<db, shipped, pending, snap, named, restored, wayBack>>

(* ... and last its row, when the table exists. *)
RecordBackup(p) ==
    /\ step[p] = "record"
    /\ db' = IF Migrated THEN [db EXCEPT !.records = @ + 1] ELSE db
    /\ IF pending[p] = {}
       THEN Release(p)
       ELSE Goto(p, "dry run") /\ UNCHANGED <<pending, snap>>
    /\ UNCHANGED <<shipped, backups, named, restored, wayBack>>

(* The dry run applies everything pending to a clone of the backup; with      *)
(* --dry-run-only the command ends here.                                      *)
DryRun(p) ==
    /\ step[p] = "dry run"
    /\ \/ /\ pending[p] \cap Bad = {}
          /\ Goto(p, "apply")
          /\ UNCHANGED <<pending, snap>>
       \/ Release(p)
    /\ UNCHANGED <<db, shipped, backups, named, restored, wayBack>>

(* The next migration, in a transaction of its own with its history row. *)
ApplyOne(p) ==
    LET m == Min(pending[p]) IN
    /\ step[p] = "apply"
    /\ m \notin Bad
    /\ db' = [db EXCEPT !.applied = @ \cup {m}]
    /\ wayBack' = [wayBack EXCEPT ![m] = db.rows]
    /\ IF pending[p] = {m}
       THEN Release(p)
       ELSE /\ pending' = [pending EXCEPT ![p] = @ \ {m}]
            /\ UNCHANGED <<lock, step, snap>>
    /\ UNCHANGED <<shipped, backups, named, restored>>

(* It fails: rolled back, a FAIL row noted, the later ones not tried and the  *)
(* earlier ones kept.                                                         *)
ApplyFails(p) ==
    /\ step[p] = "apply"
    /\ Release(p)
    /\ UNCHANGED <<db, shipped, backups, named, restored, wayBack>>

-----------------------------------------------------------------------------
(* writer_lease: at most one RUNNING row; an expired one is abandoned to the  *)
(* new writer, one that is still valid refuses it.                            *)
AcquireLease(p) ==
    /\ Migrated
    /\ RunningOwner = Nobody \/ db.run.expired
    /\ TakeLock(p, "write")
    /\ db' = [db EXCEPT !.run = [owner |-> p, expired |-> FALSE]]
    /\ UNCHANGED <<shipped, pending, snap, backups, named, restored, wayBack>>

WriteRow(p) ==
    /\ step[p] = "write"
    /\ db.rows < MaxRows
    /\ db' = [db EXCEPT !.rows = @ + 1]
    /\ UNCHANGED <<shipped, lock, step, pending, snap, backups, named, restored,
                   wayBack>>

(* COMPLETED, or FAILED by an exception: the row is not RUNNING any more and  *)
(* what was written stays.                                                    *)
EndLease(p) ==
    /\ step[p] = "write"
    /\ db' = [db EXCEPT !.run = NoRun]
    /\ Release(p)
    /\ UNCHANGED <<shipped, backups, named, restored, wayBack>>

(* The lease is never renewed: it runs out under a living writer too. *)
LeaseExpires ==
    /\ RunningOwner # Nobody
    /\ ~ db.run.expired
    /\ db' = [db EXCEPT !.run.expired = TRUE]
    /\ UNCHANGED <<shipped, lock, step, pending, snap, backups, named, restored,
                   wayBack>>

-----------------------------------------------------------------------------
(* A killed process frees its lock and nothing else. *)
Kill(p) ==
    /\ step[p] # "idle"
    /\ Release(p)
    /\ UNCHANGED <<db, shipped, backups, named, restored, wayBack>>

(* restore_backup: the backup must be complete and the target must not exist. *)
Restore(b) ==
    /\ b.manifest
    /\ restored = {}
    /\ restored' = {b.snap}
    /\ UNCHANGED <<db, shipped, lock, step, pending, snap, backups, named, wayBack>>

ShipMigration ==
    /\ shipped < LastMigration
    /\ shipped' = shipped + 1
    /\ UNCHANGED <<db, lock, step, pending, snap, backups, named, restored, wayBack>>

NextSecond ==
    /\ named # {}
    /\ named' = {}
    /\ UNCHANGED <<db, shipped, lock, step, pending, snap, backups, restored, wayBack>>

Command(p) ==
    \/ StartMigrate(p) \/ StartBackup(p) \/ CopyDatabase(p) \/ PlaceBackup(p)
    \/ BackupNameTaken(p) \/ WriteManifest(p) \/ RecordBackup(p) \/ DryRun(p)
    \/ ApplyOne(p) \/ ApplyFails(p) \/ AcquireLease(p) \/ WriteRow(p)
    \/ EndLease(p) \/ Kill(p)

Next ==
    \/ \E p \in Procs : Command(p)
    \/ \E b \in backups : Restore(b)
    \/ LeaseExpires \/ ShipMigration \/ NextSecond

FactSpec == Init /\ [][Next]_fvars

-----------------------------------------------------------------------------
(* For every migration in the database there is a backup with a manifest that *)
(* does not have it and has every row that was there when it was applied: no  *)
(* writer came between the backup and the migration, though the connection    *)
(* was closed and opened again and any process may have been killed.          *)
EveryMigrationHasItsWayBack ==
    \A m \in db.applied :
        \E b \in backups : /\ b.manifest
                           /\ m \notin b.snap.applied
                           /\ b.snap.rows = wayBack[m]

(* A lease changes hands only when its owner is not writing any more, whether *)
(* or not it had run out under it.                                            *)
NeverTakenFromALivingWriter ==
    [][\A p \in Procs : (RunningOwner = p /\ step[p] = "write"
                           /\ RunningOwner' # p) => step'[p] = "idle"]_fvars

-----------------------------------------------------------------------------
============================================================================
