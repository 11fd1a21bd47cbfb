--------------------------- MODULE ForeignHolding ---------------------------
(* Two releases that change the formal master: the official series of foreign *)
(* holdings, built by p2_03b_07_foreign_holding_connector.py and published by *)
(* p2_03b_07_publisher.py, and the normalisation of the version comment built *)
(* upon it, by p2_03b_07_metadata_normalizer.py and -_metadata_publisher.py.  *)
(* Neither builder nor publisher takes a lock, while the daily publish keeps  *)
(* appending a row and then attesting it in the same authority manifest.      *)
(*                                                                            *)
(* The master is a version (0 before, 1 the series, 2 the comment normalised),*)
(* the daily file a number of rows; the manifest states one of each, as a     *)
(* hash states a content.                                                     *)
EXTENDS Naturals, FiniteSets

CONSTANTS MaxDaily,  \* bound on the rows of the daily file
          Nothing

(* A backup directory that is there is not one that is not. *)
ASSUME NothingIsNoBackup ==
    Nothing \notin [master : Nat, authority : [master : Nat, daily : Nat]]

VARIABLES master, daily, authority, \* the formal files
          appended,   \* the daily publish has appended and not yet attested
          build,      \* per release: where its builder is and what it read
          candidate,  \* per release: the candidate directory
          dryRun,     \* per release: DRY_RUN.json says it passed
          approved,   \* releases the owner approved
          pub,        \* per release: where its publisher is
          baseline,   \* per release: protected_before
          backup,     \* per release: the backup directory
          published,  \* per release: POST_PUBLISH_RESULT.json says it passed
          disturbed   \* history: a publisher was overlapped or killed

hvars == <<master, daily, authority, appended, build, candidate, dryRun, approved,
           pub, baseline, backup, published, disturbed>>

Releases == {"series", "metadata"}
Formal   == [master |-> master, daily |-> daily, authority |-> authority]
Target(r) == IF r = "series" THEN 1 ELSE 2
Publishing == \E r \in Releases : pub[r] # "idle"

HoldingInit ==
    /\ master = 0 /\ daily = 1
    /\ authority = [master |-> 0, daily |-> 1]
    /\ appended = FALSE
    /\ build = [r \in Releases |-> [at |-> "idle", before |-> Nothing,
                                    authority |-> Nothing]]
    /\ candidate = [r \in Releases |-> Nothing]
    /\ dryRun = [r \in Releases |-> FALSE]
    /\ approved = {}
    /\ pub = [r \in Releases |-> "idle"]
    /\ baseline = [r \in Releases |-> Nothing]
    /\ backup = [r \in Releases |-> Nothing]
    /\ published = {}
    /\ disturbed = FALSE

files    == <<master, daily, authority, appended>>
building == <<build, candidate, dryRun>>
owning   == approved
pubvars  == <<pub, baseline, backup, published, disturbed>>

-----------------------------------------------------------------------------
(* The daily publish, seen from here: the row, then its entry.                *)
AppendDaily ==
    /\ ~ appended /\ daily < MaxDaily
    /\ daily' = daily + 1
    /\ appended' = TRUE
    /\ disturbed' = (disturbed \/ Publishing)
    /\ UNCHANGED <<master, authority, building, owning, pub, baseline, backup, published>>

AttestDaily ==
    /\ appended
    /\ authority' = [authority EXCEPT !.daily = daily]
    /\ appended' = FALSE
    /\ disturbed' = (disturbed \/ Publishing)
    /\ UNCHANGED <<master, daily, building, owning, pub, baseline, backup, published>>

-----------------------------------------------------------------------------
(* The builders hash the formal files, read the master and later the          *)
(* authority, and write the candidate with the baseline found then.           *)
StartBuild(r) ==
    /\ build[r].at = "idle" /\ ~ dryRun[r]
    /\ master = Target(r) - 1
    /\ build' = [build EXCEPT ![r] = [at |-> "authority", before |-> Formal,
                                      authority |-> Nothing]]
    /\ UNCHANGED <<files, candidate, dryRun, owning, pubvars>>

BuildAuthority(r) ==
    /\ build[r].at = "authority"
    /\ build' = [build EXCEPT ![r].at = "release", ![r].authority = authority]
    /\ UNCHANGED <<files, candidate, dryRun, owning, pubvars>>

(* The metadata builder writes its DRY_RUN.json here already. *)
BuildRelease(r) ==
    /\ build[r].at = "release"
    /\ candidate' = [candidate EXCEPT ![r] =
          [master |-> Target(r), before |-> Formal,
           authority |-> [build[r].authority EXCEPT !.master = Target(r)]]]
    /\ dryRun' = [dryRun EXCEPT ![r] = r = "metadata"]
    /\ build' = [build EXCEPT ![r].at = "compare"]
    /\ UNCHANGED <<files, owning, pubvars>>

(* If they differ it raises and the candidate stays; a new build needs a new  *)
(* directory and so has a new candidate.                                      *)
CompareProtected(r) ==
    /\ build[r].at = "compare"
    /\ dryRun' = [dryRun EXCEPT ![r] = @ \/ Formal = build[r].before]
    /\ build' = [build EXCEPT ![r] = [at |-> "idle", before |-> Nothing,
                                      authority |-> Nothing]]
    /\ UNCHANGED <<files, candidate, owning, pubvars>>

(* The owner approves the hash of a manifest whose dry run passed. *)
Approve(r) ==
    /\ dryRun[r] /\ build[r].at = "idle"
    /\ approved' = approved \cup {r}
    /\ UNCHANGED <<files, building, pubvars>>

-----------------------------------------------------------------------------
(* Mutant: the baseline is not compared. *)
AnyBaseline(r) == candidate[r] # Nothing

(* verify_candidate.  The owner starts one publisher after the other: each one *)
(* has an approval item of its own.  For the metadata the master may differ from  *)
(* the formal one in its version comment, the manifest in the master's entry. *)
OnBaseline(r) == candidate[r].before = Formal
OnlyTheCommentDiffers(r) == candidate[r].master = master + 1
OnlyTheMasterEntryDiffers(r) ==
    candidate[r].authority = [authority EXCEPT !.master = candidate[r].master]

VerifyCandidate(r) ==
    /\ ~ Publishing /\ r \in approved
    /\ OnBaseline(r)
    /\ r = "metadata" => OnlyTheCommentDiffers(r) /\ OnlyTheMasterEntryDiffers(r)
    /\ pub' = [pub EXCEPT ![r] = "hash"]
    /\ disturbed' = (disturbed \/ appended)
    /\ UNCHANGED <<files, building, owning, baseline, backup, published>>

PublisherGoesTo(r, s) == pub' = [pub EXCEPT ![r] = s]

(* Taken after the verification; the publisher of the series trusts it later. *)
HashProtected(r) ==
    /\ pub[r] = "hash"
    /\ baseline' = [baseline EXCEPT ![r] = Formal]
    /\ PublisherGoesTo(r, "backup")
    /\ UNCHANGED <<files, building, owning, backup, published, disturbed>>

(* Mutant: the candidate's master is backed up instead of the formal one.     *)
BackUpCandidate(r) ==
    /\ pub[r] = "backup"
    /\ backup' = [backup EXCEPT ![r] = [master |-> candidate[r].master,
                                        authority |-> authority]]
    /\ PublisherGoesTo(r, "master")
    /\ UNCHANGED <<files, building, owning, baseline, published, disturbed>>

BackUp(r) ==
    /\ pub[r] = "backup"
    /\ backup' = [backup EXCEPT ![r] = [master |-> master, authority |-> authority]]
    /\ PublisherGoesTo(r, "master")
    /\ UNCHANGED <<files, building, owning, baseline, published, disturbed>>

WriteMaster(r) ==
    /\ pub[r] = "master"
    /\ master' = candidate[r].master
    /\ PublisherGoesTo(r, "authority")
    /\ UNCHANGED <<daily, authority, appended, building, owning, baseline, backup,
                   published, disturbed>>

WriteAuthority(r) ==
    /\ pub[r] = "authority"
    /\ authority' = candidate[r].authority
    /\ PublisherGoesTo(r, "verify")
    /\ UNCHANGED <<master, daily, appended, building, owning, baseline, backup,
                   published, disturbed>>

(* The changed files must be the candidate's; the daily file what it was, for *)
(* the series when the hashes were taken, for the metadata in the candidate.  *)
AsPublished(r) ==
    /\ master = candidate[r].master
    /\ authority = candidate[r].authority
    /\ daily = IF r = "series" THEN baseline[r].daily ELSE candidate[r].before.daily

VerifyPublished(r) ==
    /\ pub[r] = "verify"
    /\ IF AsPublished(r)
       THEN published' = published \cup {r} /\ PublisherGoesTo(r, "idle")
       ELSE published' = published /\ PublisherGoesTo(r, "restore")
    /\ UNCHANGED <<files, building, owning, baseline, backup, disturbed>>

(* An error of a write; what was written is taken back. *)
PublishFails(r) ==
    /\ pub[r] \in {"master", "authority", "verify"}
    /\ PublisherGoesTo(r, "restore")
    /\ UNCHANGED <<files, building, owning, baseline, backup, published, disturbed>>

(* The two files in the order of a set: either first. *)
RestoreFirst(r) ==
    /\ pub[r] = "restore"
    /\ \/ /\ master' = backup[r].master
          /\ PublisherGoesTo(r, "restore authority")
          /\ UNCHANGED authority
       \/ /\ authority' = backup[r].authority
          /\ PublisherGoesTo(r, "restore master")
          /\ UNCHANGED master
    /\ UNCHANGED <<daily, appended, building, owning, baseline, backup, published,
                   disturbed>>

RestoreSecond(r) ==
    /\ pub[r] \in {"restore authority", "restore master"}
    /\ IF pub[r] = "restore master"
       THEN master' = backup[r].master /\ UNCHANGED authority
       ELSE authority' = backup[r].authority /\ UNCHANGED master
    /\ PublisherGoesTo(r, "idle")
    /\ UNCHANGED <<daily, appended, building, owning, baseline, backup, published,
                   disturbed>>

KillPublisher(r) ==
    /\ pub[r] # "idle"
    /\ PublisherGoesTo(r, "idle")
    /\ disturbed' = TRUE
    /\ UNCHANGED <<files, building, owning, baseline, backup, published>>

HoldingNext ==
    \/ AppendDaily \/ AttestDaily
    \/ \E r \in Releases :
        \/ StartBuild(r) \/ BuildAuthority(r) \/ BuildRelease(r)
        \/ CompareProtected(r) \/ Approve(r)
        \/ VerifyCandidate(r) \/ HashProtected(r) \/ BackUp(r) \/ WriteMaster(r)
        \/ WriteAuthority(r) \/ VerifyPublished(r) \/ PublishFails(r)
        \/ RestoreFirst(r) \/ RestoreSecond(r) \/ KillPublisher(r)

HoldingSpec == HoldingInit /\ [][HoldingNext]_hvars

-----------------------------------------------------------------------------
(* However the builders were overlapped by daily publishes, and although      *)
(* the metadata builder says PASS before it compares: as long as nobody       *)
(* overlapped or killed a publisher, the manifest states the formal files     *)
(* whenever no publish is under way.                                          *)
AuthorityStatesTheFiles ==
    ~ disturbed /\ ~ appended /\ ~ Publishing
        => authority = [master |-> master, daily |-> daily]

(* What a killed publisher tore apart lies in its backup: the pair as it was. *)
TornPairHasBackup ==
    (\A r \in Releases : pub[r] = "idle") /\ authority.master # master =>
        \E r \in Releases : /\ backup[r] # Nothing
                            /\ backup[r].authority.master = backup[r].master
============================================================================
