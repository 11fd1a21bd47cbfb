---------------------------- MODULE ReportLibrary ---------------------------
(* The report library: two manifests without a lock, the runtime's ledger and *)
(* the private library, that quarterly completions, editorial returns, major  *)
(* events, owner decisions and periodic reports all rewrite.  A governed      *)
(* program validates everything that it finds, plans all files at once and    *)
(* replaces them one by one; after an error it writes back what it saved, file*)
(* by file, and passes over a file that cannot be written; a kill leaves all  *)
(* as it is.                                                                  *)
(*                                                                            *)
(* A file is what its hash tells apart.  The parts of one report (candidate,  *)
(* validation, HTML and PDF) are one file; the decision record is part of the *)
(* owner's file.  A report's content is the number of the editorial return it *)
(* was rendered from, 0 being the original.                                   *)
EXTENDS Naturals, Sequences, FiniteSets

CONSTANTS Quarters, Majors,   \* report keys of quarters and of major events
          MaxRevision,        \* bound on the revisions of a report
          MaxReturns,         \* bound on the editorial returns of a revision
          MaxSpoilt,          \* bound on the kinds of mishap in one behaviour
          Writers,
          Absent,             \* no such file, entry or revision
          Torn                \* a file of which only the beginning was written

VARIABLES disk,      \* every file, or Absent
          writer,    \* per program: the files it still has to write, what it saved, and
                     \* whether it is writing that back
          spoilt     \* history: what happened that may leave the library unusable

lvars == <<disk, writer, spoilt>>

Reports == Quarters \cup Majors
Revisions == 1..MaxRevision
Manifests == {<<"runtime">>, <<"library">>}
Files == Manifests \cup ({"body", "owner"} \X Reports \X Revisions)
                   \cup ({"history", "run"} \X Quarters \X Revisions)
                   \cup ({"render", "receipt"} \X Majors \X Revisions)

(* What the files of the library hold.                                        *)
Histories == [returns : Nat, current : Nat, pending : BOOLEAN]
EntryRecords == [content : Nat, prev : Nat \cup {Absent}, history : Histories \cup {Absent},
                 rendered : BOOLEAN, decision : {"PENDING", "APPROVE", "REJECT"}]
LatestRecords == [v : Revisions, entry : EntryRecords]
OwnerRecords == [rendered : BOOLEAN, decision : {"PENDING", "APPROVE", "REJECT"}]
ManifestRecords ==
    [entries : [Reports -> [Revisions -> EntryRecords \cup {Absent}]],
     latest  : [Reports -> LatestRecords \cup {Absent}], monthly : BOOLEAN]

ASSUME ReportsHaveOneKind == Quarters \cap Majors = {}
ASSUME RevisionsAreCounted == MaxRevision \in Nat
ASSUME AbsentIsNoContent ==
    {Absent, Torn} \cap (ManifestRecords \cup EntryRecords \cup LatestRecords \cup OwnerRecords)
        = {}

EmptyManifest == [entries |-> [r \in Reports |-> [v \in Revisions |-> Absent]],
                  latest  |-> [r \in Reports |-> Absent],
                  monthly |-> FALSE]
NewEntry(previous) == [content |-> 0, prev |-> previous, history |-> Absent,
                       rendered |-> FALSE, decision |-> "PENDING"]
Original == [returns |-> 0, current |-> 0, pending |-> FALSE]

IdleWriter == [todo |-> <<>>, saved |-> <<>>, undo |-> FALSE]
AtWork(p) == writer[p].todo # <<>>

LibraryInit ==
    /\ disk = [f \in Files |-> Absent]
    /\ writer = [p \in Writers |-> IdleWriter]
    /\ spoilt = {}

-----------------------------------------------------------------------------
(* What the programs validate before they write. *)
Runtime == disk[<<"runtime">>]
Library == disk[<<"library">>]
RevisionsIn(manifest, r) == {v \in Revisions : manifest.entries[r][v] # Absent}
Count(r) == Cardinality(RevisionsIn(Runtime, r))
EntryOf(r, v) == Runtime.entries[r][v]

(* _validate_manifest_relationship: identities only. *)
Related ==
    /\ \A m \in Manifests : disk[m] \notin {Absent, Torn} /\ \A r \in Reports :
          disk[m].latest[r] # Absent => disk[m].latest[r].v \in RevisionsIn(disk[m], r)
    /\ \A r \in Reports : RevisionsIn(Library, r) \subseteq RevisionsIn(Runtime, r)
    /\ Library.monthly => Runtime.monthly

(* _validate_report_artifacts: only quarterly entries list their files; a     *)
(* revision that an editorial return was applied to lists its history too.    *)
ArtifactsMatch(manifest) ==
    \A q \in Quarters : \A v \in RevisionsIn(manifest, q) :
        LET e == manifest.entries[q][v]
        IN  /\ disk[<<"body", q, v>>] = e.content
            /\ disk[<<"owner", q, v>>] = e.content
            /\ e.history # Absent => disk[<<"history", q, v>>] = e.history

(* bootstrap_report_library on a library that is there. *)
Healthy == Related /\ ArtifactsMatch(Runtime) /\ ArtifactsMatch(Library)

(* _validate_history and _validate_existing_lineage. *)
LineageValid(r) ==
    /\ RevisionsIn(Runtime, r) = RevisionsIn(Library, r)
    /\ \A v \in RevisionsIn(Runtime, r) :
          LET left == Runtime.entries[r][v]  right == Library.entries[r][v]
          IN  /\ left.content = right.content /\ left.prev = right.prev
              /\ IF v = 1 THEN left.prev = Absent
                 ELSE /\ EntryOf(r, v - 1) # Absent
                      /\ left.prev = EntryOf(r, v - 1).content
              /\ disk[<<"body", r, v>>] = left.content
              /\ IF r \in Quarters THEN disk[<<"owner", r, v>>] = left.content
                                   ELSE disk[<<"owner", r, v>>] \notin {Absent, Torn}
    /\ Count(r) > 0 => \A m \in Manifests :
          /\ disk[m].latest[r] # Absent /\ disk[m].latest[r].v = Count(r)
          /\ r \in Quarters => disk[m].latest[r].entry = disk[m].entries[r][Count(r)]

(* _entries and _candidate_and_owner of the owner's workflow. *)
WorkflowValid(m, v) ==
    /\ v \in RevisionsIn(Runtime, m) /\ v \in RevisionsIn(Library, m)
    /\ EntryOf(m, v).rendered = Library.entries[m][v].rendered
    /\ EntryOf(m, v).decision = Library.entries[m][v].decision
    /\ disk[<<"owner", m, v>>].rendered = EntryOf(m, v).rendered

Valid(r) == Healthy /\ LineageValid(r)

-----------------------------------------------------------------------------
(* _atomic_transaction: plan, replace in order, write back after an error.    *)
BeginWriting(p, writes, saved, cause) ==
    /\ writer' = [writer EXCEPT ![p] = [todo |-> writes, saved |-> saved, undo |-> FALSE]]
    /\ spoilt' = spoilt \cup cause
                    \cup IF \E other \in Writers : AtWork(other) THEN {"overlap"} ELSE {}
    /\ Cardinality(spoilt') <= MaxSpoilt
    /\ disk' = disk

Write(f, value) == [file |-> f, new |-> value]
Plan(p, writes, cause) ==
    BeginWriting(p, writes, [i \in DOMAIN writes |-> Write(writes[i].file, disk[writes[i].file])], cause)
ReplaceManifests(runtime, library) ==
    <<Write(<<"runtime">>, runtime), Write(<<"library">>, library)>>

Turn(p) == writer' = [writer EXCEPT ![p] =
              IF Len(@.todo) = 1 THEN IdleWriter
              ELSE [todo |-> Tail(@.todo), saved |-> @.saved, undo |-> @.undo]]

(* The next file, whether it is new or an original that is written back.      *)
Replace(p) ==
    /\ AtWork(p) /\ Turn(p)
    /\ LET w == Head(writer[p].todo) IN disk' = [disk EXCEPT ![w.file] = w.new]
    /\ spoilt' = spoilt

(* Mutant: only the file that could not be replaced is written back.          *)
RollBackLast(p) ==
    /\ AtWork(p) /\ writer[p].saved # <<>>
    /\ writer' = [writer EXCEPT ![p] =
          [todo |-> SelectSeq(@.saved, LAMBDA w : w.file = Head(writer[p].todo).file),
           saved |-> <<>>, undo |-> TRUE]]
    /\ UNCHANGED <<disk, spoilt>>

(* An error while the temporary files are written or put in place.            *)
RollBack(p) ==
    /\ AtWork(p) /\ writer[p].saved # <<>>
    /\ writer' = [writer EXCEPT ![p] = [todo |-> @.saved, saved |-> <<>>, undo |-> TRUE]]
    /\ UNCHANGED <<disk, spoilt>>

(* An original is not put in place through a temporary file: what interrupts  *)
(* the writing may leave a part of it.                                        *)
LeaveHalfWritten(p) ==
    LET w == Head(writer[p].todo)
    IN  \/ disk' = disk
        \/ /\ writer[p].saved = <<>> /\ w.new # Absent
           /\ disk' = [disk EXCEPT ![w.file] = Torn]

(* The OSError of one original is passed over, and the others are tried.      *)
RestoreFails(p) ==
    /\ AtWork(p) /\ writer[p].undo /\ Turn(p)
    /\ LeaveHalfWritten(p)
    /\ spoilt' = spoilt \cup {"restore"} /\ Cardinality(spoilt') <= MaxSpoilt

(* It is killed; or, where it saved nothing, an error ends it.                *)
KillWriter(p) ==
    /\ AtWork(p)
    /\ writer' = [writer EXCEPT ![p] = IdleWriter]
    /\ LeaveHalfWritten(p)
    /\ spoilt' = spoilt \cup {"kill"} /\ Cardinality(spoilt') <= MaxSpoilt

-----------------------------------------------------------------------------
(* bootstrap_report_library when neither manifest is there; one that is lost  *)
(* alone is never made again.                                                 *)
Bootstrap(p) ==
    /\ Runtime = Absent /\ Library = Absent
    /\ Plan(p, <<Write(<<"runtime">>, EmptyManifest), Write(<<"library">>, EmptyManifest)>>, {})

Added(manifest, r, v, entry) ==
    [manifest EXCEPT !.entries[r][v] = entry, !.latest[r] = [v |-> v, entry |-> entry]]

PreviousContent(r) == IF Count(r) = 0 THEN Absent ELSE EntryOf(r, Count(r)).content

(* complete_quarterly_report.  A run that says it was completed needs the     *)
(* entry that it made; any other must be the next revision, and new.          *)
CompleteQuarter(p, q, v) ==
    /\ Valid(q)
    /\ disk[<<"run", q, v>>] \notin {"review", Torn} /\ v = Count(q) + 1
    /\ disk[<<"body", q, v>>] = Absent /\ disk[<<"owner", q, v>>] = Absent
    /\ LET Add(m) == Added(m, q, v, NewEntry(PreviousContent(q)))
       IN  Plan(p, <<Write(<<"body", q, v>>, 0), Write(<<"owner", q, v>>, 0)>>
                     \o ReplaceManifests(Add(Runtime), Add(Library))
                     \o <<Write(<<"run", q, v>>, "review")>>, {})

History(q, v) == IF disk[<<"history", q, v>>] = Absent THEN Original
                                                       ELSE disk[<<"history", q, v>>]

(* import_editorial_return: one pending return at a time; the history grows,  *)
(* also where the manifests list its hash.                                    *)
ImportReturn(p, q, v) ==
    /\ Valid(q) /\ v \in RevisionsIn(Runtime, q)
    /\ disk[<<"history", q, v>>] # Torn
    /\ ~ History(q, v).pending /\ History(q, v).returns < MaxReturns
    /\ LET grown == [History(q, v) EXCEPT !.returns = @ + 1, !.pending = TRUE]
       IN  Plan(p, <<Write(<<"history", q, v>>, grown)>>,
                IF EntryOf(q, v).history # Absent THEN {"return"} ELSE {})

(* apply_editorial_return: the same revision with another content, whether or *)
(* not a later revision rests on it.                                          *)
ApplyReturn(p, q, v) ==
    /\ Valid(q) /\ v \in RevisionsIn(Runtime, q)
    /\ disk[<<"history", q, v>>] # Torn /\ History(q, v).pending
    /\ LET n == History(q, v).returns
           applied == [returns |-> n, current |-> n, pending |-> FALSE]
           Update(m) ==
              LET e == [m.entries[q][v] EXCEPT !.content = n, !.history = applied]
              IN  IF m.latest[q].v = v THEN Added(m, q, v, e)
                                       ELSE [m EXCEPT !.entries[q][v] = e]
       IN  Plan(p, <<Write(<<"body", q, v>>, n), Write(<<"owner", q, v>>, n),
                     Write(<<"history", q, v>>, applied)>>
                     \o ReplaceManifests(Update(Runtime), Update(Library)),
                IF v < Count(q) THEN {"return"} ELSE {})

(* persist_major_event_report_candidate. *)
PersistMajor(p, m, v) ==
    /\ Valid(m) /\ v = Count(m) + 1
    /\ disk[<<"body", m, v>>] = Absent /\ disk[<<"owner", m, v>>] = Absent
    /\ LET Add(manifest) == Added(manifest, m, v, NewEntry(PreviousContent(m)))
       IN  Plan(p, <<Write(<<"body", m, v>>, 0),
                     Write(<<"owner", m, v>>, [rendered |-> FALSE, decision |-> "PENDING"])>>
                     \o ReplaceManifests(Add(Runtime), Add(Library)), {})

(* _replace_entry of the owner's workflow. *)
WithEntry(manifest, m, v, entry) ==
    IF manifest.latest[m].v = v THEN Added(manifest, m, v, entry)
                                ELSE [manifest EXCEPT !.entries[m][v] = entry]

(* render_major_event_revision. *)
Render(p, m, v) ==
    /\ Valid(m) /\ WorkflowValid(m, v)
    /\ ~ EntryOf(m, v).rendered /\ disk[<<"owner", m, v>>].decision = "PENDING"
    /\ disk[<<"render", m, v>>] = Absent
    /\ LET Update(manifest) ==
              WithEntry(manifest, m, v, [manifest.entries[m][v] EXCEPT !.rendered = TRUE])
       IN  Plan(p, <<Write(<<"render", m, v>>, TRUE),
                     Write(<<"owner", m, v>>, [rendered |-> TRUE, decision |-> "PENDING"])>>
                     \o ReplaceManifests(Update(Runtime), Update(Library)), {})

Decided(manifest, m, v, d) ==
    WithEntry(manifest, m, v, [manifest.entries[m][v] EXCEPT !.decision = d])

(* Mutant: a revision may be decided again.                                   *)
DecideAgain(p, m, v, d) ==
    /\ Valid(m) /\ WorkflowValid(m, v)
    /\ EntryOf(m, v).rendered /\ disk[<<"render", m, v>>] \notin {Absent, Torn}
    /\ LET Update(manifest) == Decided(manifest, m, v, d)
       IN  Plan(p, <<Write(<<"owner", m, v>>, [rendered |-> TRUE, decision |-> d])>>
                     \o ReplaceManifests(Update(Runtime), Update(Library)), {})

(* record_owner_decision. *)
Decide(p, m, v, d) ==
    /\ Valid(m) /\ WorkflowValid(m, v)
    /\ EntryOf(m, v).rendered /\ disk[<<"render", m, v>>] \notin {Absent, Torn}
    /\ disk[<<"owner", m, v>>].decision = "PENDING"
    /\ LET Update(manifest) == Decided(manifest, m, v, d)
       IN  Plan(p, <<Write(<<"owner", m, v>>, [rendered |-> TRUE, decision |-> d])>>
                     \o ReplaceManifests(Update(Runtime), Update(Library)), {})

(* _revision_context: the latest revision, rendered and approved. *)
Approved(m, v) ==
    /\ Valid(m) /\ WorkflowValid(m, v) /\ Library.latest[m].v = v
    /\ EntryOf(m, v).rendered /\ disk[<<"render", m, v>>] \notin {Absent, Torn}
    /\ EntryOf(m, v).decision = "APPROVE" /\ disk[<<"owner", m, v>>].decision = "APPROVE"

(* issue_publication_authorization: at most one receipt, never taken back. *)
Authorize(p, m, v) ==
    /\ Approved(m, v) /\ disk[<<"receipt", m, v>>] = Absent
    /\ Plan(p, <<Write(<<"receipt", m, v>>, TRUE)>>, {})

(* update_report_manifest of a periodic report validates and saves nothing,   *)
(* makes what is missing and keeps only the latest reports that have a period.*)
(* A report that the library does not take goes to the runtime's ledger only. *)
Upsert(p, eligible) ==
    LET Add(m) == IF m = Absent THEN [EmptyManifest EXCEPT !.monthly = TRUE]
                  ELSE [m EXCEPT !.monthly = TRUE, !.latest = EmptyManifest.latest]
    IN  /\ Runtime # Torn /\ Library # Torn
        /\ BeginWriting(p, IF eligible THEN ReplaceManifests(Add(Runtime), Add(Library))
                                       ELSE <<Write(<<"runtime">>, Add(Runtime))>>, <<>>,
             IF \/ (Runtime = Absent) # (Library = Absent)
                \/ Library = Absent /\ ~ eligible
                \/ Runtime # Absent /\ Runtime.latest # EmptyManifest.latest
             THEN {"upsert"} ELSE {})

PeriodicWork(p) == \E eligible \in BOOLEAN : Upsert(p, eligible)
QuarterlyWork(p) ==
    \E q \in Quarters, v \in Revisions :
        CompleteQuarter(p, q, v) \/ ImportReturn(p, q, v) \/ ApplyReturn(p, q, v)
MajorEventWork(p) ==
    \E m \in Majors, v \in Revisions :
        \/ PersistMajor(p, m, v) \/ Render(p, m, v) \/ Authorize(p, m, v)
        \/ \E d \in {"APPROVE", "REJECT"} : Decide(p, m, v, d)
GoOn(p) == Replace(p) \/ RollBack(p) \/ RestoreFails(p) \/ KillWriter(p)

LibraryNext ==
    \E p \in Writers :
        \/ ~ AtWork(p) /\ (Bootstrap(p) \/ PeriodicWork(p) \/ QuarterlyWork(p) \/ MajorEventWork(p))
        \/ GoOn(p)

LibrarySpec == LibraryInit /\ [][LibraryNext]_lvars

-----------------------------------------------------------------------------
Usable ==
    \/ Runtime = Absent /\ Library = Absent
    \/ /\ \A r \in Reports : Valid(r)
       /\ \A m \in Majors : \A v \in RevisionsIn(Runtime, m) : WorkflowValid(m, v)

Quiet == \A p \in Writers : ~ AtWork(p)

(* The library that the programs leave is one that they accept, whatever they *)
(* did and whichever transaction an error rolled back, unless programs        *)
(* overlapped or were killed, a file could not be written back (which the     *)
(* code passes over), a periodic report was broken off, dropped the governed  *)
(* latest reports or made one manifest alone, or an editorial return followed *)
(* another or came to a revision that another one rests on.                   *)
UsableUnlessSpoilt == spoilt = {} /\ Quiet => Usable

(* e1, e2, ... are the editorial returns of one revision: importing a return  *)
(* and applying it, one after the other, leaves a library in which the next   *)
(* can be imported and applied.                                               *)
ReturnsFollowReturns == spoilt \subseteq {"return"} /\ Quiet => Usable

(* A permission to publish stands beside the owner's approval of the same     *)
(* revision, also after kills and errors, as long as programs do not overlap. *)
NoReceiptAgainstTheOwner ==
    "overlap" \notin spoilt => \A m \in Majors, v \in Revisions :
        disk[<<"receipt", m, v>>] # Absent => disk[<<"owner", m, v>>].decision = "APPROVE"
=============================================================================
