--------------------------- MODULE DiscoveryScan ---------------------------
(* A governed search and what may follow from it.  The orchestrator mints one *)
(* opaque scan from the Owner's authorization, spends it on one search, joins *)
(* what was found to the evidence of its caller, and hands a triggered event  *)
(* over.  Scans live in memory, in two registries: the adapter's, of what has *)
(* been issued and consumed, and the orchestrator's own, of the scans it      *)
(* trusts, by the id that is a hash of their context.                         *)
(*                                                                            *)
(* The formal files are one version, the manifest the version it describes;   *)
(* a publisher replaces the files and then the manifest, or takes both back.  *)
EXTENDS Naturals, Sequences

CONSTANTS Orchestrators,
          Requests,     \* a run id with its references
          Supplies,     \* the sets of evidence that a caller may bring
          Leads,        \* the evidence that a search may lead to
          Outlets,      \* the sources that a news scan may have accepted
          OwnerTypes,   \* the event types the Owner approved
          MaxScans, MaxPublishes,
          Nothing

VARIABLES formal,    \* files, manifest, and the publisher's step
          contract,     \* the governance contract on disk
          scans,        \* the adapter's registry, in the order of minting
          trusted,      \* per orchestrator: the scans of its own registry
          orch,         \* per orchestrator: its step, manifest and scan
          spent,        \* history: how often each scan reached the provider
          handoff,      \* the last one
          takenBack     \* history: a publisher restored what it replaced

dvars == <<formal, contract, scans, trusted, orch, spent, handoff, takenBack>>

(* An orchestrator at a step, with the manifest version it was constructed on. *)
At(step, pinned, request, n) ==
    [pc |-> step, pinned |-> pinned, request |-> request, scan |-> n]

Init ==
    /\ formal = [files |-> 0, manifest |-> 0, before |-> 0, next |-> 1, pc |-> "idle"]
    /\ contract = "sound"
    /\ scans = <<>> /\ spent = <<>>
    /\ trusted = [o \in Orchestrators |-> {}]
    /\ orch = [o \in Orchestrators |-> At("idle", 0, Nothing, 0)]
    /\ handoff = Nothing
    /\ takenBack = FALSE

-----------------------------------------------------------------------------
(* A publisher of formal data: the files, the manifest, a look at the result. *)
PublishFiles ==
    /\ formal.pc = "idle" /\ formal.next =< MaxPublishes
    /\ formal' = [files |-> formal.next, manifest |-> formal.manifest,
                     before |-> formal.files, next |-> formal.next + 1,
                     pc |-> "files"]
    /\ UNCHANGED <<contract, scans, trusted, orch, spent, handoff, takenBack>>

PublishManifest ==
    /\ formal.pc = "files"
    /\ formal' = [formal EXCEPT !.manifest = formal.files, !.pc = "manifest"]
    /\ UNCHANGED <<contract, scans, trusted, orch, spent, handoff, takenBack>>

Published ==
    /\ formal.pc = "manifest"
    /\ formal' = [formal EXCEPT !.pc = "idle"]
    /\ UNCHANGED <<contract, scans, trusted, orch, spent, handoff, takenBack>>

TakeBack ==
    /\ formal.pc \in {"files", "manifest"}
    /\ formal' = [formal EXCEPT !.files = formal.before,
                        !.manifest = formal.before, !.pc = "idle"]
    /\ takenBack' = TRUE
    /\ UNCHANGED <<contract, scans, trusted, orch, spent, handoff>>

(* The governance contract is edited: its files no longer are those of its    *)
(* manifest, or they are, and say something else than the program expects.    *)
EditContract ==
    /\ contract' \in {"sound", "drifted", "other"} \ {contract}
    /\ UNCHANGED <<formal, scans, trusted, orch, spent, handoff, takenBack>>

-----------------------------------------------------------------------------
(* A program starts, the first one or after another was killed or ended: the  *)
(* manifest is read once, the registry is empty.                              *)
Construct(o) ==
    /\ orch' = [orch EXCEPT ![o] = At("idle", formal.manifest, Nothing, 0)]
    /\ trusted' = [trusted EXCEPT ![o] = {}]
    /\ handoff' = Nothing
    /\ UNCHANGED <<formal, contract, scans, spent, takenBack>>

(* verify_all: the files now, against the manifest as it was read.            *)
Verified(o) == formal.files = orch[o].pinned

ArtifactsVerified == contract # "drifted"
DocumentsExpected == contract # "other"
Authorized == ArtifactsVerified /\ DocumentsExpected

(* authorize_discovery_scan up to the hash of the manifest.                   *)
VerifyAuthority(o, r) ==
    /\ orch[o].pc = "idle" /\ Len(scans) < MaxScans
    /\ Authorized
    /\ Verified(o)
    /\ orch' = [orch EXCEPT ![o] = At("verified", @.pinned, r, 0)]
    /\ UNCHANGED <<formal, contract, scans, trusted, spent, handoff, takenBack>>

(* The scan id: a hash of the request and of the manifest as it is now.       *)
ScanOf(o) == [request |-> orch[o].request, manifest |-> formal.manifest,
              by |-> o, state |-> "ISSUED"]

SameId(s, t) == s.request = t.request /\ s.manifest = t.manifest

(* A scan of the same id takes the place of the one before it. *)
Mint(o) ==
    /\ orch[o].pc = "verified"
    /\ scans' = Append(scans, ScanOf(o))
    /\ spent' = Append(spent, 0)
    /\ trusted' = [trusted EXCEPT ![o] =
                     {n \in @ : ~ SameId(scans[n], ScanOf(o))} \cup {Len(scans) + 1}]
    /\ orch' = [orch EXCEPT ![o] = At("idle", @.pinned, Nothing, 0)]
    /\ UNCHANGED <<formal, contract, handoff, takenBack>>

-----------------------------------------------------------------------------
Eligible(n) == scans[n].state = "ISSUED"

(* consume_once of the orchestrator that minted the scan: whatever scan it    *)
(* trusts under this id loses its place.                                      *)
Trusting(n) == {m \in trusted[scans[n].by] : SameId(scans[m], scans[n])}

(* Mutant: a scan is consumed when its search has come to an end.             *)
ConsumeAfterwards(n) ==
    /\ Eligible(n)
    /\ Trusting(n) # {}
    /\ UNCHANGED <<trusted, scans>>

Consume(n) ==
    /\ Eligible(n)
    /\ Trusting(n) # {}
    /\ trusted' = [trusted EXCEPT ![scans[n].by] = @ \ Trusting(n)]
    /\ scans' = [scans EXCEPT ![n].state = "CONSUMED"]

Spend(n) ==
    /\ Consume(n)
    /\ spent' = [spent EXCEPT ![n] = @ + 1]

(* run up to the answer: the scan must be the very one the orchestrator       *)
(* trusts.  A query or a credential that is refused changes nothing; a        *)
(* provider that fails ends the run with the scan consumed.                   *)
Search(o, n) ==
    /\ orch[o].pc = "idle"
    /\ n \in trusted[o]
    /\ Spend(n)
    /\ \/ orch' = [orch EXCEPT ![o] = At("answered", @.pinned, Nothing, n)]
       \/ orch' = orch
    /\ handoff' = Nothing
    /\ UNCHANGED <<formal, contract, takenBack>>

-----------------------------------------------------------------------------
(* What the qualification makes of an answer: a lead, whatever it claims. *)
Qualified(found) == {[item EXCEPT !.class = "DISCOVERY", !.confirmed = FALSE] : item \in found}

(* Mutant: the formal files are not verified again after the search.          *)
StagedUnverified(o, item, found, news) ==
    /\ item.class = "AUTHORITY" => item.hash = orch[o].pinned
    /\ item.class = "DISCOVERY" => /\ item.source \in {lead.source : lead \in found}
                                   /\ ~ item.confirmed
    /\ item.class = "SECONDARY" => item.source \in news

(* Each item comes from where its class says: the formal files as they were   *)
(* just verified, the search, or an accepted news event.                      *)
Staged(o, item, found, news) ==
    /\ Verified(o)
    /\ item.class = "AUTHORITY" => item.hash = orch[o].pinned
    /\ item.class = "DISCOVERY" => /\ item.source \in {lead.source : lead \in found}
                                   /\ ~ item.confirmed
    /\ item.class = "SECONDARY" => item.source \in news

SameKey(a, b) == a.event = b.event /\ a.source = b.source /\ a.hash = b.hash

(* The first of each key is kept, in an order that is the caller's. *)
Deduplicated(items) ==
    {kept \in SUBSET items :
        /\ \A a \in items : \E b \in kept : SameKey(a, b)
        /\ \A a, b \in kept : SameKey(a, b) => a = b}

Of(class, items) == {item \in items : item.class = class}

Conflict(items) ==
    /\ Of("AUTHORITY", items) # {}
    /\ \E item \in items \ Of("AUTHORITY", items) :
          \A fact \in Of("AUTHORITY", items) : item.claim # fact.claim

(* Mutant: two media of one editorial chain are enough.                       *)
TwoMediaOfOneChain(items) ==
    LET media == {item \in Of("SECONDARY", items) : item.media}
    IN  \E a, b \in media : a.source # b.source

(* Two sources and two editorial chains, counted apart from each other.       *)
TwoMedia(items) ==
    LET media == {item \in Of("SECONDARY", items) : item.media}
    IN  /\ \E a, b \in media : a.source # b.source
        /\ \E a, b \in media : a.chain # b.chain

CrossValidated(items) ==
    /\ ~ Conflict(items)
    /\ Of("AUTHORITY", items) # {} \/ TwoMedia(items)

Confirmed(item) == item.class # "DISCOVERY" /\ item.confirmed

(* evaluate_report_trigger, as far as TRIGGERED_INTERNAL_REPORT. *)
Triggered(items) ==
    /\ items # {}
    /\ \E type \in OwnerTypes : \A item \in items : item.type = type
    /\ \A item \in items : Confirmed(item)
    /\ CrossValidated(items)

(* run from the answer on: what is not staged ends it, what does not trigger  *)
(* leaves no handoff.                                                         *)
Conclude(o) ==
    /\ orch[o].pc = "answered"
    /\ \E supplied \in Supplies, found \in SUBSET Leads, news \in SUBSET Outlets :
         \E kept \in Deduplicated(supplied \cup Qualified(found)) :
            handoff' =
              IF /\ \A item \in supplied \cup Qualified(found) : Staged(o, item, found, news)
                 /\ Triggered(kept)
              THEN [manifest |-> scans[orch[o].scan].manifest, evidence |-> kept]
              ELSE Nothing
    /\ orch' = [orch EXCEPT ![o] = At("idle", @.pinned, Nothing, 0)]
    /\ UNCHANGED <<formal, contract, scans, trusted, spent, takenBack>>

Next ==
    \/ PublishFiles \/ PublishManifest \/ Published \/ TakeBack
    \/ EditContract
    \/ \E o \in Orchestrators :
          \/ Construct(o) \/ Mint(o) \/ Conclude(o)
          \/ \E r \in Requests : VerifyAuthority(o, r)
          \/ \E n \in DOMAIN scans : Search(o, n)

Spec == Init /\ [][Next]_dvars

-----------------------------------------------------------------------------
(* One scan is one call: whatever came of the call, the scan has been         *)
(* consumed by then, and no orchestrator trusts a scan that has been used,    *)
(* or two of one id, however often the same request was authorized.           *)
OneCallPerScan ==
    /\ \A n \in DOMAIN scans : spent[n] =< 1 /\ (spent[n] = 1 => ~ Eligible(n))
    /\ \A o \in Orchestrators :
          \A n \in trusted[o] : /\ Eligible(n)
                                /\ \A m \in trusted[o] : SameId(scans[m], scans[n]) => m = n

(* A handoff rests on the formal authority, which then no medium in it        *)
(* contradicts, or on two media that differ in source and in editorial chain, *)
(* though sources and chains are counted apart; never on what a search has    *)
(* found.  What the two media claim, and of which event, is not compared with *)
(* each other: evaluate_cross_validation accepts two that report different    *)
(* things, while the contract of the governance speaks of a claim that two    *)
(* sources corroborate.                                                       *)
HasGrounds(items) ==
    LET facts == Of("AUTHORITY", items)
        media == Of("SECONDARY", items)
    IN  /\ Of("DISCOVERY", items) = {}
        /\ facts # {} => \A a \in media : \E fact \in facts : a.claim = fact.claim
        /\ facts # {} \/ \E a, b \in media :
             a.media /\ b.media /\ a.source # b.source /\ a.chain # b.chain
HandoffHasGrounds == handoff # Nothing => HasGrounds(handoff.evidence)

(* The authority evidence of a handoff is of the manifest the handoff names,  *)
(* though the manifest is hashed after the files were verified and the        *)
(* evidence is checked against a manifest read before both; publishes that    *)
(* were taken back are the exception.                                         *)
HandoffNamesItsAuthority ==
    handoff # Nothing /\ ~ takenBack =>
        \A item \in Of("AUTHORITY", handoff.evidence) : item.hash = handoff.manifest

(* What is handed over has its grounds, and is of the authority it names.     *)
HandoffIsGrounded == HandoffHasGrounds /\ HandoffNamesItsAuthority
=============================================================================
