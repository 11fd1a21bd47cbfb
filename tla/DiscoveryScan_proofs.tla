------------------------ MODULE DiscoveryScan_proofs ------------------------
(* A scan is one call, and a handoff is of the manifest it names and rests on *)
(* the formal authority or on two media of different source and chain: for    *)
(* any orchestrators, requests, evidence and publishes.                       *)
EXTENDS DiscoveryScan, TLAPS

Scan == [request : Requests \cup {Nothing}, manifest : Nat,
         by : Orchestrators, state : {"ISSUED", "CONSUMED"}]

Authority == [files : Nat, manifest : Nat, before : Nat, next : Nat,
              pc : {"idle", "files", "manifest"}]

Orchestrating(minted) == [pc : {"idle", "verified", "answered"}, pinned : Nat,
                          request : Requests \cup {Nothing}, scan : 0..minted]

DiscoveryTypeOK ==
    /\ formal \in Authority
    /\ scans \in Seq(Scan) /\ spent \in Seq(Nat) /\ Len(spent) = Len(scans)
    /\ trusted \in [Orchestrators -> SUBSET (1..Len(scans))]
    /\ orch \in [Orchestrators -> Orchestrating(Len(scans))]
    /\ \A o \in Orchestrators : orch[o].pc = "answered" => orch[o].scan \in 1..Len(scans)
    /\ takenBack \in BOOLEAN

(* Versions only grow as long as nothing is taken back: what an orchestrator  *)
(* read, what a scan names and what the manifest and the files are come in    *)
(* this order.                                                                *)
InOrder(o, n) ==
    orch[o].pinned =< scans[n].manifest /\ scans[n].manifest =< formal.files

(* The scans that an orchestrator may still search, or has the answer of. *)
Held(o) == trusted[o] \cup IF orch[o].pc = "answered" THEN {orch[o].scan} ELSE {}

VersionsInOrder ==
    ~ takenBack =>
        /\ formal.manifest =< formal.files /\ formal.files < formal.next
        /\ \A o \in Orchestrators :
              /\ orch[o].pinned =< formal.manifest
              /\ \A n \in Held(o) : InOrder(o, n)

-----------------------------------------------------------------------------
(* Two sources and two chains, counted apart, always hold two media that      *)
(* differ in both: what evaluate_cross_validation relies on.                  *)
LEMMA TwoMediaAreIndependent ==
    ASSUME NEW items, TwoMedia(items)
    PROVE  \E a, b \in Of("SECONDARY", items) :
              a.media /\ b.media /\ a.source # b.source /\ a.chain # b.chain
<1> DEFINE media == {item \in Of("SECONDARY", items) : item.media}
<1>1. PICK a \in media, b \in media : a.source # b.source
  BY DEF TwoMedia
<1>2. PICK c \in media, d \in media : c.chain # d.chain
  BY DEF TwoMedia
<1>3. CASE a.chain # b.chain
  BY <1>1, <1>3
<1>4. CASE a.chain = b.chain
  <2>1. PICK e \in media : e.chain # a.chain
    BY <1>2
  <2>2. CASE e.source # a.source
    BY <2>1, <2>2
  <2>3. CASE e.source = a.source
    BY <1>1, <1>4, <2>1, <2>3
  <2> QED
    BY <2>2, <2>3
<1> QED
  BY <1>3, <1>4

(* What triggers a report has its grounds. *)
LEMMA TriggeredHasGrounds ==
    ASSUME NEW items, Triggered(items)
    PROVE  HasGrounds(items)
<1>1. Of("DISCOVERY", items) = {}
  BY DEF Triggered, Confirmed, Of
<1>2. Of("AUTHORITY", items) # {} \/ TwoMedia(items)
  BY DEF Triggered, CrossValidated
<1>3. ASSUME Of("AUTHORITY", items) # {}, NEW a \in Of("SECONDARY", items)
      PROVE  \E fact \in Of("AUTHORITY", items) : a.claim = fact.claim
  <2>1. a \in items \ Of("AUTHORITY", items)
    BY DEF Of
  <2>2. ~ Conflict(items)
    BY DEF Triggered, CrossValidated
  <2> QED
    BY <1>3, <2>1, <2>2 DEF Conflict
<1> QED
  BY <1>1, <1>2, <1>3, TwoMediaAreIndependent DEF HasGrounds

(* A handoff is what a conclusion made of triggering evidence. *)
LEMMA HandoffStep ==
    ASSUME NEW o \in Orchestrators, Conclude(o), handoff' # Nothing
    PROVE  \E kept : /\ handoff' = [manifest |-> scans[orch[o].scan].manifest,
                                    evidence |-> kept]
                     /\ Triggered(kept)
                     /\ \A item \in kept : \E found, news : Staged(o, item, found, news)
                     /\ kept # {} /\ Verified(o)
<1>1. PICK supplied \in Supplies, found \in SUBSET Leads, news \in SUBSET Outlets :
        \E kept \in Deduplicated(supplied \cup Qualified(found)) :
            handoff' =
              IF /\ \A item \in supplied \cup Qualified(found) : Staged(o, item, found, news)
                 /\ Triggered(kept)
              THEN [manifest |-> scans[orch[o].scan].manifest, evidence |-> kept]
              ELSE Nothing
  BY DEF Conclude
<1> DEFINE all == supplied \cup Qualified(found)
<1>2. PICK kept \in Deduplicated(all) :
            handoff' =
              IF /\ \A item \in all : Staged(o, item, found, news)
                 /\ Triggered(kept)
              THEN [manifest |-> scans[orch[o].scan].manifest, evidence |-> kept]
              ELSE Nothing
  BY <1>1
<1> HIDE DEF all
<1>3. /\ \A item \in all : Staged(o, item, found, news)
      /\ Triggered(kept)
      /\ handoff' = [manifest |-> scans[orch[o].scan].manifest, evidence |-> kept]
  BY <1>2
<1>4. kept \subseteq all
  BY DEF Deduplicated
<1>5. kept # {}
  BY <1>3 DEF Triggered
<1>6. PICK item \in kept : TRUE
  BY <1>5
<1>7. Verified(o)
  BY <1>3, <1>4, <1>6 DEF Staged
<1> QED
  BY <1>3, <1>4, <1>5, <1>7

-----------------------------------------------------------------------------
(* Every variable keeps its type, and an answer is one of a scan there is.    *)
THEOREM DiscoveryTypes == Spec => []DiscoveryTypeOK
<1>1. Init => DiscoveryTypeOK
  <2> SUFFICES ASSUME Init PROVE DiscoveryTypeOK
    OBVIOUS
  <2>1. formal \in Authority /\ takenBack \in BOOLEAN
    BY DEF Init, Authority
  <2>2. scans \in Seq(Scan) /\ spent \in Seq(Nat) /\ Len(spent) = Len(scans) /\ Len(scans) = 0
    BY DEF Init
  <2>3. At("idle", 0, Nothing, 0) \in Orchestrating(Len(scans))
    BY <2>2 DEF At, Orchestrating
  <2> QED
    BY <2>1, <2>2, <2>3 DEF Init, DiscoveryTypeOK, At
<1>2. DiscoveryTypeOK /\ [Next]_dvars => DiscoveryTypeOK'
  <2> SUFFICES ASSUME DiscoveryTypeOK, [Next]_dvars PROVE DiscoveryTypeOK'
    OBVIOUS
  <2> USE DEF DiscoveryTypeOK
  <2>1. CASE PublishFiles
    <3>1. formal' \in Authority
      BY <2>1 DEF PublishFiles, Authority
    <3> QED
      BY <2>1, <3>1 DEF PublishFiles
  <2>2. CASE PublishManifest
    BY <2>2 DEF PublishManifest, Authority
  <2>3. CASE Published
    BY <2>3 DEF Published, Authority
  <2>4. CASE TakeBack
    BY <2>4 DEF TakeBack, Authority
  <2>5. CASE EditContract
    BY <2>5 DEF EditContract
  <2>6. ASSUME NEW o \in Orchestrators, Construct(o) PROVE DiscoveryTypeOK'
    <3>1. At("idle", formal.manifest, Nothing, 0) \in Orchestrating(Len(scans))
      BY DEF At, Orchestrating, Authority
    <3>2. trusted' \in [Orchestrators -> SUBSET (1..Len(scans'))]
      BY <2>6 DEF Construct
    <3>3. orch' = [orch EXCEPT ![o] = At("idle", formal.manifest, Nothing, 0)]
      BY <2>6 DEF Construct
    <3>4. orch'[o].pc = "idle" /\ \A p \in Orchestrators \ {o} : orch'[p] = orch[p]
      BY <3>3 DEF At
    <3> QED
      BY <2>6, <3>1, <3>2, <3>3, <3>4 DEF Construct
  <2>7. ASSUME NEW o \in Orchestrators, Mint(o) PROVE DiscoveryTypeOK'
    <3>1. ScanOf(o) \in Scan
      BY DEF ScanOf, Scan, Orchestrating, Authority
    <3>2. /\ scans' \in Seq(Scan) /\ Len(scans') = Len(scans) + 1
          /\ spent' \in Seq(Nat) /\ Len(spent') = Len(spent) + 1
      BY <2>7, <3>1 DEF Mint
    <3>3. trusted' \in [Orchestrators -> SUBSET (1..Len(scans'))]
      BY <2>7, <3>2 DEF Mint
    <3>4. /\ orch' \in [Orchestrators -> Orchestrating(Len(scans'))]
          /\ \A p \in Orchestrators : orch'[p].pc = "answered" => orch'[p].scan \in 1..Len(scans')
      <4>1. \A state \in Orchestrating(Len(scans)) : state \in Orchestrating(Len(scans'))
        BY <3>2 DEF Orchestrating, At
      <4>2. At("idle", orch[o].pinned, Nothing, 0) \in Orchestrating(Len(scans))
        BY DEF Orchestrating, At
      <4>3. orch' = [orch EXCEPT ![o] = At("idle", orch[o].pinned, Nothing, 0)]
        BY <2>7 DEF Mint
      <4>4. orch'[o].pc = "idle" /\ \A p \in Orchestrators \ {o} : orch'[p] = orch[p]
        BY <4>3 DEF Orchestrating, At
      <4>5. 1..Len(scans) \subseteq 1..Len(scans')
        BY <3>2
      <4> QED
        BY <3>2, <4>1, <4>2, <4>3, <4>4, <4>5
    <3> QED
      BY <2>7, <3>2, <3>3, <3>4 DEF Mint
  <2>8. ASSUME NEW o \in Orchestrators, Conclude(o) PROVE DiscoveryTypeOK'
    <3>1. At("idle", orch[o].pinned, Nothing, 0) \in Orchestrating(Len(scans))
      BY DEF Orchestrating, At
    <3>2. orch' = [orch EXCEPT ![o] = At("idle", orch[o].pinned, Nothing, 0)]
      BY <2>8 DEF Conclude
    <3>3. orch'[o].pc = "idle" /\ \A p \in Orchestrators \ {o} : orch'[p] = orch[p]
      BY <3>2 DEF Orchestrating, At
    <3> QED
      BY <2>8, <3>1, <3>2, <3>3 DEF Conclude
  <2>9. ASSUME NEW o \in Orchestrators, NEW r \in Requests, VerifyAuthority(o, r)
        PROVE DiscoveryTypeOK'
    BY <2>9 DEF VerifyAuthority, Orchestrating, At
  <2>10. ASSUME NEW o \in Orchestrators, NEW n \in DOMAIN scans, Search(o, n)
         PROVE DiscoveryTypeOK'
    <3>1. n \in 1..Len(scans) /\ n \in DOMAIN spent
      OBVIOUS
    <3>2. scans' \in Seq(Scan) /\ Len(scans') = Len(scans)
      <4>1. [scans[n] EXCEPT !.state = "CONSUMED"] \in Scan
        <5>1. \A s \in Scan : [s EXCEPT !.state = "CONSUMED"] \in Scan
          BY DEF Scan
        <5> QED
          BY <3>1, <5>1
      <4> QED
        BY <2>10, <3>1, <4>1 DEF Search, Spend, Consume
    <3>3. spent' \in Seq(Nat) /\ Len(spent') = Len(spent)
      BY <2>10, <3>1 DEF Search, Spend
    <3>4. trusted' \in [Orchestrators -> SUBSET (1..Len(scans'))]
      BY <2>10, <3>2 DEF Search, Spend, Consume
    <3>5. /\ orch' \in [Orchestrators -> Orchestrating(Len(scans'))]
          /\ \A p \in Orchestrators : orch'[p].pc = "answered" => orch'[p].scan \in 1..Len(scans')
      <4>1. At("answered", orch[o].pinned, Nothing, n) \in Orchestrating(Len(scans))
        BY <3>1 DEF Orchestrating, At
      <4>2. \/ orch' = [orch EXCEPT ![o] = At("answered", orch[o].pinned, Nothing, n)]
            \/ orch' = orch
        BY <2>10 DEF Search
      <4>3. /\ \/ orch'[o].pc = "answered" /\ orch'[o].scan = n
               \/ orch'[o] = orch[o]
            /\ \A p \in Orchestrators \ {o} : orch'[p] = orch[p]
        BY <4>2 DEF Orchestrating, At
      <4> QED
        BY <3>2, <4>1, <4>2, <4>3
    <3> QED
      BY <2>10, <3>2, <3>3, <3>4, <3>5 DEF Search
  <2>11. CASE UNCHANGED dvars
    BY <2>11 DEF dvars
  <2> QED
    BY <2>1, <2>2, <2>3, <2>4, <2>5, <2>6, <2>7, <2>8, <2>9, <2>10, <2>11 DEF Next
<1> QED
  BY <1>1, <1>2, PTL DEF Spec

(* No step leaves a handoff without grounds, since only a conclusion makes    *)
(* one.                                                                       *)
LEMMA HandoffsHaveGrounds == Spec => []HandoffHasGrounds
<1>1. Init => HandoffHasGrounds
  BY DEF Init, HandoffHasGrounds
<1>2. HandoffHasGrounds /\ [Next]_dvars => HandoffHasGrounds'
  <2> SUFFICES ASSUME HandoffHasGrounds, [Next]_dvars, handoff' # Nothing
               PROVE  HandoffHasGrounds'
    BY DEF HandoffHasGrounds
  <2>1. ASSUME NEW o \in Orchestrators, Conclude(o) PROVE HandoffHasGrounds'
    <3>1. PICK kept : Triggered(kept) /\ handoff'.evidence = kept
      BY <2>1, HandoffStep
    <3> QED
      BY <3>1, TriggeredHasGrounds DEF HandoffHasGrounds
  <2>2. CASE UNCHANGED handoff
    BY <2>2 DEF HandoffHasGrounds, HasGrounds, Of
  <2>3. \/ UNCHANGED handoff \/ handoff' = Nothing
        \/ \E o \in Orchestrators : Conclude(o)
    BY DEF Next, dvars, PublishFiles, PublishManifest, Published, TakeBack, EditContract,
           Construct, Mint, VerifyAuthority, Search
  <2> QED
    BY <2>1, <2>2, <2>3
<1> QED
  BY <1>1, <1>2, PTL DEF Spec

-----------------------------------------------------------------------------
(* A step of a publisher that takes nothing back: the orchestrators stay, and *)
(* neither the manifest nor the files grow older.                             *)
LEMMA PublisherKeepsOrder ==
    ASSUME DiscoveryTypeOK, VersionsInOrder, ~ takenBack,
           UNCHANGED <<scans, trusted, orch>>,
           NEW m \in Nat, m = formal'.manifest, formal.manifest =< m,
           NEW f \in Nat, f = formal'.files, formal.files =< f,
           m =< f, f < formal'.next
    PROVE  VersionsInOrder'
<1>1. formal.manifest \in Nat /\ formal.files \in Nat
  BY DEF DiscoveryTypeOK, Authority
<1>2. ASSUME NEW o \in Orchestrators
      PROVE  orch[o].pinned =< m /\ Held(o)' = Held(o)
  <2>1. orch[o].pinned \in Nat
    BY DEF DiscoveryTypeOK, Orchestrating
  <2>2. orch[o].pinned =< formal.manifest
    BY DEF VersionsInOrder
  <2>3. orch[o].pinned =< m
    BY <1>1, <2>1, <2>2
  <2> QED
    BY <2>3 DEF Held
<1>3. ASSUME NEW o \in Orchestrators, NEW n \in Held(o)
      PROVE  orch[o].pinned =< scans[n].manifest /\ scans[n].manifest =< f
  <2>1. n \in 1..Len(scans) /\ scans[n] \in Scan
    BY DEF Held, DiscoveryTypeOK
  <2>2. scans[n].manifest \in Nat
    BY <2>1 DEF Scan
  <2>3. orch[o].pinned =< scans[n].manifest /\ scans[n].manifest =< formal.files
    BY DEF VersionsInOrder, InOrder
  <2> QED
    BY <1>1, <2>2, <2>3
<1> QED
  BY <1>2, <1>3 DEF VersionsInOrder, InOrder

(* A step of an orchestrator: the formal files stay, the scans there are keep *)
(* their version, and what the orchestrator knows afterwards is in order.     *)
LEMMA OrchestratorKeepsOrder ==
    ASSUME DiscoveryTypeOK, VersionsInOrder, ~ takenBack, UNCHANGED formal,
           NEW o \in Orchestrators,
           \A p \in Orchestrators \ {o} : orch'[p] = orch[p] /\ trusted'[p] = trusted[p],
           \A n \in 1..Len(scans) : scans'[n].manifest = scans[n].manifest,
           orch'[o].pinned =< formal.manifest,
           \A n \in Held(o)' : InOrder(o, n)'
    PROVE  VersionsInOrder'
<1>1. ASSUME NEW p \in Orchestrators \ {o}, NEW n \in Held(p)'
      PROVE  InOrder(p, n)'
  <2>1. orch'[p] = orch[p] /\ trusted'[p] = trusted[p]
    OBVIOUS
  <2>2. n \in Held(p)
    BY <1>1, <2>1 DEF Held
  <2>3. n \in 1..Len(scans)
    BY <2>2 DEF Held, DiscoveryTypeOK
  <2>4. InOrder(p, n)
    BY <2>2 DEF VersionsInOrder
  <2> QED
    BY <2>1, <2>3, <2>4 DEF InOrder
<1>2. \A p \in Orchestrators \ {o} : orch'[p].pinned =< formal.manifest
  BY DEF VersionsInOrder
<1>3. ASSUME NEW p \in Orchestrators
      PROVE  orch'[p].pinned =< formal'.manifest /\ \A n \in Held(p)' : InOrder(p, n)'
  BY <1>1, <1>2
<1> QED
  BY <1>3 DEF VersionsInOrder

(* As long as nothing is taken back, versions are in order. *)
LEMMA OrderIsKept == Spec => []VersionsInOrder
<1>1. Init => VersionsInOrder
  BY DEF Init, VersionsInOrder, Held, At
<1>2. DiscoveryTypeOK /\ VersionsInOrder /\ [Next]_dvars => VersionsInOrder'
  <2> SUFFICES ASSUME DiscoveryTypeOK, VersionsInOrder, [Next]_dvars, ~ takenBack'
               PROVE  VersionsInOrder'
    BY DEF VersionsInOrder
  <2>0. /\ formal.files \in Nat /\ formal.manifest \in Nat /\ formal.next \in Nat
        /\ formal \in Authority
    BY DEF DiscoveryTypeOK, Authority
  <2>1. ~ takenBack
    BY DEF Next, dvars, PublishFiles, PublishManifest, Published, TakeBack, EditContract,
           Construct, Mint, VerifyAuthority, Search, Conclude
  <2>2. formal.manifest =< formal.files /\ formal.files < formal.next
    BY <2>1 DEF VersionsInOrder
  <2>3. CASE PublishFiles
    <3>1. /\ formal'.files = formal.next /\ formal'.manifest = formal.manifest
          /\ formal'.next = formal.next + 1
          /\ UNCHANGED <<scans, trusted, orch>>
      BY <2>3 DEF PublishFiles
    <3> QED
      BY <2>0, <2>1, <2>2, <3>1, PublisherKeepsOrder
  <2>4. CASE PublishManifest
    <3>1. /\ formal'.files = formal.files /\ formal'.manifest = formal.files
          /\ formal'.next = formal.next
          /\ UNCHANGED <<scans, trusted, orch>>
      BY <2>0, <2>4 DEF PublishManifest, Authority
    <3> QED
      BY <2>0, <2>1, <2>2, <3>1, PublisherKeepsOrder
  <2>5. CASE Published
    <3>1. /\ formal'.files = formal.files /\ formal'.manifest = formal.manifest
          /\ formal'.next = formal.next
          /\ UNCHANGED <<scans, trusted, orch>>
      BY <2>0, <2>5 DEF Published, Authority
    <3> QED
      BY <2>0, <2>1, <2>2, <3>1, PublisherKeepsOrder
  <2>6. CASE TakeBack
    BY <2>6 DEF TakeBack
  <2>7. CASE EditContract \/ UNCHANGED dvars
    BY <2>7 DEF EditContract, dvars, VersionsInOrder, Held, InOrder
  <2>8. ASSUME NEW o \in Orchestrators, Construct(o) PROVE VersionsInOrder'
    <3>1. orch' = [orch EXCEPT ![o] = At("idle", formal.manifest, Nothing, 0)]
      BY <2>8 DEF Construct
    <3>2. /\ orch'[o].pinned = formal.manifest /\ orch'[o].pc = "idle"
          /\ \A p \in Orchestrators \ {o} : orch'[p] = orch[p]
      BY <3>1 DEF At, DiscoveryTypeOK
    <3>3. trusted'[o] = {} /\ \A p \in Orchestrators \ {o} : trusted'[p] = trusted[p]
      BY <2>8 DEF Construct, DiscoveryTypeOK
    <3>4. UNCHANGED <<formal, scans>>
      BY <2>8 DEF Construct
    <3>5. Held(o)' = {}
      BY <3>2, <3>3 DEF Held
    <3>6. orch'[o].pinned =< formal.manifest
      BY <2>0, <3>2
    <3> QED
      BY <2>1, <3>2, <3>3, <3>4, <3>5, <3>6, OrchestratorKeepsOrder
  <2>9. ASSUME NEW o \in Orchestrators, NEW r \in Requests, VerifyAuthority(o, r)
        PROVE  VersionsInOrder'
    <3>1. /\ orch'[o].pinned = orch[o].pinned /\ orch'[o].pc = "verified"
          /\ \A p \in Orchestrators \ {o} : orch'[p] = orch[p]
          /\ UNCHANGED <<formal, scans, trusted>>
      BY <2>9 DEF VerifyAuthority, At, DiscoveryTypeOK
    <3>2. Held(o)' \subseteq Held(o)
      BY <3>1 DEF Held
    <3>3. orch'[o].pinned =< formal.manifest /\ \A n \in Held(o)' : InOrder(o, n)'
      BY <2>1, <3>1, <3>2 DEF VersionsInOrder, InOrder
    <3> QED
      BY <2>1, <3>1, <3>3, OrchestratorKeepsOrder
  <2>10. ASSUME NEW o \in Orchestrators, Conclude(o) PROVE VersionsInOrder'
    <3>1. /\ orch'[o].pinned = orch[o].pinned /\ orch'[o].pc = "idle"
          /\ \A p \in Orchestrators \ {o} : orch'[p] = orch[p]
          /\ UNCHANGED <<formal, scans, trusted>>
      BY <2>10 DEF Conclude, At, DiscoveryTypeOK
    <3>2. Held(o)' \subseteq Held(o)
      BY <3>1 DEF Held
    <3>3. orch'[o].pinned =< formal.manifest /\ \A n \in Held(o)' : InOrder(o, n)'
      BY <2>1, <3>1, <3>2 DEF VersionsInOrder, InOrder
    <3> QED
      BY <2>1, <3>1, <3>3, OrchestratorKeepsOrder
  <2>11. ASSUME NEW o \in Orchestrators, Mint(o) PROVE VersionsInOrder'
    <3>1. /\ orch'[o].pinned = orch[o].pinned /\ orch'[o].pc = "idle"
          /\ \A p \in Orchestrators \ {o} : orch'[p] = orch[p]
          /\ UNCHANGED formal
      BY <2>11 DEF Mint, At, DiscoveryTypeOK
    <3>2. /\ trusted'[o] \subseteq trusted[o] \cup {Len(scans) + 1}
          /\ \A p \in Orchestrators \ {o} : trusted'[p] = trusted[p]
      BY <2>11 DEF Mint, DiscoveryTypeOK
    <3>3. /\ \A n \in 1..Len(scans) : scans'[n] = scans[n]
          /\ scans'[Len(scans) + 1] = ScanOf(o)
      BY <2>11 DEF Mint, DiscoveryTypeOK
    <3>4. ASSUME NEW n \in Held(o)' PROVE InOrder(o, n)'
      <4>1. n \in trusted[o] \/ n = Len(scans) + 1
        BY <3>1, <3>2 DEF Held
      <4>2. CASE n \in trusted[o]
        <5>1. InOrder(o, n) /\ n \in 1..Len(scans)
          BY <2>1, <4>2 DEF VersionsInOrder, Held, DiscoveryTypeOK
        <5> QED
          BY <3>1, <3>3, <5>1 DEF InOrder
      <4>3. CASE n = Len(scans) + 1
        <5>1. scans'[n].manifest = formal.manifest
          BY <3>3, <4>3 DEF ScanOf
        <5>2. orch'[o].pinned =< formal.manifest
          BY <2>1, <3>1 DEF VersionsInOrder
        <5> QED
          BY <2>2, <3>1, <5>1, <5>2 DEF InOrder
      <4> QED
        BY <4>1, <4>2, <4>3
    <3>5. orch'[o].pinned =< formal.manifest
      BY <2>1, <3>1 DEF VersionsInOrder
    <3> QED
      BY <2>1, <3>1, <3>2, <3>3, <3>4, <3>5, OrchestratorKeepsOrder
  <2>12. ASSUME NEW o \in Orchestrators, NEW n \in DOMAIN scans, Search(o, n)
         PROVE  VersionsInOrder'
    <3>1. /\ n \in trusted[o] /\ n \in 1..Len(scans)
          /\ orch'[o].pinned = orch[o].pinned
          /\ orch'[o] = orch[o] \/ orch'[o].scan = n
          /\ \A p \in Orchestrators \ {o} : orch'[p] = orch[p]
          /\ UNCHANGED formal
      BY <2>12 DEF Search, At, DiscoveryTypeOK
    <3>2. \A p \in Orchestrators : trusted'[p] \subseteq trusted[p]
      BY <2>12 DEF Search, Spend, Consume, DiscoveryTypeOK
    <3>3. \A k \in 1..Len(scans) : scans'[k].manifest = scans[k].manifest
      BY <2>12 DEF Search, Spend, Consume, DiscoveryTypeOK, Scan
    <3>4. ASSUME NEW p \in Orchestrators, NEW k \in Held(p)' PROVE k \in Held(p)
      BY <3>1, <3>2 DEF Held
    <3>5. ASSUME NEW p \in Orchestrators, NEW k \in Held(p) PROVE InOrder(p, k)'
      <4>1. InOrder(p, k) /\ k \in 1..Len(scans)
        BY <2>1 DEF VersionsInOrder, Held, DiscoveryTypeOK
      <4> QED
        BY <3>1, <3>3, <4>1 DEF InOrder
    <3> QED
      BY <2>1, <3>1, <3>4, <3>5 DEF VersionsInOrder
  <2> QED
    BY <2>3, <2>4, <2>5, <2>6, <2>7, <2>8, <2>9, <2>10, <2>11, <2>12 DEF Next
<1> QED
  BY <1>1, <1>2, DiscoveryTypes, PTL DEF Spec

(* What a handoff stages was verified against a manifest no newer than the    *)
(* scan's, which is no newer than the files it was verified against: the      *)
(* three are one.                                                             *)
LEMMA HandoffsNameTheirAuthority == Spec => []HandoffNamesItsAuthority
<1>1. Init => HandoffNamesItsAuthority
  BY DEF Init, HandoffNamesItsAuthority
<1>2. DiscoveryTypeOK /\ VersionsInOrder /\ HandoffNamesItsAuthority /\ [Next]_dvars
        => HandoffNamesItsAuthority'
  <2> SUFFICES ASSUME DiscoveryTypeOK, VersionsInOrder, HandoffNamesItsAuthority, [Next]_dvars,
                      handoff' # Nothing, ~ takenBack'
               PROVE  HandoffNamesItsAuthority'
    BY DEF HandoffNamesItsAuthority
  <2>1. ~ takenBack
    BY DEF Next, dvars, PublishFiles, PublishManifest, Published, TakeBack, EditContract,
           Construct, Mint, VerifyAuthority, Search, Conclude
  <2>2. ASSUME NEW o \in Orchestrators, Conclude(o) PROVE HandoffNamesItsAuthority'
    <3>1. PICK kept : /\ handoff' = [manifest |-> scans[orch[o].scan].manifest,
                                     evidence |-> kept]
                      /\ \A item \in kept : \E found, news : Staged(o, item, found, news)
                      /\ Verified(o)
      BY <2>2, HandoffStep
    <3>2. orch[o].scan \in Held(o) /\ orch[o].scan \in 1..Len(scans)
      BY <2>2 DEF Conclude, Held, DiscoveryTypeOK
    <3>3. PICK version \in Nat : version = scans[orch[o].scan].manifest
      <4>1. \A scan \in Scan : scan.manifest \in Nat
        BY DEF Scan
      <4>2. scans[orch[o].scan] \in Scan
        BY <3>2 DEF DiscoveryTypeOK
      <4> QED
        BY <4>1, <4>2
    <3>4. orch[o].pinned =< version /\ version =< formal.files
      BY <2>1, <3>2, <3>3 DEF VersionsInOrder, InOrder
    <3>5. formal.files \in Nat /\ formal.files = orch[o].pinned
      BY <3>1 DEF Verified, DiscoveryTypeOK, Authority
    <3>6. version = orch[o].pinned
      BY <3>4, <3>5
    <3>7. \A item \in Of("AUTHORITY", kept) : item.hash = orch[o].pinned
      BY <3>1 DEF Of, Staged
    <3> QED
      BY <3>1, <3>3, <3>6, <3>7 DEF HandoffNamesItsAuthority, Of
  <2>3. CASE UNCHANGED handoff
    BY <2>1, <2>3 DEF HandoffNamesItsAuthority, Of
  <2>4. \/ UNCHANGED handoff \/ handoff' = Nothing
        \/ \E o \in Orchestrators : Conclude(o)
    BY DEF Next, dvars, PublishFiles, PublishManifest, Published, TakeBack, EditContract,
           Construct, Mint, VerifyAuthority, Search
  <2> QED
    BY <2>2, <2>3, <2>4
<1> QED
  BY <1>1, <1>2, DiscoveryTypes, OrderIsKept, PTL DEF Spec

(* A handoff is of the authority it names and rests on it uncontradicted, or  *)
(* on two media of different source and chain, whatever these two claim.      *)
THEOREM HandoffsAreGrounded == Spec => []HandoffIsGrounded
  BY HandoffsHaveGrounds, HandoffsNameTheirAuthority, PTL DEF HandoffIsGrounded

-----------------------------------------------------------------------------
(* An orchestrator trusts its own scans only, so that consuming one in the    *)
(* registry of the orchestrator that minted it reaches everyone who trusts it.*)
TrustsItsOwn == \A o \in Orchestrators : \A n \in trusted[o] : scans[n].by = o

CalledWhenConsumed ==
    \A n \in DOMAIN scans : spent[n] =< 1 /\ (spent[n] = 1 => ~ Eligible(n))

Distinct(o) ==
    \A n \in trusted[o] : /\ Eligible(n)
                          /\ \A m \in trusted[o] : SameId(scans[m], scans[n]) => m = n

ScanInv == TrustsItsOwn /\ CalledWhenConsumed /\ \A o \in Orchestrators : Distinct(o)

(* A scan is searched by the orchestrator that trusts it, the search takes it *)
(* from the trusted ones, and a new one takes the place of its namesake.      *)
THEOREM ScansAreCalledOnce == Spec => []OneCallPerScan
<1>1. Init => ScanInv
  BY DEF Init, ScanInv, TrustsItsOwn, CalledWhenConsumed, Distinct
<1>2. DiscoveryTypeOK /\ ScanInv /\ [Next]_dvars => ScanInv'
  <2> SUFFICES ASSUME DiscoveryTypeOK, ScanInv, [Next]_dvars PROVE ScanInv'
    OBVIOUS
  <2>1. CASE UNCHANGED <<scans, spent, trusted>>
    BY <2>1 DEF ScanInv, TrustsItsOwn, CalledWhenConsumed, Distinct, Eligible, SameId
  <2>2. ASSUME NEW o \in Orchestrators, Construct(o) PROVE ScanInv'
    <3>1. \A p \in Orchestrators : trusted'[p] \subseteq trusted[p]
      BY <2>2 DEF Construct, DiscoveryTypeOK
    <3> QED
      BY <2>2, <3>1 DEF Construct, ScanInv, TrustsItsOwn, CalledWhenConsumed, Distinct,
                        Eligible, SameId
  <2>3. ASSUME NEW o \in Orchestrators, Mint(o) PROVE ScanInv'
    <3> DEFINE new == Len(scans) + 1
    <3>1. /\ \A n \in 1..Len(scans) : scans'[n] = scans[n] /\ spent'[n] = spent[n]
          /\ scans'[new] = ScanOf(o) /\ spent'[new] = 0
          /\ DOMAIN scans' = 1..new
      BY <2>3 DEF Mint, DiscoveryTypeOK
    <3>2. /\ trusted'[o] = {n \in trusted[o] : ~ SameId(scans[n], ScanOf(o))} \cup {new}
          /\ \A p \in Orchestrators \ {o} : trusted'[p] = trusted[p]
      BY <2>3 DEF Mint, DiscoveryTypeOK
    <3>3. \A p \in Orchestrators : trusted[p] \subseteq 1..Len(scans)
      BY DEF DiscoveryTypeOK
    <3>4. ScanOf(o).by = o /\ ScanOf(o).state = "ISSUED"
      BY DEF ScanOf
    <3>5. TrustsItsOwn'
      BY <3>1, <3>2, <3>3, <3>4 DEF ScanInv, TrustsItsOwn
    <3>6. CalledWhenConsumed'
      <4>1. ASSUME NEW n \in 1..new
            PROVE  spent'[n] =< 1 /\ (spent'[n] = 1 => scans'[n].state # "ISSUED")
        <5>1. n \in 1..Len(scans) \/ n = new
          BY DEF DiscoveryTypeOK
        <5> QED
          BY <3>1, <5>1 DEF ScanInv, CalledWhenConsumed, Eligible
      <4> QED
        BY <3>1, <4>1 DEF CalledWhenConsumed, Eligible
    <3>7. ASSUME NEW p \in Orchestrators PROVE Distinct(p)'
      <4>1. CASE p # o
        BY <3>1, <3>2, <3>3, <4>1 DEF ScanInv, Distinct, Eligible, SameId
      <4>2. CASE p = o
        <5>1. ASSUME NEW n \in trusted'[o] PROVE scans'[n].state = "ISSUED"
          BY <3>1, <3>2, <3>3, <3>4 DEF ScanInv, Distinct, Eligible
        <5>2. ASSUME NEW n \in trusted'[o], NEW m \in trusted'[o],
                     SameId(scans'[m], scans'[n])
              PROVE  m = n
          <6>1. CASE n = new /\ m # new
            <7>1. m \in trusted[o] /\ ~ SameId(scans[m], ScanOf(o))
              BY <3>2, <6>1
            <7> QED
              BY <3>1, <3>3, <5>2, <6>1, <7>1
          <6>2. CASE m = new /\ n # new
            <7>1. n \in trusted[o] /\ ~ SameId(scans[n], ScanOf(o))
              BY <3>2, <6>2
            <7> QED
              BY <3>1, <3>3, <5>2, <6>2, <7>1 DEF SameId
          <6>3. CASE n # new /\ m # new
            <7>1. n \in trusted[o] /\ m \in trusted[o]
              BY <3>2, <6>3
            <7> QED
              BY <3>1, <3>3, <5>2, <7>1 DEF ScanInv, Distinct
          <6> QED
            BY <6>1, <6>2, <6>3
        <5> QED
          BY <4>2, <5>1, <5>2 DEF Distinct, Eligible, SameId
      <4> QED
        BY <4>1, <4>2
    <3> QED
      BY <3>5, <3>6, <3>7 DEF ScanInv
  <2>4. ASSUME NEW o \in Orchestrators, NEW n \in DOMAIN scans, Search(o, n)
        PROVE  ScanInv'
    <3>1. /\ n \in trusted[o] /\ Consume(n) /\ spent' = [spent EXCEPT ![n] = @ + 1]
          /\ n \in 1..Len(scans) /\ Len(spent) = Len(scans)
      BY <2>4 DEF Search, Spend, DiscoveryTypeOK
    <3>2. scans[n].by = o /\ Eligible(n)
      BY <3>1 DEF ScanInv, TrustsItsOwn, Consume
    <3>3. /\ trusted'[o] = trusted[o] \ Trusting(n)
          /\ \A p \in Orchestrators \ {o} : trusted'[p] = trusted[p]
      BY <3>1, <3>2 DEF Consume, DiscoveryTypeOK
    <3>4. n \in Trusting(n)
      BY <3>1, <3>2 DEF Trusting, SameId
    <3>5. /\ \A m \in (1..Len(scans)) \ {n} : scans'[m] = scans[m] /\ spent'[m] = spent[m]
          /\ scans'[n].state = "CONSUMED" /\ DOMAIN scans' = 1..Len(scans)
          /\ scans'[n].request = scans[n].request /\ scans'[n].manifest = scans[n].manifest
          /\ scans'[n].by = scans[n].by /\ spent'[n] = spent[n] + 1
      <4>1. \A s \in Scan : LET t == [s EXCEPT !.state = "CONSUMED"]
                            IN  /\ t.state = "CONSUMED" /\ t.request = s.request
                                /\ t.manifest = s.manifest /\ t.by = s.by
        BY DEF Scan
      <4>2. /\ scans'[n] = [scans[n] EXCEPT !.state = "CONSUMED"] /\ scans[n] \in Scan
            /\ \A m \in (1..Len(scans)) \ {n} : scans'[m] = scans[m]
            /\ DOMAIN scans' = 1..Len(scans)
        BY <3>1 DEF Consume, DiscoveryTypeOK
      <4>3. /\ \A m \in (1..Len(scans)) \ {n} : spent'[m] = spent[m]
            /\ spent'[n] = spent[n] + 1
        BY <3>1 DEF DiscoveryTypeOK
      <4> QED
        BY <4>1, <4>2, <4>3
    <3>6. \A p \in Orchestrators :
            /\ trusted'[p] \subseteq trusted[p] /\ trusted[p] \subseteq 1..Len(scans)
            /\ n \notin trusted'[p]
      <4>1. \A p \in Orchestrators \ {o} : n \notin trusted[p]
        BY <3>2 DEF ScanInv, TrustsItsOwn
      <4> QED
        BY <3>3, <3>4, <4>1 DEF DiscoveryTypeOK
    <3>7. TrustsItsOwn'
      BY <3>5, <3>6 DEF ScanInv, TrustsItsOwn
    <3>8. CalledWhenConsumed'
      <4>1. spent[n] \in Nat /\ spent[n] =< 1 /\ spent[n] # 1
        BY <3>1, <3>2 DEF ScanInv, CalledWhenConsumed, DiscoveryTypeOK
      <4>2. spent'[n] = spent[n] + 1
        BY <3>5
      <4>3. spent'[n] =< 1
        BY <4>1, <4>2
      <4> QED
        BY <3>5, <4>3 DEF ScanInv, CalledWhenConsumed, Eligible
    <3>9. \A p \in Orchestrators : Distinct(p)'
      BY <3>5, <3>6 DEF ScanInv, Distinct, Eligible, SameId
    <3> QED
      BY <3>7, <3>8, <3>9 DEF ScanInv
  <2>5. \/ UNCHANGED <<scans, spent, trusted>>
        \/ \E o \in Orchestrators :
              \/ Construct(o) \/ Mint(o)
              \/ \E n \in DOMAIN scans : Search(o, n)
    BY DEF Next, dvars, PublishFiles, PublishManifest, Published, TakeBack, EditContract,
           VerifyAuthority, Conclude
  <2> QED
    BY <2>1, <2>2, <2>3, <2>4, <2>5
<1>3. ScanInv => OneCallPerScan
  BY DEF ScanInv, CalledWhenConsumed, Distinct, OneCallPerScan
<1> QED
  BY <1>1, <1>2, <1>3, DiscoveryTypes, PTL DEF Spec
=============================================================================
