------------------------ MODULE ReportPrograms_proofs ------------------------
(* Proofs about five programs of the report area that keep files of their     *)
(* own: the decisions on report triggers, the permissions to search once, the *)
(* research ledgers with their replay, the brief of the plugin's shadow run,  *)
(* and the production of reports.  Each has its own specification and         *)
(* invariant; they share nothing.                                             *)
EXTENDS ReportTrigger, TriggerIssuance, ResearchLedger, ShadowBrief, ReportProduction,
        FiniteSetTheorems, SequenceTheorems, TLAPS

-----------------------------------------------------------------------------
(* ReportTrigger: decisions form chains                                       *)

(* What a receipt on file, or about to be, needs: the receipt it revises.     *)
Follows(r, before) ==
    /\ before.id = r.id.prev /\ before.id.event = r.id.event
    /\ before.id.rev = r.id.rev - 1 /\ before.claims # r.claims
Linked(r) ==
    /\ r.id.rev \in Nat
    /\ r.id.rev > 1 => \E before \in receipts : Follows(r, before)

(* What the time stamps say of a receipt: which integration it came from.     *)
Dated(r) ==
    /\ r.id.at \in Nat /\ r.from \in Nat
    /\ r.id.at <= time /\ r.from <= integration.at
    /\ r.id.event # NoEvent => r.id.at = r.from
    /\ r.id.event = NoEvent =>
          r.claims = NoEvent /\ (r.id.at >= integration.at => r.from = integration.at)
    /\ r.from = integration.at => r.claims = integration.claims

EvaluatorsAreRecords ==
    /\ DOMAIN eval = Evaluators
    /\ \A p \in Evaluators : eval[p] = [pc |-> eval[p].pc, receipt |-> eval[p].receipt]
    /\ \A p \in Evaluators : eval[p].pc \in {"idle", "decided", "free", "sealed"}

Clock ==
    /\ time \in Nat /\ integration.at \in Nat /\ integration.at <= time
    /\ integration.event = NoEvent => integration.claims = NoEvent

(* Every receipt that was computed and may still be seen.                     *)
Computed(r) ==
    \/ r \in receipts \cup replaced
    \/ \E p \in Evaluators : eval[p].pc # "idle" /\ r = eval[p].receipt

(* Receipts are linked and dated, the dates and the links agree for one id,   *)
(* and something of the same decision is kept where one was written over.     *)
ComputedAreSound == \A r : Computed(r) => Linked(r) /\ Dated(r)
OneDecisionPerId ==
    \A r, other : Computed(r) /\ Computed(other) /\ r.id = other.id => SameDecision(r, other)
LatestIsKnown == latest # NoReceipt => latest \in receipts \cup replaced
ReplacedIsKept == \A r \in replaced : \E kept \in receipts : SameDecision(kept, r)
SealedIsKnown ==
    \A p \in Evaluators : eval[p].pc = "sealed" => eval[p].receipt \in receipts \cup replaced

TriggerInv ==
    /\ EvaluatorsAreRecords /\ Clock
    /\ ComputedAreSound /\ OneDecisionPerId
    /\ LatestIsKnown /\ ReplacedIsKept /\ SealedIsKnown

(* What an evaluation computes from the latest decision is linked.            *)
LEMMA DecisionIsLinked ==
  ASSUME TriggerInv
  PROVE  Linked(Decision)
<1> DEFINE d == Decision
<1>1. CASE integration.event = NoEvent
  <2>1. d.id.rev = 1
      BY <1>1 DEF Decision, Receipt
  <2> QED
      BY <2>1 DEF Linked
<1>2. CASE integration.event # NoEvent
  <2> DEFINE identity == Identity(integration.event, integration.claims, latest)
  <2>1. /\ d.id.rev = identity.rev /\ d.id.prev = identity.prev
        /\ d.id.event = integration.event /\ d.claims = integration.claims
      BY <1>2 DEF Decision, Receipt
  <2>2. CASE latest # NoReceipt /\ latest.id.event = integration.event
    <3>1. Linked(latest)
        BY <2>2 DEF TriggerInv, LatestIsKnown, ComputedAreSound, Computed
    <3>2. PICK kept \in receipts : SameDecision(kept, latest)
        BY <2>2 DEF TriggerInv, LatestIsKnown, ReplacedIsKept, SameDecision
    <3>3. CASE latest.claims = integration.claims
      <4>1. identity.rev = latest.id.rev /\ identity.prev = latest.id.prev
          BY <2>2, <3>3 DEF Identity
      <4> HIDE DEF d, identity
      <4>2. d.id.rev = latest.id.rev /\ d.id.prev = latest.id.prev
          BY <2>1, <4>1
      <4> QED
          BY <2>1, <2>2, <3>1, <3>3, <4>2 DEF Linked, Follows, d
    <3>4. CASE latest.claims # integration.claims
      <4>1. identity.rev = latest.id.rev + 1 /\ identity.prev = latest.id
          BY <2>2, <3>4 DEF Identity
      <4> HIDE DEF d, identity
      <4>2. d.id.rev = latest.id.rev + 1 /\ d.id.prev = latest.id
          BY <2>1, <4>1
      <4>3. d.id.rev \in Nat /\ latest.id.rev = d.id.rev - 1
          BY <3>1, <4>2 DEF Linked
      <4>4. Follows(d, kept)
          BY <2>1, <2>2, <3>2, <3>4, <4>2, <4>3 DEF Follows, SameDecision
      <4> QED
          BY <3>2, <4>3, <4>4 DEF Linked, d
    <3> QED
        BY <3>3, <3>4
  <2>3. CASE ~ (latest # NoReceipt /\ latest.id.event = integration.event)
    <3>1. identity.rev = 1
        BY <2>3 DEF Identity
    <3> QED
        BY <2>1, <3>1 DEF Linked
  <2> QED
      BY <2>2, <2>3
<1> QED
    BY <1>1, <1>2

(* Its stamp is that of the integration, or of an ordinary day.               *)
LEMMA DecisionIsDated ==
  ASSUME TriggerInv
  PROVE  /\ Dated(Decision)
         /\ \A r : Dated(r) /\ r.id = Decision.id => SameDecision(r, Decision)
<1> DEFINE d == Decision
<1>1. /\ d.claims = integration.claims /\ d.from = integration.at
      /\ d.id.event = integration.event
      /\ d.id.at = IF integration.event = NoEvent THEN time ELSE integration.at
    BY DEF Decision, Receipt
<1>2. Clock
    BY DEF TriggerInv
<1> HIDE DEF d
<1>3. Dated(d)
    BY <1>1, <1>2 DEF Dated, Clock
<1>4. ASSUME NEW r, Dated(r), r.id = d.id
      PROVE  SameDecision(r, d)
    BY <1>1, <1>2, <1>4 DEF Dated, Clock, SameDecision
<1> QED
    BY <1>3, <1>4 DEF d

LEMMA TriggerStarts == TriggerInit => TriggerInv
BY DEF TriggerInit, TriggerInv, EvaluatorsAreRecords, Clock, NoEvidence, Computed,
       ComputedAreSound, OneDecisionPerId, LatestIsKnown, ReplacedIsKept, SealedIsKnown

(* Links hold as long as something of each decision stays on file.            *)
LEMMA LinksStay ==
  ASSUME \A r \in receipts : \E kept \in receipts' : SameDecision(kept, r)
  PROVE  \A r : Linked(r) => Linked(r)'
<1>1. ASSUME NEW r, NEW before \in receipts, Follows(r, before)
      PROVE  \E kept \in receipts' : Follows(r, kept)
  <2>1. PICK kept \in receipts' : SameDecision(kept, before)
      OBVIOUS
  <2>2. Follows(r, kept)
      BY <1>1, <2>1 DEF Follows, SameDecision
  <2> QED
      BY <2>2
<1> QED
    BY <1>1 DEF Linked, Follows

(* A step that keeps time and integration, and computes nothing.              *)
LEMMA NothingComputed ==
  ASSUME TriggerInv,
         UNCHANGED <<time, integration>>,
         EvaluatorsAreRecords',
         \A r : Computed(r)' => Computed(r),
         \A r \in receipts : \E kept \in receipts' : SameDecision(kept, r)
  PROVE  (Clock /\ ComputedAreSound /\ OneDecisionPerId)'
<1>1. \A r : Linked(r) => Linked(r)'
    BY LinksStay
<1>2. \A r : Dated(r) => Dated(r)'
    BY DEF Dated
<1>3. Clock'
    BY DEF TriggerInv, Clock
<1>4. ComputedAreSound'
    BY <1>1, <1>2 DEF TriggerInv, ComputedAreSound
<1>5. OneDecisionPerId'
    BY DEF TriggerInv, OneDecisionPerId, SameDecision
<1> QED
    BY <1>3, <1>4, <1>5

LEMMA EvaluateStep ==
  ASSUME TriggerInv, NEW p \in Evaluators, Evaluate(p)
  PROVE  TriggerInv'
<1> DEFINE d == Decision
<1>1. /\ eval'[p].pc = "decided" /\ eval'[p].receipt = d
      /\ eval'[p] = [pc |-> eval'[p].pc, receipt |-> eval'[p].receipt]
      /\ DOMAIN eval' = Evaluators
      /\ \A o \in Evaluators : o # p => eval'[o] = eval[o]
      /\ UNCHANGED <<time, integration, receipts, replaced, latest>>
    BY DEF Evaluate, TriggerInv, EvaluatorsAreRecords
<1>2. Linked(d) /\ Dated(d) /\ (\A r : Dated(r) /\ r.id = d.id => SameDecision(r, d))
    BY DecisionIsLinked, DecisionIsDated
<1> HIDE DEF d
<1>3. EvaluatorsAreRecords'
    BY <1>1 DEF TriggerInv, EvaluatorsAreRecords
<1>4. \A r : Computed(r)' => r = d \/ Computed(r)
    BY <1>1 DEF Computed
<1>5. \A r : (Linked(r) => Linked(r)') /\ (Dated(r) => Dated(r)')
    BY <1>1 DEF Linked, Dated
<1>6. ComputedAreSound'
    BY <1>2, <1>4, <1>5 DEF TriggerInv, ComputedAreSound
<1>7. ASSUME NEW r, NEW other, Computed(r)', Computed(other)', r.id = other.id
      PROVE  SameDecision(r, other)
  <2>1. CASE Computed(r) /\ Computed(other)
      BY <1>7, <2>1 DEF TriggerInv, OneDecisionPerId
  <2>2. CASE other = d
    <3>1. Dated(r)
        BY <1>2, <1>4, <1>7 DEF TriggerInv, ComputedAreSound
    <3> QED
        BY <1>2, <1>7, <2>2, <3>1
  <2>3. CASE r = d
    <3>1. Dated(other)
        BY <1>2, <1>4, <1>7 DEF TriggerInv, ComputedAreSound
    <3> QED
        BY <1>2, <1>7, <2>3, <3>1 DEF SameDecision
  <2> QED
      BY <1>4, <1>7, <2>1, <2>2, <2>3
<1>8. OneDecisionPerId'
    BY <1>7 DEF OneDecisionPerId, SameDecision
<1> QED
    BY <1>1, <1>3, <1>6, <1>8 DEF TriggerInv, Clock, LatestIsKnown, ReplacedIsKept,
       SealedIsKnown, SameDecision

(* Nothing is written to the receipts: the other steps of an evaluator.       *)
LEMMA QuietStep ==
  ASSUME TriggerInv, NEW p \in Evaluators,
         LookForReceipt(p) \/ PointLatest(p) \/ KillEvaluator(p)
  PROVE  TriggerInv'
<1> DEFINE r == eval[p].receipt
<1>1. /\ UNCHANGED <<time, integration, receipts, replaced>>
      /\ \A o \in Evaluators : o # p => eval'[o] = eval[o]
      /\ DOMAIN eval' = Evaluators
      /\ eval'[p] = [pc |-> eval'[p].pc, receipt |-> eval'[p].receipt]
      /\ \/ eval'[p].pc = "idle"
         \/ eval[p].pc = "decided" /\ eval'[p].pc \in {"free", "sealed"} /\ eval'[p].receipt = r
    BY DEF LookForReceipt, PointLatest, KillEvaluator, TriggerInv, EvaluatorsAreRecords
<1>2. EvaluatorsAreRecords'
    BY <1>1 DEF TriggerInv, EvaluatorsAreRecords
<1>3. \A any : Computed(any)' => Computed(any)
    BY <1>1 DEF Computed
<1>4. (Clock /\ ComputedAreSound /\ OneDecisionPerId)'
    BY <1>1, <1>2, <1>3, NothingComputed DEF SameDecision
<1>5. LatestIsKnown'
  <2>1. \/ latest' = latest
        \/ eval[p].pc = "sealed" /\ latest' = r
      BY DEF LookForReceipt, PointLatest, KillEvaluator
  <2> QED
      BY <1>1, <2>1 DEF TriggerInv, LatestIsKnown, SealedIsKnown
<1>6. eval'[p].pc = "sealed" => eval'[p].receipt \in receipts
  <2>1. CASE LookForReceipt(p)
    <3> DEFINE there == {other \in receipts : other.id = r.id}
    <3>1. eval'[p] = IF there \subseteq {r}
                     THEN [pc |-> IF there = {} THEN "free" ELSE "sealed", receipt |-> r]
                     ELSE [pc |-> "idle", receipt |-> NoReceipt]
        BY <2>1 DEF LookForReceipt, TriggerInv, EvaluatorsAreRecords
    <3>2. eval'[p].pc = "sealed" =>
              there \subseteq {r} /\ there # {} /\ eval'[p].receipt = r
        BY <3>1
    <3> QED
        BY <3>2
  <2>2. CASE PointLatest(p) \/ KillEvaluator(p)
      BY <2>2 DEF PointLatest, KillEvaluator, TriggerInv, EvaluatorsAreRecords
  <2> QED
      BY <2>1, <2>2
<1> QED
    BY <1>1, <1>2, <1>4, <1>5, <1>6 DEF TriggerInv, ReplacedIsKept, SealedIsKnown

(* The write: what it writes over stays known, and says the same decision.    *)
LEMMA WriteStep ==
  ASSUME TriggerInv, NEW p \in Evaluators, WriteReceipt(p)
  PROVE  TriggerInv'
<1> DEFINE r == eval[p].receipt
           there == {other \in receipts : other.id = r.id}
<1>1. /\ UNCHANGED <<time, integration, latest>>
      /\ eval[p].pc = "free" /\ eval'[p].pc = "sealed" /\ eval'[p].receipt = r
      /\ eval'[p] = [pc |-> eval'[p].pc, receipt |-> eval'[p].receipt]
      /\ DOMAIN eval' = Evaluators
      /\ \A o \in Evaluators : o # p => eval'[o] = eval[o]
      /\ receipts' = (receipts \ there) \cup {r}
      /\ replaced' = replaced \cup (there \ {r})
    BY DEF WriteReceipt, TriggerInv, EvaluatorsAreRecords
<1>2. Computed(r)
    BY <1>1 DEF Computed
<1>3. \A other \in there : SameDecision(r, other)
    BY <1>2 DEF TriggerInv, OneDecisionPerId, Computed
<1>4. \A any \in receipts : \E kept \in receipts' : SameDecision(kept, any)
    BY <1>1, <1>3 DEF SameDecision
<1> HIDE DEF r
<1>5. EvaluatorsAreRecords'
    BY <1>1 DEF TriggerInv, EvaluatorsAreRecords
<1>6. \A any : Computed(any)' => Computed(any)
    BY <1>1, <1>2 DEF Computed
<1>7. (Clock /\ ComputedAreSound /\ OneDecisionPerId)'
    BY <1>1, <1>4, <1>5, <1>6, NothingComputed
<1>8. receipts \cup replaced \subseteq receipts' \cup replaced'
    BY <1>1
<1>9. ReplacedIsKept'
  <2>1. ASSUME NEW old \in replaced'
        PROVE  \E kept \in receipts' : SameDecision(kept, old)
    <3>1. CASE old \in replaced
      <4>1. PICK kept \in receipts : SameDecision(kept, old)
          BY <3>1 DEF TriggerInv, ReplacedIsKept
      <4>2. PICK still \in receipts' : SameDecision(still, kept)
          BY <1>4
      <4> QED
          BY <4>1, <4>2 DEF SameDecision
    <3>2. CASE old \in there
        BY <1>1, <1>3, <3>2
    <3> QED
        BY <1>1, <2>1, <3>1, <3>2
  <2> QED
      BY <2>1 DEF ReplacedIsKept, SameDecision
<1> QED
    BY <1>1, <1>5, <1>7, <1>8, <1>9 DEF TriggerInv, LatestIsKnown, SealedIsKnown

(* A scan, or a day that goes by: what was computed before is of the past.    *)
LEMMA TimeGoesOn ==
  ASSUME TriggerInv, ScanAndIngest \/ DayPasses
  PROVE  TriggerInv'
<1>1. /\ time' = time + 1
      /\ UNCHANGED <<receipts, replaced, latest, eval>>
      /\ \/ UNCHANGED integration
         \/ /\ integration'.at = time'
            /\ integration'.event = NoEvent => integration'.claims = NoEvent
  <2>1. ASSUME ScanAndIngest
        PROVE  integration'.at = time' /\ (integration'.event = NoEvent => integration'.claims = NoEvent)
    <3>1. integration' \in Integrations(time')
        BY <2>1 DEF ScanAndIngest
    <3>2. CASE integration' = [NoEvidence EXCEPT !.at = time']
        BY <3>2 DEF NoEvidence
    <3>3. CASE integration' \in [event : Events, claims : Claims, confirmed : BOOLEAN, at : {time'}]
        BY <3>3, NoEventIsNoEvent
    <3> QED
        BY <3>1, <3>2, <3>3 DEF Integrations
  <2> QED
      BY <2>1 DEF ScanAndIngest, DayPasses
<1>2. Clock'
    BY <1>1 DEF TriggerInv, Clock
<1>3. ASSUME NEW r, Dated(r)
      PROVE  Dated(r)'
    BY <1>1, <1>3 DEF Dated, TriggerInv, Clock
<1>4. \A r : (Linked(r) => Linked(r)') /\ (Computed(r)' => Computed(r))
    BY <1>1 DEF Linked, Computed
<1>5. ComputedAreSound'
    BY <1>3, <1>4 DEF TriggerInv, ComputedAreSound
<1>6. OneDecisionPerId'
    BY <1>4 DEF TriggerInv, OneDecisionPerId, SameDecision
<1> QED
    BY <1>1, <1>2, <1>5, <1>6 DEF TriggerInv, EvaluatorsAreRecords, LatestIsKnown,
       ReplacedIsKept, SealedIsKnown, SameDecision

LEMMA TriggerInvInductive == TriggerInv /\ [TriggerNext]_tvars => TriggerInv'
<1>1. ASSUME TriggerInv,
             UNCHANGED <<time, integration, receipts, replaced, latest, eval>>
      PROVE  TriggerInv'
  <2>1. \A r : (Linked(r) => Linked(r)') /\ (Dated(r) => Dated(r)')
               /\ (Computed(r)' => Computed(r))
      BY <1>1 DEF Linked, Dated, Computed
  <2>2. (ComputedAreSound /\ OneDecisionPerId)'
      BY <1>1, <2>1 DEF TriggerInv, ComputedAreSound, OneDecisionPerId, SameDecision
  <2> QED
      BY <1>1, <2>2 DEF TriggerInv, EvaluatorsAreRecords, Clock, LatestIsKnown,
         ReplacedIsKept, SealedIsKnown, SameDecision
<1>2. ASSUME TriggerInv, NEW p \in Evaluators,
             \/ Evaluate(p) \/ LookForReceipt(p) \/ WriteReceipt(p) \/ PointLatest(p)
             \/ KillEvaluator(p)
      PROVE  TriggerInv'
    BY <1>2, EvaluateStep, QuietStep, WriteStep
<1>3. ASSUME TriggerInv, EditRegistry
      PROVE  TriggerInv'
    BY <1>1, <1>3 DEF EditRegistry
<1>4. ASSUME TriggerInv, ScanAndIngest \/ DayPasses
      PROVE  TriggerInv'
    BY <1>4, TimeGoesOn
<1>5. ASSUME TriggerInv, UNCHANGED tvars
      PROVE  TriggerInv'
    BY <1>1, <1>5 DEF tvars
<1> QED
    BY <1>2, <1>3, <1>4, <1>5 DEF TriggerNext

(* Decisions form chains: every revision rests on a decision that is kept, also  *)
(* where two launchers write over each other's receipt, for any number of        *)
(* launchers and events (evaluate_and_persist).                                  *)
THEOREM DecisionsFormChains == TriggerSpec => []ChainUnbroken
<1>1. TriggerInv => ChainUnbroken
    BY DEF TriggerInv, ComputedAreSound, Computed, LatestIsKnown, ReplacedIsKept, Linked,
       Follows, ChainUnbroken
<1> QED
    BY <1>1, TriggerStarts, TriggerInvInductive, PTL DEF TriggerSpec

-----------------------------------------------------------------------------
(* TriggerIssuance: one permission, one call                                  *)

Entry == {"ABSENT", "ISSUED", "CONSUMED"}
Task(steps) ==
    [pc : steps, id : Issuances \cup {Nobody}, seen : [Issuances -> Entry]]
(* A search between taking the lock and releasing it; and one that has marked *)
(* its entry and not yet called.                                              *)
UnderLock == {"locked", "read", "written", "verified", "refused"}
Spending == {"written", "verified", "consumed"}
Searching == {"idle", "loaded", "consumed"} \cup UnderLock
Issuing == {"idle", "sealed", "read"}

(* Type correctness, and that a process at work has an issuance.              *)
IssuanceTypeOK ==
    /\ sealed \subseteq Issuances
    /\ index \in [Issuances -> Entry]
    /\ locked \in BOOLEAN
    /\ issuer \in [Issuers -> Task(Issuing)]
    /\ searcher \in [Searchers -> Task(Searching)]
    /\ \A p \in Issuers : issuer[p].pc # "idle" => issuer[p].id \in Issuances
    /\ \A s \in Searchers : searcher[s].pc # "idle" => searcher[s].id \in Issuances
    /\ calls \in [Issuances -> Nat]
    /\ revived \subseteq Issuances

(* Searches exclude each other.                                               *)
OneUnderLock ==
    \A s \in Searchers : searcher[s].pc \in UnderLock =>
        /\ locked
        /\ \A other \in Searchers : searcher[other].pc \in UnderLock => other = s

(* What a search has read under the lock is still true of what is spent: only *)
(* an issuer can have changed it, and then the entry is among the revived.    *)
ReadIsCurrent ==
    \A s \in Searchers : searcher[s].pc = "read" =>
        /\ searcher[s].seen[searcher[s].id] = "ISSUED"
        /\ \A i \in Issuances \ revived :
              searcher[s].seen[i] = "CONSUMED" <=> index[i] = "CONSUMED"

(* An issuer may have missed what was spent, but has not seen what was not.   *)
IssuersAreBehind ==
    \A p \in Issuers : issuer[p].pc = "read" =>
        \A i \in Issuances \ revived :
            issuer[p].seen[i] = "CONSUMED" => index[i] = "CONSUMED"

(* An entry is spent by at most one search, which has called at most once.    *)
IsSpending(s, i) == searcher[s].pc \in Spending /\ searcher[s].id = i
SpentOnce ==
    \A i \in Issuances \ revived :
        /\ calls[i] \in {0, 1}
        /\ index[i] # "CONSUMED" => calls[i] = 0
        /\ \A s \in Searchers : IsSpending(s, i) =>
              /\ index[i] = "CONSUMED" /\ calls[i] = 0
              /\ \A other \in Searchers : IsSpending(other, i) => other = s

IssuanceInv ==
    IssuanceTypeOK /\ OneUnderLock /\ ReadIsCurrent /\ IssuersAreBehind /\ SpentOnce

LEMMA NoTaskIsATask ==
  NoTask \in Task(Issuing) /\ NoTask \in Task(Searching) /\ NoTask.pc = "idle"
BY DEF NoTask, Task, Issuing, Searching, Entry

LEMMA IssuanceStarts == IssuanceInit => IssuanceInv
<1> SUFFICES ASSUME IssuanceInit PROVE IssuanceInv
    OBVIOUS
<1>1. IssuanceTypeOK
    BY NoTaskIsATask DEF IssuanceInit, IssuanceTypeOK, NoTask, Entry
<1>2. /\ \A p \in Issuers : issuer[p].pc = "idle"
      /\ \A s \in Searchers : searcher[s].pc = "idle"
    BY NoTaskIsATask DEF IssuanceInit
<1> QED
    BY <1>1, <1>2 DEF IssuanceInit, IssuanceInv, OneUnderLock, ReadIsCurrent,
       IssuersAreBehind,
       SpentOnce, IsSpending, UnderLock, Spending

(* An issuer revives a spent entry, or leaves what is spent.                  *)
LEMMA IssuerStep ==
  ASSUME IssuanceInv, NEW p \in Issuers,
         \/ \E i \in Issuances : SealReceipt(p, i)
         \/ ReadIndex(p) \/ EnterInIndex(p)
  PROVE  IssuanceInv'
<1> USE DEF IssuanceInv
<1>1. CASE \E i \in Issuances : SealReceipt(p, i)
  <2> PICK i \in Issuances : SealReceipt(p, i)
      BY <1>1
  <2>1. IssuanceTypeOK'
      BY ZenonT(40) DEF IssuanceTypeOK, SealReceipt, Task, Issuing
  <2>2. \A o \in Issuers : issuer'[o] = issuer[o] \/ issuer'[o].pc = "sealed"
      BY DEF SealReceipt, IssuanceTypeOK, Task
  <2>3. IssuersAreBehind'
      BY <2>2 DEF SealReceipt, IssuersAreBehind
  <2> QED
      BY <2>1, <2>3 DEF SealReceipt, OneUnderLock, ReadIsCurrent, SpentOnce,
         IsSpending
<1>2. CASE ReadIndex(p)
  <2>1. IssuanceTypeOK'
      BY <1>2, NoTaskIsATask DEF IssuanceTypeOK, ReadIndex, Task, Issuing
  <2>2. IssuersAreBehind'
      BY <1>2, NoTaskIsATask DEF ReadIndex, IssuersAreBehind, IssuanceTypeOK
  <2> QED
      BY <1>2, <2>1, <2>2 DEF ReadIndex, OneUnderLock, ReadIsCurrent, SpentOnce,
         IsSpending
<1>3. CASE EnterInIndex(p)
  <2>1. IssuanceTypeOK'
      BY <1>3, NoTaskIsATask DEF IssuanceTypeOK, EnterInIndex, Task, Issuing, Entry
  <2>2. \A i \in Issuances \ revived' :
            i \notin revived /\ (index[i] = "CONSUMED" <=> index'[i] = "CONSUMED")
      BY <1>3 DEF IssuanceTypeOK, EnterInIndex, IssuersAreBehind, Task
  <2>3. IssuersAreBehind'
      BY <1>3, <2>2, NoTaskIsATask DEF EnterInIndex, IssuersAreBehind,
         IssuanceTypeOK
  <2> QED
      BY <1>3, <2>1, <2>2, <2>3 DEF EnterInIndex, OneUnderLock, ReadIsCurrent,
         SpentOnce, IsSpending
<1> QED
    BY <1>1, <1>2, <1>3

(* A search's step that moves nothing but the search keeps the types. *)
LEMMA SearchMoves ==
  ASSUME IssuanceTypeOK, NEW s \in Searchers, NEW pc \in Searching,
         NEW id \in Issuances, NEW seen \in [Issuances -> Entry],
         searcher' = [searcher EXCEPT ![s] = [pc |-> pc, id |-> id, seen |-> seen]]
  PROVE  /\ searcher' \in [Searchers -> Task(Searching)]
         /\ \A o \in Searchers : searcher'[o].pc # "idle" => searcher'[o].id \in Issuances
<1>1. [pc |-> pc, id |-> id, seen |-> seen] \in Task(Searching)
    BY DEF Task
<1>2. searcher' \in [Searchers -> Task(Searching)]
    BY <1>1 DEF IssuanceTypeOK
<1> QED
    BY <1>2 DEF IssuanceTypeOK

(* A search's record is its three parts. *)
LEMMA SearchParts ==
  ASSUME IssuanceTypeOK, NEW s \in Searchers
  PROVE  /\ searcher[s] = [pc |-> searcher[s].pc, id |-> searcher[s].id,
                           seen |-> searcher[s].seen]
         /\ searcher[s].pc \in Searching
         /\ searcher[s].seen \in [Issuances -> Entry]
BY DEF IssuanceTypeOK, Task

(* A search spends what it found issued under the lock, and calls once.       *)
LEMMA SearcherStep ==
  ASSUME IssuanceInv, NEW s \in Searchers,
         \/ \E i \in Issuances : LoadCapability(s, i)
         \/ TakeLock(s) \/ ReadUnderLock(s) \/ MarkConsumed(s) \/ VerifyConsumed(s)
         \/ ReleaseLock(s) \/ CallProvider(s)
  PROVE  IssuanceInv'
<1> USE DEF IssuanceInv
<1>1. CASE \E i \in Issuances : LoadCapability(s, i)
  <2> PICK i \in Issuances : LoadCapability(s, i)
      BY <1>1
  <2> DEFINE loaded == [searcher EXCEPT ![s].pc = "loaded"]
  <2>1. loaded \in [Searchers -> Task(Searching)] /\ "loaded" \in Searching
      BY ZenonT(40) DEF IssuanceTypeOK, Task, Searching
  <2>2. /\ searcher' \in [Searchers -> Task(Searching)]
        /\ \A o \in Searchers : searcher'[o].pc # "idle" => searcher'[o].id \in Issuances
    <3>1. searcher' = [loaded EXCEPT ![s].id = i]
        BY DEF LoadCapability
    <3>2. searcher' \in [Searchers -> Task(Searching)]
        BY <2>1, <3>1 DEF Task
    <3>3. /\ searcher'[s].id = i
          /\ \A o \in Searchers : o # s => searcher'[o] = searcher[o]
        BY <2>1, <3>1 DEF Task, IssuanceTypeOK
    <3> QED
        BY <3>2, <3>3 DEF IssuanceTypeOK
  <2>3. IssuanceTypeOK'
      BY <2>2 DEF IssuanceTypeOK, LoadCapability
  <2>4. \A o \in Searchers : searcher'[o] = searcher[o] \/ searcher'[o].pc = "loaded"
      BY DEF LoadCapability, IssuanceTypeOK, Task
  <2>5. UNCHANGED <<sealed, index, locked, issuer, calls, revived>>
      BY DEF LoadCapability
  <2>6. OneUnderLock'
      BY <2>4, <2>5 DEF OneUnderLock, UnderLock
  <2>7. ReadIsCurrent'
      BY <2>4, <2>5 DEF ReadIsCurrent
  <2>8. \A o \in Searchers, j \in Issuances : IsSpending(o, j)' => IsSpending(o, j)
      BY <2>4 DEF IsSpending, Spending
  <2>9. SpentOnce'
      BY <2>5, <2>8 DEF SpentOnce
  <2> QED
      BY <2>3, <2>5, <2>6, <2>7, <2>9 DEF IssuersAreBehind
<1>2. CASE TakeLock(s)
  <2>1. IssuanceTypeOK'
    <3>1. CASE locked
        BY <1>2, <3>1, NoTaskIsATask DEF IssuanceTypeOK, TakeLock
    <3>2. CASE ~ locked
      <4>1. searcher' = [searcher EXCEPT ![s] = [pc |-> "locked", id |-> searcher[s].id,
                                                 seen |-> searcher[s].seen]]
        <5>1. [searcher[s] EXCEPT !.pc = "locked"]
                 = [pc |-> "locked", id |-> searcher[s].id, seen |-> searcher[s].seen]
            BY DEF IssuanceTypeOK, Task
        <5> QED
            BY <1>2, <3>2, <5>1 DEF TakeLock
      <4>2. searcher[s].id \in Issuances
          BY <1>2 DEF TakeLock, IssuanceTypeOK
      <4>3. /\ searcher' \in [Searchers -> Task(Searching)]
            /\ \A o \in Searchers : searcher'[o].pc # "idle" => searcher'[o].id \in Issuances
          BY <4>1, <4>2, SearchMoves, SearchParts DEF Searching, UnderLock
      <4> QED
          BY <1>2, <3>2, <4>3 DEF IssuanceTypeOK, TakeLock
    <3> QED
        BY <3>1, <3>2
  <2>2. /\ searcher'[s].pc \in {"idle", "locked"}
        /\ searcher'[s].pc = "locked" => locked' /\ ~ locked
        /\ locked => locked'
        /\ \A o \in Searchers : o # s => searcher'[o] = searcher[o]
      BY <1>2, NoTaskIsATask DEF TakeLock, IssuanceTypeOK, Task
  <2>3. OneUnderLock'
      BY <2>2 DEF OneUnderLock, UnderLock
  <2> QED
      BY <1>2, <2>1, <2>2, <2>3 DEF TakeLock, ReadIsCurrent, SpentOnce, IsSpending,
         Spending, IssuersAreBehind
<1>3. CASE ReadUnderLock(s)
  <2>1. IssuanceTypeOK'
    <3> DEFINE pc == IF index[searcher[s].id] = "ISSUED" THEN "read" ELSE "refused"
    <3>0. pc \in Searching
        BY DEF Searching, UnderLock
    <3>1. searcher' = [[searcher EXCEPT ![s].pc = pc] EXCEPT ![s].seen = index]
        BY <1>3 DEF ReadUnderLock
    <3>2. searcher[s].id \in Issuances /\ index \in [Issuances -> Entry]
        BY <1>3 DEF ReadUnderLock, IssuanceTypeOK
    <3> HIDE DEF pc
    <3> DEFINE looked == [searcher EXCEPT ![s].pc = pc]
    <3>3. looked \in [Searchers -> Task(Searching)]
        BY <3>0 DEF IssuanceTypeOK, Task
    <3>4. /\ searcher' \in [Searchers -> Task(Searching)]
          /\ \A o \in Searchers : searcher'[o].pc # "idle" => searcher'[o].id \in Issuances
      <4>1. searcher' \in [Searchers -> Task(Searching)]
          BY <3>1, <3>2, <3>3 DEF Task
      <4> QED
          BY <3>1, <3>2, <4>1 DEF IssuanceTypeOK, Task
    <3> QED
        BY <1>3, <3>4 DEF IssuanceTypeOK, ReadUnderLock
  <2>2. /\ searcher[s].pc = "locked" /\ searcher'[s].pc \in {"read", "refused"}
        /\ searcher'[s].id = searcher[s].id /\ searcher'[s].seen = index
        /\ searcher'[s].pc = "read" => index[searcher[s].id] = "ISSUED"
        /\ \A o \in Searchers : o # s => searcher'[o] = searcher[o]
        /\ UNCHANGED <<sealed, index, locked, issuer, calls, revived>>
      BY <1>3 DEF ReadUnderLock, IssuanceTypeOK, Task
  <2>3. OneUnderLock'
      BY <2>2 DEF OneUnderLock, UnderLock
  <2>4. ReadIsCurrent'
      BY <2>2 DEF ReadIsCurrent
  <2> QED
      BY <2>1, <2>2, <2>3, <2>4 DEF SpentOnce, IsSpending, Spending,
         IssuersAreBehind
<1>4. CASE MarkConsumed(s)
  <2>1. IssuanceTypeOK'
      BY <1>4 DEF IssuanceTypeOK, MarkConsumed, Task, Searching, UnderLock, Entry
  <2> DEFINE mine == searcher[s].id
  <2>2. /\ searcher[s].pc = "read" /\ searcher'[s].pc = "written"
        /\ searcher'[s].id = mine /\ mine \in Issuances
        /\ \A o \in Searchers : o # s => searcher'[o] = searcher[o]
        /\ UNCHANGED <<sealed, locked, issuer, calls, revived>>
      BY <1>4 DEF MarkConsumed, IssuanceTypeOK, Task
  <2>3. /\ index'[mine] = "CONSUMED" /\ (mine \notin revived => index[mine] # "CONSUMED")
        /\ \A i \in Issuances \ revived :
              i # mine => (index'[i] = "CONSUMED" <=> index[i] = "CONSUMED")
    <3>1. searcher[s].seen \in [Issuances -> Entry]
        BY DEF IssuanceTypeOK, Task
    <3>2. index' = [searcher[s].seen EXCEPT ![mine] = "CONSUMED"]
        BY <1>4 DEF MarkConsumed
    <3> QED
        BY <2>2, <3>1, <3>2 DEF ReadIsCurrent
  <2>4. OneUnderLock'
      BY <2>2 DEF OneUnderLock, UnderLock
  <2>5. \A o \in Searchers : searcher'[o].pc # "read"
      BY <2>2 DEF OneUnderLock, UnderLock
  <2>6. IssuersAreBehind'
      BY <2>2, <2>3 DEF IssuersAreBehind
  <2>7. SpentOnce'
    <3> SUFFICES ASSUME NEW i \in Issuances, i \notin revived
                 PROVE  SpentOnce!(i)'
        BY <2>2 DEF SpentOnce
    <3>1. CASE i = mine
      <4>1. \A o \in Searchers : ~ IsSpending(o, i)
          BY <2>3, <3>1 DEF SpentOnce
      <4> QED
          BY <2>2, <2>3, <3>1, <4>1 DEF SpentOnce, IsSpending
    <3>2. CASE i # mine
      <4>1. \A o \in Searchers : IsSpending(o, i)' <=> IsSpending(o, i)
          BY <2>2, <3>2 DEF IsSpending, Spending
      <4> QED
          BY <2>2, <2>3, <3>2, <4>1 DEF SpentOnce
    <3> QED
        BY <3>1, <3>2
  <2> QED
      BY <2>1, <2>4, <2>5, <2>6, <2>7 DEF ReadIsCurrent
<1>5. CASE VerifyConsumed(s)
  <2>1. IssuanceTypeOK'
      BY ZenonT(40), <1>5 DEF IssuanceTypeOK, VerifyConsumed, Task, Searching, UnderLock
  <2>2. /\ searcher[s].pc = "written" /\ searcher'[s].pc \in {"verified", "refused"}
        /\ searcher'[s].id = searcher[s].id
        /\ \A o \in Searchers : o # s => searcher'[o] = searcher[o]
        /\ UNCHANGED <<sealed, index, locked, issuer, calls, revived>>
      BY <1>5 DEF VerifyConsumed, IssuanceTypeOK, Task
  <2>3. \A o \in Searchers, i \in Issuances : IsSpending(o, i)' => IsSpending(o, i)
      BY <2>2 DEF IsSpending, Spending
  <2>4. OneUnderLock'
      BY <2>2 DEF OneUnderLock, UnderLock
  <2>5. ReadIsCurrent'
      BY <2>2 DEF ReadIsCurrent
  <2>6. SpentOnce'
      BY <2>2, <2>3 DEF SpentOnce
  <2> QED
      BY <2>1, <2>2, <2>4, <2>5, <2>6 DEF IssuersAreBehind
<1>6. CASE ReleaseLock(s)
  <2>1. IssuanceTypeOK'
      BY <1>6, NoTaskIsATask DEF IssuanceTypeOK, ReleaseLock, Task, Searching,
         UnderLock
  <2>2. /\ searcher[s].pc \in {"verified", "refused"}
        /\ \/ searcher'[s].pc = "idle"
           \/ /\ searcher[s].pc = "verified" /\ searcher'[s].pc = "consumed"
              /\ searcher'[s].id = searcher[s].id
        /\ \A o \in Searchers : o # s => searcher'[o] = searcher[o]
        /\ UNCHANGED <<sealed, index, issuer, calls, revived>>
      BY <1>6, NoTaskIsATask DEF ReleaseLock, IssuanceTypeOK, Task
  <2>3. \A o \in Searchers, i \in Issuances : IsSpending(o, i)' => IsSpending(o, i)
      BY <2>2 DEF IsSpending, Spending
  <2>4. OneUnderLock'
      BY <2>2 DEF OneUnderLock, UnderLock
  <2>5. ReadIsCurrent'
      BY <2>2 DEF ReadIsCurrent
  <2>6. SpentOnce'
      BY <2>2, <2>3 DEF SpentOnce
  <2> QED
      BY <2>1, <2>2, <2>4, <2>5, <2>6 DEF IssuersAreBehind
<1>7. CASE CallProvider(s)
  <2>1. IssuanceTypeOK'
      BY <1>7, NoTaskIsATask DEF IssuanceTypeOK, CallProvider
  <2> DEFINE mine == searcher[s].id
  <2>2. /\ searcher[s].pc = "consumed" /\ searcher'[s].pc = "idle"
        /\ mine \in Issuances
        /\ calls'[mine] = calls[mine] + 1
        /\ \A i \in Issuances : i # mine => calls'[i] = calls[i]
        /\ \A o \in Searchers : o # s => searcher'[o] = searcher[o]
        /\ UNCHANGED <<sealed, index, locked, issuer, revived>>
      BY <1>7, NoTaskIsATask DEF CallProvider, IssuanceTypeOK, Task
  <2>3. /\ IsSpending(s, mine) /\ ~ IsSpending(s, mine)'
        /\ \A o \in Searchers, i \in Issuances :
                IsSpending(o, i)' => IsSpending(o, i) /\ o # s
      BY <2>2 DEF IsSpending, Spending
  <2>4. OneUnderLock'
      BY <2>2 DEF OneUnderLock, UnderLock
  <2>5. ReadIsCurrent'
      BY <2>2 DEF ReadIsCurrent
  <2>6. SpentOnce'
    <3> SUFFICES ASSUME NEW i \in Issuances, i \notin revived
                 PROVE  SpentOnce!(i)'
        BY <2>2 DEF SpentOnce
    <3>1. CASE i = mine
        BY <2>2, <2>3, <3>1 DEF SpentOnce
    <3>2. CASE i # mine
        BY <2>2, <2>3, <3>2 DEF SpentOnce
    <3> QED
        BY <3>1, <3>2
  <2> QED
      BY <2>1, <2>2, <2>4, <2>5, <2>6 DEF IssuersAreBehind
<1> QED
    BY <1>1, <1>2, <1>3, <1>4, <1>5, <1>6, <1>7

(* A killed process takes nothing back; its lock stays.                       *)
LEMMA KillSearchStep == IssuanceInv /\ KillSearch => IssuanceInv'
<1> SUFFICES ASSUME IssuanceInv, KillSearch PROVE IssuanceInv'
    OBVIOUS
<1> USE DEF IssuanceInv
<1>1. IssuanceTypeOK'
    BY NoTaskIsATask DEF KillSearch, IssuanceTypeOK
<1>2. /\ \A p \in Issuers : issuer'[p] = issuer[p] \/ issuer'[p].pc = "idle"
      /\ \A s \in Searchers : searcher'[s] = searcher[s] \/ searcher'[s].pc = "idle"
      /\ UNCHANGED <<sealed, index, locked, calls, revived>>
    BY NoTaskIsATask DEF KillSearch, IssuanceTypeOK
<1>3. \A s \in Searchers, i \in Issuances : IsSpending(s, i)' => IsSpending(s, i)
    BY <1>2 DEF IsSpending, Spending
<1>4. OneUnderLock'
    BY <1>2 DEF OneUnderLock, UnderLock
<1>5. ReadIsCurrent' /\ IssuersAreBehind'
    BY <1>2 DEF ReadIsCurrent, IssuersAreBehind
<1>6. SpentOnce'
    BY <1>2, <1>3 DEF SpentOnce
<1> QED
    BY <1>1, <1>4, <1>5, <1>6

LEMMA IssuanceInvInductive == IssuanceInv /\ [IssuanceNext]_ivars => IssuanceInv'
<1>1. IssuanceInv /\ UNCHANGED ivars => IssuanceInv'
    BY DEF ivars, IssuanceInv, IssuanceTypeOK, OneUnderLock, ReadIsCurrent,
       IssuersAreBehind,
           SpentOnce, IsSpending
<1> QED
    BY <1>1, IssuerStep, SearcherStep, KillSearchStep DEF IssuanceNext

(* One permission, one call: a search calls the provider at most once under an *)
(* issuance that no issuer wrote back, for any number of issuers and searches *)
(* (consume_once against issue_trusted_trigger_issuance).                     *)
THEOREM SpentPermissionsStaySpent == IssuanceSpec => []OneCallUnlessRevived
<1>1. IssuanceInv => OneCallUnlessRevived
  <2> SUFFICES ASSUME IssuanceInv, NEW i \in Issuances \ revived
               PROVE  calls[i] <= 1 /\ (calls[i] = 1 => index[i] # "ISSUED")
      BY DEF OneCallUnlessRevived
  <2>1. calls[i] \in {0, 1} /\ (index[i] # "CONSUMED" => calls[i] = 0)
      BY DEF IssuanceInv, SpentOnce
  <2> QED
      BY <2>1
<1> QED
    BY <1>1, IssuanceStarts, IssuanceInvInductive, PTL DEF IssuanceSpec

-----------------------------------------------------------------------------
(* ResearchLedger: damage is bounded, replays tell the whole story            *)

(* The file is a sequence of whatever lines it holds, and a line that lacks   *)
(* its end is one of them.                                                    *)
LinesOf(lines) == {lines[i] : i \in DOMAIN lines}
IsFile(lines) == lines \in Seq(LinesOf(lines))
FileOK ==
    /\ IsFile(log)
    /\ cut => log # <<>>
    /\ DOMAIN appender = Appenders

(* What a write leaves of the file: all its lines, or all but the last.       *)
Kept == IF cut THEN Len(log) - 1 ELSE Len(log)
GoesOnFrom(new, old, n) ==
    /\ IsFile(new) /\ Len(new) = n + 1
    /\ \A i \in 1..n : new[i] = old[i]

LEMMA FileLength ==
  ASSUME NEW lines, IsFile(lines)
  PROVE  /\ Len(lines) \in Nat /\ DOMAIN lines = 1..Len(lines)
         /\ (lines # <<>> => Len(lines) > 0)
         /\ (lines = <<>> => Len(lines) = 0)
BY LenProperties, EmptySeq DEF IsFile

LEMMA SomeSeqIsFile ==
  ASSUME NEW S, NEW lines \in Seq(S)
  PROVE  IsFile(lines)
<1>1. /\ Len(lines) \in Nat /\ lines \in [1..Len(lines) -> S]
    BY LenProperties
<1>2. lines \in [1..Len(lines) -> LinesOf(lines)]
    BY <1>1 DEF LinesOf
<1> QED
    BY <1>1, <1>2, SeqDef DEF IsFile

(* A write leaves the lines before it.                                        *)
LEMMA WrittenBehind ==
  ASSUME FileOK, NEW written
  PROVE  /\ Kept \in 0..Len(log)
         /\ GoesOnFrom(Lines(written), log, Kept)
<1> DEFINE S == LinesOf(log) \cup {written, NoRecord}
<1>1. /\ log \in Seq(S) /\ Len(log) \in Nat
      /\ log # <<>> => Len(log) > 0
    BY FileLength, SeqMonotonic DEF FileOK, IsFile
<1>2. CASE cut
  <2> DEFINE new == [log EXCEPT ![Len(log)] = NoRecord]
  <2>1. Len(log) \in 1..Len(log) /\ NoRecord \in S
      BY <1>1, <1>2 DEF FileOK
  <2> HIDE DEF S
  <2>2. /\ new \in Seq(S) /\ Len(new) = Len(log)
        /\ \A j \in 1..Len(log) : new[j] = IF j = Len(log) THEN NoRecord ELSE log[j]
      BY <1>1, <2>1, ExceptSeq
  <2> HIDE DEF new
  <2>3. IsFile(new) /\ Lines(written) = new
      BY <1>2, <2>2, SomeSeqIsFile DEF Lines, new
  <2>4. Kept = Len(log) - 1
      BY <1>2 DEF Kept
  <2> QED
      BY <1>1, <2>1, <2>2, <2>3, <2>4 DEF GoesOnFrom
<1>3. CASE ~ cut
  <2> DEFINE new == Append(log, written)
  <2>1. written \in S
      OBVIOUS
  <2> HIDE DEF S
  <2>2. /\ new \in Seq(S) /\ Len(new) = Len(log) + 1
        /\ \A j \in 1..Len(log) : new[j] = log[j]
      BY <1>1, <2>1, AppendProperties
  <2> HIDE DEF new
  <2>3. IsFile(new) /\ Lines(written) = new
      BY <1>3, <2>2, SomeSeqIsFile DEF Lines, new
  <2>4. Kept = Len(log)
      BY <1>3 DEF Kept
  <2> QED
      BY <1>1, <2>2, <2>3, <2>4 DEF GoesOnFrom
<1> QED
    BY <1>2, <1>3

(* A step of an appender either leaves the file, or writes behind it.         *)
FileStays == UNCHANGED <<log, cut>>
FileGoesOn == \E written : log' = Lines(written)

LEMMA AppenderSteps ==
  ASSUME FileOK, [LedgerNext]_gvars
  PROVE  /\ FileOK'
         /\ FileStays \/ FileGoesOn
<1>1. CASE UNCHANGED gvars
    BY <1>1 DEF gvars, FileOK, FileStays, IsFile, LinesOf
<1>2. ASSUME NEW p \in Appenders, NEW event \in Writings, ReadToAppend(p, event)
      PROVE  FileOK' /\ FileStays
    BY <1>2 DEF ReadToAppend, FileOK, FileStays, IsFile, LinesOf
<1>3. ASSUME NEW p \in Appenders, WriteLine(p)
      PROVE  FileOK' /\ FileGoesOn
  <2>1. IsFile(Lines(appender[p]))
      BY WrittenBehind DEF GoesOnFrom
  <2> QED
      BY <1>3, <2>1 DEF WriteLine, FileOK, FileGoesOn, IsFile, LinesOf
<1>4. ASSUME NEW p \in Appenders, KillAppender(p)
      PROVE  FileOK' /\ (FileStays \/ FileGoesOn)
  <2>1. CASE UNCHANGED <<log, cut>>
      BY <1>4, <2>1 DEF KillAppender, FileOK, FileStays, IsFile, LinesOf
  <2>2. CASE log' \in {Lines(NoRecord), Lines(appender[p])} /\ cut' = TRUE
    <3>1. PICK written : log' = Lines(written)
        BY <2>2
    <3>2. /\ GoesOnFrom(Lines(written), log, Kept) /\ Kept \in 0..Len(log)
          /\ Len(log) \in Nat
        BY WrittenBehind, FileLength DEF FileOK
    <3>3. IsFile(log') /\ Len(log') = Kept + 1
        BY <3>1, <3>2 DEF GoesOnFrom
    <3>4. log' # <<>>
        BY <3>2, <3>3, FileLength
    <3> QED
        BY <1>4, <3>1, <3>3, <3>4 DEF KillAppender, FileOK, FileGoesOn, IsFile,
           LinesOf
  <2> QED
      BY <1>4, <2>1, <2>2 DEF KillAppender
<1> QED
    BY <1>1, <1>2, <1>3, <1>4 DEF LedgerNext

-----------------------------------------------------------------------------
(* The first n lines are numbered, chained and whole.                         *)
ChainedTo(lines, n) ==
    \A i \in 1..n :
        /\ lines[i] # NoRecord
        /\ lines[i].seq = i
        /\ lines[i].prev = IF i = 1 THEN NoRecord ELSE lines[i - 1]

(* The chain of the first lines, without SubSeq.                              *)
LEMMA ChainedIsChainedTo ==
  ASSUME NEW lines, IsFile(lines)
  PROVE  /\ Chained(lines) <=> ChainedTo(lines, Len(lines))
         /\ \A n \in 0..Len(lines) : Chained(SubSeq(lines, 1, n)) <=> ChainedTo(lines, n)
<1>1. Chained(lines) <=> ChainedTo(lines, Len(lines))
    BY FileLength DEF Chained, ChainedTo
<1>2. ASSUME NEW n \in 0..Len(lines)
      PROVE  Chained(SubSeq(lines, 1, n)) <=> ChainedTo(lines, n)
  <2> DEFINE part == SubSeq(lines, 1, n)
  <2>1. n \in Int /\ n >= 0 /\ Len(lines) \in Nat /\ DOMAIN lines = 1..Len(lines)
      BY FileLength
  <2>2. \A i \in 1..n : lines[i] \in LinesOf(lines)
      BY <2>1 DEF LinesOf
  <2>3. /\ part \in Seq(LinesOf(lines))
        /\ Len(part) = IF 1 <= n THEN n - 1 + 1 ELSE 0
        /\ \A i \in 1..n - 1 + 1 : part[i] = lines[1 + i - 1]
      BY <2>1, <2>2, SubSeqProperties
  <2> HIDE DEF part
  <2>4. DOMAIN part = 1..n
      BY <2>1, <2>3, LenProperties
  <2>5. \A i \in 1..n : part[i] = lines[i]
      BY <2>1, <2>3
  <2>6. Chained(part) <=> ChainedTo(lines, n)
      BY <2>1, <2>4, <2>5 DEF Chained, ChainedTo
  <2> QED
      BY <2>6 DEF part
<1> QED
    BY <1>1, <1>2

(* Appenders that have read and not yet written.                              *)
Busy == {p \in Appenders : appender[p] # NoRecord}

(* Behind a chain of n lines there are no more others than appenders have     *)
(* written since it broke.                                                    *)
SpoiltBy(n) ==
    /\ ChainedTo(log, n)
    /\ Len(log) - n + Cardinality(Busy) <= Cardinality(Appenders)
ChainOrSpoilt ==
    \/ ChainedTo(log, Len(log))
    \/ \E n \in 0..Len(log) : SpoiltBy(n)

LEMMA BusyIsFinite ==
  IsFiniteSet(Busy) /\ Cardinality(Busy) \in Nat /\ Cardinality(Appenders) \in Nat
    /\ Cardinality(Busy) <= Cardinality(Appenders)
<1>1. Busy \subseteq Appenders
    BY DEF Busy
<1> QED
    BY <1>1, AppendersAreFinite, FS_Subset, FS_CardinalityType

(* An appender that writes or dies is busy no more.                           *)
LEMMA OneBusyLess ==
  ASSUME FileOK, NEW p \in Appenders, appender[p] # NoRecord,
         appender' = [appender EXCEPT ![p] = NoRecord]
  PROVE  Cardinality(Busy') = Cardinality(Busy) - 1
<1>1. Busy' = Busy \ {p} /\ p \in Busy
    BY DEF Busy, FileOK
<1> QED
    BY <1>1, BusyIsFinite, FS_RemoveElement

(* From a broken chain nobody goes on: only those that had read before it broke *)
(* write behind it, each once.                                                *)
LEMMA DamageStep ==
  ASSUME FileOK, ChainOrSpoilt, [LedgerNext]_gvars
  PROVE  ChainOrSpoilt'
<1>0. Len(log) \in Nat
    BY FileLength DEF FileOK
<1>1. CASE UNCHANGED gvars
    BY <1>1 DEF gvars, ChainOrSpoilt, SpoiltBy, ChainedTo, Busy
<1>2. ASSUME NEW p \in Appenders, NEW event \in Writings, ReadToAppend(p, event)
      PROVE  ChainOrSpoilt'
  <2>1. ChainedTo(log, Len(log))
      BY <1>2, ChainedIsChainedTo DEF ReadToAppend, FileOK
  <2> QED
      BY <1>2, <2>1 DEF ReadToAppend, ChainOrSpoilt, ChainedTo
<1>3. ASSUME NEW p \in Appenders, appender[p] # NoRecord,
             appender' = [appender EXCEPT ![p] = NoRecord],
             (UNCHANGED log) \/ FileGoesOn
      PROVE  ChainOrSpoilt'
  <2>1. /\ Cardinality(Busy') = Cardinality(Busy) - 1
        /\ Cardinality(Busy) \in Nat /\ Cardinality(Appenders) \in Nat
        /\ Cardinality(Busy) <= Cardinality(Appenders)
      BY <1>3, OneBusyLess, BusyIsFinite
  <2>2. CASE UNCHANGED log
    <3>1. CASE ChainedTo(log, Len(log))
        BY <2>2, <3>1 DEF ChainOrSpoilt, ChainedTo
    <3>2. ASSUME NEW n \in 0..Len(log), SpoiltBy(n)
          PROVE  ChainOrSpoilt'
      <4>1. /\ ChainedTo(log', n) /\ n \in 0..Len(log') /\ Len(log') \in Nat
            /\ n \in Nat
          BY <1>0, <2>2, <3>2 DEF SpoiltBy, ChainedTo
      <4>2. Len(log') - n + Cardinality(Busy') <= Cardinality(Appenders)
          BY <1>0, <2>1, <2>2, <3>2 DEF SpoiltBy
      <4> QED
          BY <4>1, <4>2 DEF ChainOrSpoilt, SpoiltBy
    <3> QED
        BY <3>1, <3>2 DEF ChainOrSpoilt
  <2>3. CASE FileGoesOn
    <3>1. /\ Kept \in 0..Len(log) /\ GoesOnFrom(log', log, Kept)
        BY <2>3, WrittenBehind DEF FileGoesOn
    <3>2. Len(log') = Kept + 1 /\ Kept \in Nat
        BY <1>0, <3>1 DEF GoesOnFrom
    <3>3. ASSUME NEW n \in 0..Kept, ChainedTo(log, n)
          PROVE  ChainedTo(log', n)
      <4>1. \A i \in 1..n : log'[i] = log[i]
          BY <1>0, <3>1 DEF GoesOnFrom
      <4> QED
          BY <3>3, <4>1, <3>2 DEF ChainedTo
    <3>4. CASE ChainedTo(log, Len(log))
      <4>1. ChainedTo(log, Kept)
          BY <1>0, <3>1, <3>4 DEF ChainedTo
      <4>2. ChainedTo(log', Kept) /\ Kept \in 0..Len(log')
          BY <3>2, <3>3, <4>1
      <4>3. Len(log') - Kept + Cardinality(Busy') <= Cardinality(Appenders)
          BY <2>1, <3>2
      <4> DEFINE n == Kept
      <4> HIDE DEF n
      <4> QED
          BY <4>2, <4>3 DEF ChainOrSpoilt, SpoiltBy
    <3>5. ASSUME NEW n \in 0..Len(log), SpoiltBy(n), ~ ChainedTo(log, Len(log))
          PROVE  ChainOrSpoilt'
      <4>1. n # Len(log) /\ ChainedTo(log, n) /\ n \in Nat
          BY <1>0, <3>5 DEF SpoiltBy
      <4>2. n \in 0..Kept /\ Len(log') <= Len(log) + 1
          BY <1>0, <3>2, <4>1 DEF Kept
      <4>3. ChainedTo(log', n) /\ n \in 0..Len(log')
          BY <3>2, <3>3, <4>1, <4>2
      <4>4. Len(log') - n + Cardinality(Busy') <= Cardinality(Appenders)
          BY <1>0, <2>1, <3>2, <3>5, <4>1, <4>2 DEF SpoiltBy
      <4> QED
          BY <4>3, <4>4 DEF ChainOrSpoilt, SpoiltBy
    <3> QED
        BY <3>4, <3>5 DEF ChainOrSpoilt
  <2> QED
      BY <1>3, <2>2, <2>3
<1>4. ASSUME NEW p \in Appenders, WriteLine(p) \/ KillAppender(p)
      PROVE  ChainOrSpoilt'
    BY <1>3, <1>4 DEF WriteLine, KillAppender, FileGoesOn
<1> QED
    BY <1>1, <1>2, <1>4 DEF LedgerNext

(* Appenders that overlap or die leave at most one bad line each behind the   *)
(* last line that every reader accepts (append_event).                        *)
THEOREM SpoiltLinesAreFew == LedgerSpec => []DamageIsBounded
<1> DEFINE Inv == FileOK /\ ChainOrSpoilt
<1>1. LedgerInit => Inv
  <2> SUFFICES ASSUME LedgerInit PROVE Inv
      OBVIOUS
  <2>1. log = <<>> /\ Len(log) = 0 /\ IsFile(log)
      BY EmptySeq DEF LedgerInit, IsFile
  <2> QED
      BY <2>1 DEF LedgerInit, FileOK, ChainOrSpoilt, ChainedTo
<1>2. Inv /\ [LedgerNext]_gvars => Inv'
    BY AppenderSteps, DamageStep
<1>3. Inv => DamageIsBounded
  <2> SUFFICES ASSUME Inv PROVE DamageIsBounded
      OBVIOUS
  <2>0. Len(log) \in Nat /\ IsFile(log)
      BY FileLength DEF FileOK
  <2>1. CASE ChainedTo(log, Len(log))
      BY <2>0, <2>1, ChainedIsChainedTo, BusyIsFinite DEF DamageIsBounded
  <2>2. ASSUME NEW n \in 0..Len(log), SpoiltBy(n)
        PROVE  DamageIsBounded
    <3>1. Chained(SubSeq(log, 1, n))
        BY <2>0, <2>2, ChainedIsChainedTo DEF SpoiltBy
    <3>2. Len(log) - n <= Cardinality(Appenders)
        BY <2>0, <2>2, BusyIsFinite DEF SpoiltBy
    <3> QED
        BY <3>1, <3>2 DEF DamageIsBounded
  <2> QED
      BY <2>1, <2>2 DEF ChainOrSpoilt
<1> HIDE DEF Inv
<1> QED
    BY <1>1, <1>2, <1>3, PTL DEF LedgerSpec

-----------------------------------------------------------------------------
(* f is the run of the replay of one gap over these lines: its state after    *)
(* each of them.                                                              *)
StateAfter(s, event, gap) ==
    IF event.gap # gap \/ event.to = "PROPOSED" THEN s
    ELSE IF Permitted(s, event) THEN event.to ELSE "REFUSED"

IsRunTo(f, lines, n, gap) ==
    /\ f[0] = "NONE"
    /\ \A i \in 1..n : f[i] = StateAfter(f[i - 1], lines[i].event, gap)

IsRun(f, lines, gap) ==
    f = [i \in 0..Len(lines) |-> IF i = 0 THEN "NONE" 
                              ELSE StateAfter(f[i - 1], lines[i].event, gap)]

(* The run so far, and one line more.                                         *)
LEMMA RunGoesOn ==
  ASSUME NEW old, NEW new, NEW n \in Nat, n <= Len(old), Len(old) \in Nat,
         Len(new) = n + 1, \A i \in 1..n : new[i] = old[i],
         NEW gap, NEW f, IsRun(f, old, gap)
  PROVE  \E g : IsRun(g, new, gap)
<1> DEFINE last == StateAfter(f[n], new[n + 1].event, gap)
           g == [i \in 0..n + 1 |-> IF i = n + 1 THEN last ELSE f[i]]
           h == [i \in 0..Len(new) |-> IF i = 0 THEN "NONE"
                                       ELSE StateAfter(g[i - 1], new[i].event, gap)]
<1>1. /\ g[n + 1] = last /\ \A i \in 0..n : g[i] = f[i]
    BY DEF last
<1>2. f[0] = "NONE" /\ \A i \in 1..n : f[i] = StateAfter(f[i - 1], old[i].event, gap)
    BY DEF IsRun
<1>3. g = [i \in 0..n + 1 |-> g[i]] /\ h = [i \in 0..n + 1 |-> h[i]]
    OBVIOUS
<1>4. ASSUME NEW i \in 0..n + 1
      PROVE  h[i] = IF i = 0 THEN "NONE" ELSE StateAfter(g[i - 1], new[i].event, gap)
    BY <1>4
<1> HIDE DEF g, h
<1>5. ASSUME NEW i \in 0..n + 1
      PROVE  g[i] = h[i]
  <2>1. CASE i = 0
      BY <1>1, <1>2, <1>4, <2>1
  <2>2. CASE i \in 1..n
    <3>1. i # 0 /\ i \in 0..n /\ i - 1 \in 0..n
        BY ONLY n \in Nat, <2>2
    <3>2. g[i] = f[i] /\ g[i - 1] = f[i - 1]
        BY ONLY <1>1, <3>1
    <3>3. new[i] = old[i]
        BY ONLY <2>2, \A j \in 1..n : new[j] = old[j]
    <3>4. f[i] = StateAfter(f[i - 1], old[i].event, gap)
        BY ONLY <1>2, <2>2
    <3>5. h[i] = StateAfter(g[i - 1], new[i].event, gap)
        BY <1>4, <3>1
    <3> QED
        BY <3>2, <3>3, <3>4, <3>5
  <2>3. CASE i = n + 1
    <3>1. i # 0 /\ i - 1 = n /\ n \in 0..n
        BY ONLY n \in Nat, <2>3
    <3>2. g[i - 1] = f[n]
        BY ONLY <1>1, <3>1
    <3> QED
        BY <1>1, <1>4, <2>3, <3>1, <3>2
  <2> QED
      BY <2>1, <2>2, <2>3
<1>6. g = h
    BY <1>3, <1>5
<1>7. IsRun(g, new, gap)
    BY <1>6 DEF IsRun, h
<1> QED
    BY <1>7

(* What a replayed state says of the events before it.                        *)
MovesUpTo(lines, n, gap) == 
    {i \in 1..n : lines[i].event.gap = gap /\ lines[i].event.to # "PROPOSED"}
RetiredIsLast(lines, events) ==
    \A i, j \in events : lines[i].event.to = "RETIRED" => j <= i
Begun(lines, events, s, k) ==
    \E i \in events :
        /\ i <= k /\ lines[i].event.to = "OPEN"
        /\ s \in {"INVESTIGATING", "PARTIALLY_RESOLVED", "RESOLVED"} =>
              \E j \in events :
                 /\ i < j /\ j <= k /\ lines[j].event.to = "INVESTIGATING"
                 /\ s = "RESOLVED" => j < k
Traced(lines, events, s, k) ==
    /\ lines[k].event.to = s /\ \A other \in events : other <= k
    /\ s = "RESOLVED" => lines[k].event.evidence
    /\ Begun(lines, events, s, k)
Told(lines, n, gap, s) ==
    LET events == MovesUpTo(lines, n, gap)
    IN  /\ s \in DOMAIN Transitions
        /\ s = "NONE" => events = {}
        /\ s \notin {"NONE", "REFUSED"} => \E k \in events : Traced(lines, events, s, k)
        /\ s # "REFUSED" => RetiredIsLast(lines, events)

LEMMA TransitionsAre ==
  /\ DOMAIN Transitions = {"NONE", "OPEN", "INVESTIGATING", "PARTIALLY_RESOLVED", "RESOLVED",
                           "ACCEPTED_UNKNOWN", "RETIRED", "REFUSED"}
  /\ Transitions["NONE"] = {"OPEN"}
  /\ Transitions["OPEN"] = {"INVESTIGATING", "ACCEPTED_UNKNOWN", "RETIRED"}
  /\ Transitions["INVESTIGATING"] =
        {"PARTIALLY_RESOLVED", "RESOLVED", "ACCEPTED_UNKNOWN", "RETIRED"}
  /\ Transitions["PARTIALLY_RESOLVED"] =
        {"INVESTIGATING", "RESOLVED", "ACCEPTED_UNKNOWN", "RETIRED"}
  /\ Transitions["RESOLVED"] = {"INVESTIGATING", "RETIRED"}
  /\ Transitions["ACCEPTED_UNKNOWN"] = {"INVESTIGATING", "RETIRED"}
  /\ Transitions["RETIRED"] = {} /\ Transitions["REFUSED"] = {}
BY DEF Transitions, Final

LEMMA EventsOfOneMore ==
  ASSUME NEW lines, NEW n \in Nat, NEW gap
  PROVE  MovesUpTo(lines, n + 1, gap) =
            MovesUpTo(lines, n, gap) \cup
            (IF lines[n + 1].event.gap = gap /\ lines[n + 1].event.to # "PROPOSED"
             THEN {n + 1} ELSE {})
BY DEF MovesUpTo

(* What one more line does to what a state says.                              *)
LEMMA StoryGoesOn ==
  ASSUME NEW lines, NEW n \in Nat, NEW gap, NEW s, Told(lines, n, gap, s)
  PROVE  Told(lines, n + 1, gap, StateAfter(s, lines[n + 1].event, gap))
<1> DEFINE e == lines[n + 1].event
           t == StateAfter(s, e, gap)
           before == MovesUpTo(lines, n, gap)
           after == MovesUpTo(lines, n + 1, gap)
<1>1. CASE e.gap # gap \/ e.to = "PROPOSED"
  <2>1. after = before \cup {}
      BY <1>1, EventsOfOneMore
  <2>2. t = s
      BY <1>1 DEF StateAfter
  <2> HIDE DEF t, before, after
  <2>3. after = before
      BY <2>1
  <2>4. Told(lines, n + 1, gap, t)
      BY <2>2, <2>3 DEF Told, before, after
  <2> QED
      BY <2>4 DEF t
<1>2. CASE e.gap = gap /\ e.to # "PROPOSED" /\ ~ Permitted(s, e)
  <2>1. t = "REFUSED"
      BY <1>2 DEF StateAfter
  <2> QED
      BY <2>1, TransitionsAre DEF Told
<1>3. CASE e.gap = gap /\ e.to # "PROPOSED" /\ Permitted(s, e)
  <2>1. /\ t = e.to /\ after = before \cup {n + 1} /\ before \subseteq 1..n
        /\ n + 1 \in after
      BY <1>3, EventsOfOneMore DEF StateAfter, MovesUpTo
  <2>2. t \in Transitions[s] /\ (t = "RESOLVED" => e.evidence)
      BY <1>3, <2>1 DEF Permitted
  <2>3. s \in DOMAIN Transitions
      BY DEF Told
  <2> HIDE DEF t, e
  <2>4. /\ t \in DOMAIN Transitions \ {"NONE", "REFUSED"}
        /\ s \notin {"RETIRED", "REFUSED"}
        /\ s = "NONE" <=> t = "OPEN"
        /\ t \in {"PARTIALLY_RESOLVED", "RESOLVED"} =>
              s \in {"INVESTIGATING", "PARTIALLY_RESOLVED"}
      BY <2>2, <2>3, TransitionsAre
  <2>5. lines[n + 1].event.to = t /\ (t = "RESOLVED" => lines[n + 1].event.evidence)
      BY <2>1, <2>2 DEF e
  <2> HIDE DEF before, after
  <2>6. \A other \in after : other <= n + 1 /\ other \in Nat
      BY <2>1
  <2>7. RetiredIsLast(lines, after)
    <3>1. \A i \in before : lines[i].event.to # "RETIRED"
      <4>1. CASE s = "NONE"
          BY <4>1 DEF Told, before
      <4>2. CASE s # "NONE"
        <5>1. PICK k \in before : Traced(lines, before, s, k)
            BY <2>4, <4>2 DEF Told, before
        <5>2. RetiredIsLast(lines, before)
            BY <2>4 DEF Told, before
        <5>3. \A i \in before : i <= k /\ i \in Nat /\ lines[k].event.to = s
            BY <2>1, <5>1 DEF Traced
        <5>4. ASSUME NEW i \in before, lines[i].event.to = "RETIRED"
              PROVE  FALSE
          <6>1. k <= i /\ i <= k /\ i \in Nat /\ k \in Nat
              BY <5>2, <5>3, <5>4 DEF RetiredIsLast
          <6> QED
              BY <2>4, <5>3, <5>4, <6>1
        <5> QED
            BY <5>4
      <4> QED
          BY <4>1, <4>2
    <3> QED
        BY <2>1, <2>6, <3>1 DEF RetiredIsLast
  <2>8. Begun(lines, after, t, n + 1)
    <3>1. CASE s = "NONE"
      <4>1. t = "OPEN"
          BY <2>4, <3>1
      <4> QED
          BY <2>1, <2>5, <4>1 DEF Begun
    <3>2. CASE s # "NONE"
      <4>1. PICK k \in before : Traced(lines, before, s, k)
          BY <2>4, <3>2 DEF Told, before
      <4>2. PICK i \in before :
              /\ i <= k /\ lines[i].event.to = "OPEN"
              /\ s \in {"INVESTIGATING", "PARTIALLY_RESOLVED", "RESOLVED"} =>
                    \E j \in before :
                       /\ i < j /\ j <= k /\ lines[j].event.to = "INVESTIGATING"
                       /\ s = "RESOLVED" => j < k
          BY <4>1 DEF Traced, Begun
      <4>3. /\ i \in after /\ i < n + 1 /\ i <= n + 1
            /\ \A j \in before : j \in after /\ j < n + 1 /\ j <= n + 1
          BY <2>1
      <4>4. CASE t = "INVESTIGATING"
        <5>1. /\ n + 1 \in after /\ i < n + 1 /\ n + 1 <= n + 1
              /\ lines[n + 1].event.to = "INVESTIGATING" /\ t # "RESOLVED"
            BY <2>1, <2>5, <4>3, <4>4
        <5> QED
            BY <4>2, <4>3, <5>1 DEF Begun
      <4>5. CASE t \in {"PARTIALLY_RESOLVED", "RESOLVED"}
        <5>1. PICK j \in before : i < j /\ lines[j].event.to = "INVESTIGATING"
            BY <2>4, <4>2, <4>5
        <5> QED
            BY <4>2, <4>3, <5>1 DEF Begun
      <4>6. CASE t \notin {"INVESTIGATING", "PARTIALLY_RESOLVED", "RESOLVED"}
          BY <4>2, <4>3, <4>6 DEF Begun
      <4> QED
          BY <4>4, <4>5, <4>6
    <3> QED
        BY <3>1, <3>2
  <2>9. Traced(lines, after, t, n + 1)
      BY <2>5, <2>6, <2>8 DEF Traced
  <2>10. Told(lines, n + 1, gap, t)
      BY <2>1, <2>4, <2>7, <2>9 DEF Told, after
  <2> QED
      BY <2>10 DEF t, e
<1> QED
    BY <1>1, <1>2, <1>3

(* The replay has a run, and every run tells the story.                       *)
RunsTell ==
    \A gap \in Gaps :
        /\ \E f : IsRun(f, log, gap)
        /\ \A n \in 0..Len(log) : \A f :
              IsRunTo(f, log, n, gap) => Told(log, n, gap, f[n])

(* One line more: the run goes on by one state, and the story with it.        *)
LEMMA ReplayStep ==
  ASSUME FileOK, RunsTell, FileGoesOn
  PROVE  RunsTell'
<1>1. /\ Len(log) \in Nat /\ Kept \in 0..Len(log) /\ GoesOnFrom(log', log, Kept)
    BY FileLength, WrittenBehind DEF FileOK, FileGoesOn
<1>2. PICK m \in Nat : m = Kept /\ m <= Len(log)
    BY <1>1
<1>3. Len(log') = m + 1 /\ \A i \in 1..m : log'[i] = log[i]
    BY <1>1, <1>2 DEF GoesOnFrom
<1> SUFFICES ASSUME NEW gap \in Gaps
             PROVE  /\ \E f : IsRun(f, log', gap)
                    /\ \A n \in 0..Len(log') : \A f :
                          IsRunTo(f, log', n, gap) => Told(log', n, gap, f[n])
    BY DEF RunsTell, IsRun, IsRunTo, Told, MovesUpTo
<1>4. \E f : IsRun(f, log', gap)
    BY <1>1, <1>2, <1>3, RunGoesOn DEF RunsTell
<1>5. ASSUME NEW n \in 0..m, NEW f, IsRunTo(f, log', n, gap)
      PROVE  Told(log', n, gap, f[n])
  <2>1. n \in 0..Len(log) /\ \A i \in 1..n : log'[i] = log[i]
      BY <1>1, <1>2, <1>3
  <2>2. IsRunTo(f, log, n, gap)
      BY <1>5, <2>1 DEF IsRunTo
  <2>3. Told(log, n, gap, f[n])
      BY <2>1, <2>2 DEF RunsTell
  <2>4. /\ MovesUpTo(log', n, gap) = MovesUpTo(log, n, gap)
        /\ MovesUpTo(log, n, gap) \subseteq 1..n
      BY <2>1 DEF MovesUpTo
  <2> QED
      BY <2>1, <2>3, <2>4 DEF Told, Traced, Begun, RetiredIsLast
<1>6. ASSUME NEW f, IsRunTo(f, log', m + 1, gap)
      PROVE  Told(log', m + 1, gap, f[m + 1])
  <2>1. /\ IsRunTo(f, log', m, gap)
        /\ f[m + 1] = StateAfter(f[m], log'[m + 1].event, gap)
      BY <1>6 DEF IsRunTo
  <2>2. Told(log', m, gap, f[m])
      BY <1>5, <2>1
  <2> QED
      BY <2>1, <2>2, StoryGoesOn
<1>7. \A n \in 0..Len(log') : n \in 0..m \/ n = m + 1
    BY <1>3
<1> QED
    BY <1>4, <1>5, <1>6, <1>7

LEMMA RunsOfSameFile ==
  ASSUME RunsTell, log' = log
  PROVE  RunsTell'
<1> SUFFICES ASSUME NEW gap \in Gaps
             PROVE  /\ \E f : IsRun(f, log', gap)
                    /\ \A n \in 0..Len(log') : \A f :
                          IsRunTo(f, log', n, gap) => Told(log', n, gap, f[n])
    BY DEF RunsTell, IsRun, IsRunTo, Told, MovesUpTo
<1> QED
    BY DEF RunsTell

(* What a replay reports was recorded in the permitted order, for a ledger of any *)
(* length.  The replay is a recursion over the lines; the induction over them is *)
(* that of the steps which wrote them (replay_ledger).                        *)
THEOREM ReplaysTellTheStory == LedgerSpec => []ReplayTellsTheWholeStory
<1> DEFINE Inv == FileOK /\ RunsTell
<1>1. LedgerInit => Inv
  <2> SUFFICES ASSUME LedgerInit PROVE Inv
      OBVIOUS
  <2>1. log = <<>> /\ Len(log) = 0 /\ IsFile(log)
      BY EmptySeq DEF LedgerInit, IsFile
  <2>2. FileOK
      BY <2>1 DEF LedgerInit, FileOK
  <2>3. ASSUME NEW gap \in Gaps PROVE \E f : IsRun(f, log, gap)
    <3> DEFINE f == [i \in 0..Len(log) |-> "NONE"]
    <3>1. IsRun(f, log, gap)
        BY <2>1 DEF IsRun
    <3> QED
        BY <3>1
  <2>4. ASSUME NEW gap \in Gaps, NEW n \in 0..Len(log), NEW f, IsRunTo(f, log, n, gap)
        PROVE  Told(log, n, gap, f[n])
    <3>1. n = 0 /\ f[n] = "NONE" /\ MovesUpTo(log, n, gap) = {}
        BY <2>1, <2>4 DEF IsRunTo, MovesUpTo
    <3> QED
        BY <3>1, TransitionsAre DEF Told, RetiredIsLast
  <2> QED
      BY <2>2, <2>3, <2>4 DEF RunsTell
<1>2. Inv /\ [LedgerNext]_gvars => Inv'
  <2> SUFFICES ASSUME Inv, [LedgerNext]_gvars PROVE Inv'
      OBVIOUS
  <2>1. CASE FileStays
      BY <2>1, AppenderSteps, RunsOfSameFile DEF FileStays
  <2>2. CASE FileGoesOn
      BY <2>2, AppenderSteps, ReplayStep
  <2> QED
      BY <2>1, <2>2, AppenderSteps
<1>3. Inv => ReplayTellsTheWholeStory
  <2> SUFFICES ASSUME Inv, NEW gap \in Gaps
               PROVE  /\ Replay(gap) = "RESOLVED" => \E i, j, k \in MovesOf(gap) :
                           /\ i < j /\ j < k
                           /\ log[i].event.to = "OPEN"
                           /\ log[j].event.to = "INVESTIGATING"
                           /\ log[k].event.to = "RESOLVED" /\ log[k].event.evidence
                           /\ \A other \in MovesOf(gap) : other <= k
                      /\ Replay(gap) # "REFUSED" => \A i, j \in MovesOf(gap) :
                           log[i].event.to = "RETIRED" => j <= i
      BY DEF ReplayTellsTheWholeStory
  <2>1. Len(log) \in Nat /\ DOMAIN log = 1..Len(log)
      BY FileLength DEF FileOK
  <2>2. MovesOf(gap) = MovesUpTo(log, Len(log), gap)
      BY <2>1 DEF MovesOf, MovesUpTo
  <2>3. PICK f : IsRun(f, log, gap) /\ Replay(gap) = f[Len(log)]
    <3> DEFINE state == CHOOSE state : IsRun(state, log, gap)
    <3>1. IsRun(state, log, gap)
        BY DEF RunsTell
    <3>2. Replay(gap) = state[Len(log)]
        BY DEF Replay, IsRun, StateAfter
    <3> QED
        BY <3>1, <3>2
  <2>4. IsRunTo(f, log, Len(log), gap)
      BY <2>1, <2>3 DEF IsRun, IsRunTo
  <2>5. Told(log, Len(log), gap, Replay(gap))
      BY <2>1, <2>3, <2>4 DEF RunsTell
  <2>6. ASSUME Replay(gap) = "RESOLVED"
        PROVE  \E i, j, k \in MovesOf(gap) :
                  /\ i < j /\ j < k
                  /\ log[i].event.to = "OPEN" /\ log[j].event.to = "INVESTIGATING"
                  /\ log[k].event.to = "RESOLVED" /\ log[k].event.evidence
                  /\ \A other \in MovesOf(gap) : other <= k
    <3>1. PICK k \in MovesOf(gap) : Traced(log, MovesOf(gap), "RESOLVED", k)
        BY <2>2, <2>5, <2>6 DEF Told
    <3> QED
        BY <3>1 DEF Traced, Begun
  <2>7. Replay(gap) # "REFUSED" => RetiredIsLast(log, MovesOf(gap))
      BY <2>2, <2>5 DEF Told
  <2> QED
      BY <2>6, <2>7 DEF RetiredIsLast
<1> HIDE DEF Inv
<1> QED
    BY <1>1, <1>2, <1>3, PTL DEF LedgerSpec

-----------------------------------------------------------------------------
(* ShadowBrief: what is shown can be traced                                   *)

Points == {"read", "compose", "look", "file", "latest"}

RunnersAreRecords ==
    /\ run = [r \in Runners |-> run[r]]
    /\ \A r \in Runners : run[r] = Idle \/
          /\ run[r].pc \in Points
          /\ run[r] = [pc |-> run[r].pc, no |-> run[r].no, type |-> run[r].type,
                       day |-> run[r].day, given |-> run[r].given,
                       baseline |-> run[r].baseline]

(* What was validated, and what else the brief's contract asked.              *)
Admitted(b) ==
    /\ b.given \in DOMAIN Deliveries /\ b.day \in Days
    /\ Validated(b.type, b.day, Packets(b))
Composed(b) ==
    /\ BriefIsSound(Packets(b))
    /\ b.no # 0 => LiveEvidence(b.type, Packets(b))

RunsAreAdmitted == \A r \in Runners : run[r].pc \in Points => Admitted(Brief(r))
BriefsAreComposed ==
    \A r \in Runners : run[r].pc \in {"look", "file", "latest"} => Composed(Brief(r))

(* A name that a run is about to take is free, unless two runs looked for it  *)
(* at once.                                                                   *)
PlaceIsFree ==
    \A r \in Runners : run[r].pc = "file" =>
        \A b \in filed : SameName(b, Brief(r)) => b \in raced
RivalsAreKnown ==
    \A r, s \in Runners :
        r # s /\ run[r].pc = "file" /\ run[s].pc = "file" /\ SameName(Brief(r), Brief(s))
            => Brief(r) \in raced

Known == filed \cup raced
LatestIsOnFile == \A r \in Runners : run[r].pc = "latest" => Brief(r) \in Known
CandidateIsBorneOut ==
    candidate # NoBrief =>
        candidate \in Known /\ Admitted(candidate) /\ Composed(candidate)

BriefInv ==
    /\ RunnersAreRecords /\ RunsAreAdmitted /\ BriefsAreComposed
    /\ PlaceIsFree /\ RivalsAreKnown /\ LatestIsOnFile /\ CandidateIsBorneOut

(* A runner's record, and the brief that it is going to be.                   *)
IsBriefRun(m) ==
    /\ m.pc \in Points
    /\ m = [pc |-> m.pc, no |-> m.no, type |-> m.type, day |-> m.day, given |-> m.given,
            baseline |-> m.baseline]
BriefOf(m) ==
    [no |-> m.no, type |-> m.type, day |-> m.day, baseline |-> m.baseline,
     given |-> m.given]

LEMMA NamesAreShared ==
  ASSUME NEW a, NEW b, SameName(a, b)
  PROVE  SameName(b, a)
BY DEF SameName

LEMMA IdleHasNoPoint == Idle.pc \notin Points
BY DEF Idle, Points

LEMMA OneRunnerMoves ==
  ASSUME RunnersAreRecords, NEW r \in Runners, NEW m, run' = [run EXCEPT ![r] = m],
         m = Idle \/ IsBriefRun(m)
  PROVE  /\ RunnersAreRecords'
         /\ run'[r] = m /\ Brief(r)' = BriefOf(m)
         /\ \A s \in Runners \ {r} : run'[s] = run[s] /\ Brief(s)' = Brief(s)
<1>1. run'[r] = m /\ \A s \in Runners \ {r} : run'[s] = run[s]
  BY DEF RunnersAreRecords
<1>2. run' = [s \in Runners |-> run'[s]]
  BY DEF RunnersAreRecords
<1>3. RunnersAreRecords'
  BY <1>1, <1>2 DEF RunnersAreRecords, IsBriefRun
<1> QED
  BY <1>1, <1>3 DEF Brief, BriefOf

(* A runner that gives up, or is not yet at the files of the briefs, leaves   *)
(* everything else as it is.                                                  *)
LEMMA QuietMove ==
  ASSUME BriefInv, NEW r \in Runners, NEW m, run' = [run EXCEPT ![r] = m],
         UNCHANGED <<filed, candidate, raced>>,
         \/ m = Idle
         \/ /\ IsBriefRun(m) /\ m.pc \in {"read", "compose", "look"} /\ Admitted(BriefOf(m))
            /\ m.pc = "look" => Composed(BriefOf(m))
  PROVE  BriefInv'
<1>1. /\ RunnersAreRecords'
      /\ run'[r] = m /\ Brief(r)' = BriefOf(m)
      /\ \A s \in Runners \ {r} : run'[s] = run[s] /\ Brief(s)' = Brief(s)
  BY OneRunnerMoves DEF BriefInv
<1>2. m.pc \notin {"file", "latest"}
  BY DEF Idle
<1>3. RunsAreAdmitted'
  BY <1>1, IdleHasNoPoint DEF BriefInv, RunsAreAdmitted, Admitted
<1>4. BriefsAreComposed'
  BY <1>1 DEF BriefInv, BriefsAreComposed, Composed, Idle
<1>5. PlaceIsFree' /\ RivalsAreKnown'
  BY <1>1, <1>2 DEF BriefInv, PlaceIsFree, RivalsAreKnown
<1>6. LatestIsOnFile' /\ CandidateIsBorneOut'
  BY <1>1, <1>2 DEF BriefInv, LatestIsOnFile, CandidateIsBorneOut, Known
<1> QED
  BY <1>1, <1>3, <1>4, <1>5, <1>6 DEF BriefInv

LEMMA BeginKeeps ==
  ASSUME BriefInv, NEW r \in Runners, NEW type \in Types, NEW day \in Days,
         NEW given \in DOMAIN Deliveries, NEW live \in BOOLEAN,
         Begin(r, type, day, given, live)
  PROVE  BriefInv'
<1> DEFINE m == [pc |-> "read", no |-> IF live THEN begun + 1 ELSE 0, type |-> type,
                 day |-> day, given |-> given, baseline |-> <<>>]
<1>1. IsBriefRun(m) /\ m.pc = "read"
  BY DEF IsBriefRun, Points
<1>2. Admitted(BriefOf(m))
  BY DEF Begin, Admitted, BriefOf, Packets
<1> QED
  BY <1>1, <1>2, QuietMove DEF Begin

(* The runner is at one of the points of its program.                         *)
LEMMA AtAPoint ==
  ASSUME BriefInv, NEW r \in Runners, run[r].pc \in Points
  PROVE  /\ IsBriefRun(run[r]) /\ BriefOf(run[r]) = Brief(r) /\ Admitted(Brief(r))
         /\ run[r].pc \in {"look", "file", "latest"} => Composed(Brief(r))
BY IdleHasNoPoint
   DEF BriefInv, RunnersAreRecords, IsBriefRun, BriefOf, Brief, RunsAreAdmitted,
       BriefsAreComposed

GoesOn(me, baseline, pc) == [me EXCEPT !.baseline = baseline, !.pc = pc]

LEMMA BriefRunGoesOn ==
  ASSUME NEW me, IsBriefRun(me), NEW pc \in Points, NEW baseline
  PROVE  LET m == GoesOn(me, baseline, pc)
         IN  /\ IsBriefRun(m) /\ m.pc = pc
             /\ m.type = me.type /\ m.day = me.day /\ m.given = me.given
<1> DEFINE p == me.pc
           no == me.no
           type == me.type
           day == me.day
           given == me.given
           old == me.baseline
<1>1. me = [pc |-> p, no |-> no, type |-> type, day |-> day, given |-> given,
            baseline |-> old]
  BY DEF IsBriefRun
<1> HIDE DEF p, no, type, day, given, old
<1> DEFINE further == [me EXCEPT !.baseline = baseline]
<1>2. further = [pc |-> p, no |-> no, type |-> type, day |-> day, given |-> given,
                 baseline |-> baseline]
  BY <1>1
<1>3. GoesOn(me, baseline, pc) = [further EXCEPT !.pc = pc]
  BY DEF GoesOn
<1> HIDE DEF further
<1>4. [further EXCEPT !.pc = pc] =
        [pc |-> pc, no |-> no, type |-> type, day |-> day, given |-> given,
         baseline |-> baseline]
  BY <1>2
<1> QED
  BY <1>1, <1>3, <1>4 DEF IsBriefRun

LEMMA ReadKeeps ==
  ASSUME BriefInv, NEW r \in Runners, Read(r)
  PROVE  BriefInv'
<1> DEFINE me == run[r]
           read == Append(run[r].baseline, files[Len(run[r].baseline) + 1])
           pc == IF Len(read) = Sources THEN "compose" ELSE "read"
           m == [me EXCEPT !.baseline = read, !.pc = pc]
<1>1. IsBriefRun(me) /\ BriefOf(me) = Brief(r) /\ Admitted(Brief(r))
  BY AtAPoint DEF Read, Points
<1>2. run' = [run EXCEPT ![r] = m]
  BY DEF Read, BriefInv, RunnersAreRecords
<1>3. pc \in {"read", "compose"}
  OBVIOUS
<1> HIDE DEF read, pc, me
<1>4. /\ IsBriefRun(m) /\ m.pc = pc
      /\ m.type = me.type /\ m.day = me.day /\ m.given = me.given
  <2>1. pc \in Points
    BY <1>3 DEF Points
  <2>2. m = GoesOn(me, read, pc)
    BY DEF GoesOn
  <2> HIDE DEF m
  <2> QED
    BY <1>1, <2>1, <2>2, BriefRunGoesOn
<1> HIDE DEF m
<1>5. Admitted(BriefOf(m))
  BY <1>1, <1>4 DEF Admitted, BriefOf, Packets
<1> QED
  BY <1>2, <1>3, <1>4, <1>5, QuietMove DEF Read

LEMMA ComposeKeeps ==
  ASSUME BriefInv, NEW r \in Runners, Compose(r)
  PROVE  BriefInv'
<1> DEFINE me == run[r]
           m == [me EXCEPT !.pc = "look"]
<1>1. IsBriefRun(me) /\ BriefOf(me) = Brief(r) /\ Admitted(Brief(r))
  BY AtAPoint DEF Compose, Points
<1>2. \/ run' = [run EXCEPT ![r] = Idle]
      \/ /\ run' = [run EXCEPT ![r] = m]
         /\ BriefIsSound(Packets(me)) /\ (me.no # 0 => LiveEvidence(me.type, Packets(me)))
  BY DEF Compose, GoesTo, Ends, BriefInv, RunnersAreRecords
<1> HIDE DEF me
<1>3. /\ IsBriefRun(m) /\ m.pc = "look"
      /\ BriefOf(m) = BriefOf(me)
  BY <1>1 DEF IsBriefRun, Points, BriefOf
<1> HIDE DEF m
<1>4. CASE run' = [run EXCEPT ![r] = Idle]
  BY <1>4, QuietMove DEF Compose
<1>5. CASE /\ run' = [run EXCEPT ![r] = m]
           /\ BriefIsSound(Packets(me)) /\ (me.no # 0 => LiveEvidence(me.type, Packets(me)))
  <2>1. Composed(BriefOf(m))
    BY <1>3, <1>5 DEF Composed, BriefOf, Packets
  <2> QED
    BY <1>1, <1>3, <1>5, <2>1, QuietMove DEF Compose
<1> QED
  BY <1>2, <1>4, <1>5

(* Looking for a place: a run that finds it free knows of all who found it so *)
(* at the same time.                                                          *)
LEMMA LookKeeps ==
  ASSUME BriefInv, NEW r \in Runners, Look(r)
  PROVE  BriefInv'
<1> DEFINE me == run[r]
           m == [me EXCEPT !.pc = "file"]
           rivals == {s \in Runners : run[s].pc = "file" /\ SameName(Brief(s), Brief(r))}
<1>1. IsBriefRun(me) /\ BriefOf(me) = Brief(r) /\ Admitted(Brief(r)) /\ Composed(Brief(r))
      /\ me.pc = "look"
  BY AtAPoint DEF Look, Points
<1>2. CASE \E b \in filed : SameName(b, Brief(r))
  BY <1>2, QuietMove DEF Look, Ends
<1>3. CASE ~ \E b \in filed : SameName(b, Brief(r))
  <2>1. /\ run' = [run EXCEPT ![r] = m]
        /\ raced' = IF rivals = {} THEN raced
                    ELSE raced \cup {Brief(s) : s \in rivals \cup {r}}
        /\ UNCHANGED <<filed, candidate>>
    BY <1>3 DEF Look, GoesTo, BriefInv, RunnersAreRecords
  <2>2. IsBriefRun(m) /\ m.pc = "file" /\ BriefOf(m) = Brief(r)
    BY <1>1 DEF IsBriefRun, Points, BriefOf
  <2>3. /\ RunnersAreRecords'
        /\ run'[r].pc = "file" /\ Brief(r)' = Brief(r)
        /\ \A s \in Runners \ {r} : run'[s] = run[s] /\ Brief(s)' = Brief(s)
    BY <2>1, <2>2, OneRunnerMoves DEF BriefInv
  <2>4. raced \subseteq raced'
    BY <2>1
  <2>5. RunsAreAdmitted' /\ BriefsAreComposed'
    BY <1>1, <2>3
       DEF BriefInv, RunsAreAdmitted, BriefsAreComposed, Admitted, Composed
  <2>6. PlaceIsFree'
    BY <1>3, <2>1, <2>3, <2>4 DEF BriefInv, PlaceIsFree
  <2>7. RivalsAreKnown'
    <3> SUFFICES ASSUME NEW p \in Runners, NEW s \in Runners, p # s,
                        run'[p].pc = "file", run'[s].pc = "file",
                        SameName(Brief(p)', Brief(s)')
                 PROVE  Brief(p)' \in raced'
      BY DEF RivalsAreKnown
    <3>1. CASE p # r /\ s # r
      BY <2>3, <2>4, <3>1 DEF BriefInv, RivalsAreKnown
    <3>2. CASE p = r
      <4>1. s \in rivals
        BY <2>3, <3>2, NamesAreShared
      <4> QED
        BY <2>1, <2>3, <3>2, <4>1
    <3>3. CASE s = r
      <4>1. p \in rivals
        BY <2>3, <3>3
      <4> QED
        BY <2>1, <2>3, <3>3, <4>1
    <3> QED
      BY <3>1, <3>2, <3>3
  <2>8. LatestIsOnFile' /\ CandidateIsBorneOut'
    BY <2>1, <2>3, <2>4 DEF BriefInv, LatestIsOnFile, CandidateIsBorneOut, Known
  <2> QED
    BY <2>3, <2>5, <2>6, <2>7, <2>8 DEF BriefInv
<1> QED
  BY <1>2, <1>3

(* Filing: what gives way was written by a run that looked at the same time.  *)
LEMMA FileKeeps ==
  ASSUME BriefInv, NEW r \in Runners, File(r)
  PROVE  BriefInv'
<1> DEFINE me == run[r]
           m == [me EXCEPT !.pc = "latest"]
<1>1. IsBriefRun(me) /\ BriefOf(me) = Brief(r) /\ Admitted(Brief(r)) /\ Composed(Brief(r))
      /\ me.pc = "file"
  BY AtAPoint DEF File, Points
<1>2. /\ run' = [run EXCEPT ![r] = m]
      /\ filed' = {b \in filed : ~SameName(b, Brief(r))} \cup {Brief(r)}
      /\ UNCHANGED <<candidate, raced>>
  BY DEF File, GoesTo, BriefInv, RunnersAreRecords
<1>3. IsBriefRun(m) /\ m.pc = "latest" /\ BriefOf(m) = Brief(r)
  BY <1>1 DEF IsBriefRun, Points, BriefOf
<1>4. /\ RunnersAreRecords'
      /\ run'[r].pc = "latest" /\ Brief(r)' = Brief(r)
      /\ \A s \in Runners \ {r} : run'[s] = run[s] /\ Brief(s)' = Brief(s)
  BY <1>2, <1>3, OneRunnerMoves DEF BriefInv
<1>5. Known \subseteq Known'
  BY <1>1, <1>2 DEF BriefInv, PlaceIsFree, Known
<1>6. RunsAreAdmitted' /\ BriefsAreComposed'
  BY <1>1, <1>4 DEF BriefInv, RunsAreAdmitted, BriefsAreComposed, Admitted, Composed
<1>7. PlaceIsFree'
  <2> SUFFICES ASSUME NEW p \in Runners, run'[p].pc = "file", NEW b \in filed',
                      SameName(b, Brief(p)')
               PROVE  b \in raced'
    BY DEF PlaceIsFree
  <2>1. p # r /\ run[p].pc = "file" /\ Brief(p)' = Brief(p)
    BY <1>4
  <2>2. CASE b \in filed
    BY <1>2, <2>1, <2>2 DEF BriefInv, PlaceIsFree
  <2>3. CASE b = Brief(r)
    BY <1>1, <1>2, <2>1, <2>3 DEF BriefInv, RivalsAreKnown
  <2> QED
    BY <1>2, <2>2, <2>3
<1>8. RivalsAreKnown'
  BY <1>2, <1>4 DEF BriefInv, RivalsAreKnown
<1>9. LatestIsOnFile'
  BY <1>2, <1>4, <1>5 DEF BriefInv, LatestIsOnFile, Known
<1>10. CandidateIsBorneOut'
  BY <1>2, <1>5 DEF BriefInv, CandidateIsBorneOut, Admitted, Composed
<1> QED
  BY <1>4, <1>6, <1>7, <1>8, <1>9, <1>10 DEF BriefInv

LEMMA LatestKeeps ==
  ASSUME BriefInv, NEW r \in Runners, Latest(r)
  PROVE  BriefInv'
<1>1. Admitted(Brief(r)) /\ Composed(Brief(r)) /\ Brief(r) \in Known
  BY AtAPoint DEF Latest, Points, BriefInv, LatestIsOnFile
<1>2. run' = [run EXCEPT ![r] = Idle] /\ candidate' = Brief(r) /\ UNCHANGED <<filed, raced>>
  BY DEF Latest, Ends
<1>3. /\ RunnersAreRecords'
      /\ run'[r] = Idle
      /\ \A s \in Runners \ {r} : run'[s] = run[s] /\ Brief(s)' = Brief(s)
  BY <1>2, OneRunnerMoves DEF BriefInv
<1>4. run'[r].pc \notin Points
  BY <1>3, IdleHasNoPoint
<1>5. RunsAreAdmitted' /\ BriefsAreComposed'
  BY <1>3, <1>4 DEF BriefInv, RunsAreAdmitted, BriefsAreComposed, Points, Admitted, Composed
<1>6. PlaceIsFree' /\ RivalsAreKnown' /\ LatestIsOnFile'
  BY <1>2, <1>3, <1>4
     DEF BriefInv, PlaceIsFree, RivalsAreKnown, LatestIsOnFile, Points, Known
<1>7. CandidateIsBorneOut'
  BY <1>1, <1>2 DEF CandidateIsBorneOut, Known, Admitted, Composed
<1> QED
  BY <1>3, <1>5, <1>6, <1>7 DEF BriefInv

LEMMA BriefInvHolds == BriefSpec => []BriefInv
<1>1. BriefInit => BriefInv
  <2> SUFFICES ASSUME BriefInit PROVE BriefInv
    OBVIOUS
  <2>1. \A r \in Runners : run[r] = Idle /\ run[r].pc \notin Points
    BY IdleHasNoPoint DEF BriefInit
  <2>2. RunnersAreRecords
    BY <2>1 DEF BriefInit, RunnersAreRecords
  <2> QED
    BY <2>1, <2>2 DEF BriefInit, BriefInv, RunsAreAdmitted, BriefsAreComposed, PlaceIsFree,
       RivalsAreKnown, LatestIsOnFile, CandidateIsBorneOut, Points
<1>2. BriefInv /\ [BriefNext]_bvars => BriefInv'
  <2> SUFFICES ASSUME BriefInv, [BriefNext]_bvars PROVE BriefInv'
    OBVIOUS
  <2>1. ASSUME NEW r \in Runners, NEW given \in DOMAIN Deliveries, NEW day \in Days,
               NEW type \in Types, NEW live \in BOOLEAN, Begin(r, type, day, given, live)
        PROVE  BriefInv'
    BY <2>1, BeginKeeps
  <2>2. ASSUME NEW r \in Runners, Read(r) \/ Compose(r) \/ Look(r)
        PROVE  BriefInv'
    BY <2>2, ReadKeeps, ComposeKeeps, LookKeeps
  <2>3. ASSUME NEW r \in Runners, File(r) \/ Latest(r)
        PROVE  BriefInv'
    BY <2>3, FileKeeps, LatestKeeps
  <2>4. ASSUME NEW r \in Runners, Kill(r) PROVE BriefInv'
    BY <2>4, QuietMove DEF Kill, Ends
  <2>5. CASE UNCHANGED bvars \/ \E f \in 1..Sources : Publish(f)
    <3>1. UNCHANGED <<run, filed, candidate, raced>>
      BY <2>5 DEF bvars, Publish
    <3> QED
      BY <3>1 DEF BriefInv, RunnersAreRecords, RunsAreAdmitted, BriefsAreComposed,
         PlaceIsFree, RivalsAreKnown, LatestIsOnFile, CandidateIsBorneOut, Known, Brief,
         Admitted, Composed
  <2> QED
    BY <2>1, <2>2, <2>3, <2>4, <2>5 DEF BriefNext
<1> QED
  BY <1>1, <1>2, PTL DEF BriefSpec

(* What a periodic report shows is on file as it is shown, rests on packets   *)
(* that were validated for this day and this kind of run, each claim on an    *)
(* item of exactly one of them, and is no test when it was made live:         *)
(* whatever runs of one name overlap, and wherever they are killed.           *)
THEOREM ShownBriefsAreBorneOut == BriefSpec => []ShownBriefIsBorneOut
<1>1. BriefInv => ShownBriefIsBorneOut
  <2> SUFFICES ASSUME BriefInv, NEW day \in Days, candidate # NoBrief, candidate.day = day
               PROVE
        /\ candidate \in filed \cup raced
        /\ \A i \in Evidence(Packets(candidate)) : \E p \in Packets(candidate) :
              /\ i \in p.evidence
              /\ \A q \in Packets(candidate) \ {p} : \A j \in q.evidence : j.id # i.id
              /\ candidate.type \in p.types /\ day \in p.from..p.until
        /\ Material(Packets(candidate)) <=> Fields(Evidence(Packets(candidate))) # {}
        /\ candidate.no # 0 => \A i \in Evidence(Packets(candidate)) : ~i.test
    BY DEF ShownBriefIsBorneOut, ShadowCandidate
  <2>1. candidate \in Known /\ Admitted(candidate) /\ Composed(candidate)
    BY DEF BriefInv, CandidateIsBorneOut
  <2> DEFINE packets == Packets(candidate)
  <2>2. ASSUME NEW p \in packets PROVE candidate.type \in p.types /\ day \in p.from..p.until
    <3>1. day \in Nat
      <4>1. day \in 1..LastDay
        BY DEF Days
      <4>2. LastDay \in Nat
        BY DaysAreNumbers
      <4> QED
        BY ONLY <4>1, <4>2
    <3>2. candidate.given \in DOMAIN Deliveries /\ p \in Deliveries[candidate.given]
      BY <2>1, <2>2 DEF Admitted, Packets
    <3>3. p.from \in Nat /\ p.until \in Nat
      BY <3>2, DaysAreNumbers
    <3>4. candidate.type \in p.types /\ p.from <= day /\ day <= p.until
      BY <2>1 DEF Admitted, Validated
    <3> QED
      BY <3>1, <3>3, <3>4
  <2>3. ASSUME NEW i \in Evidence(packets)
        PROVE  \E p \in packets :
                 /\ i \in p.evidence
                 /\ \A q \in packets \ {p} : \A j \in q.evidence : j.id # i.id
                 /\ candidate.type \in p.types /\ day \in p.from..p.until
    <3>1. PICK p \in packets : i \in p.evidence
      BY DEF Evidence
    <3>2. \A q \in packets \ {p} : \A j \in q.evidence : j.id # i.id
      BY <2>1, <3>1 DEF Admitted, Validated
    <3> QED
      BY <2>2, <3>1, <3>2
  <2>4. Material(packets) <=> Fields(Evidence(packets)) # {}
    BY <2>1 DEF Composed, BriefIsSound
  <2>5. candidate.no # 0 => \A i \in Evidence(packets) : ~i.test
    BY <2>1 DEF Composed, LiveEvidence
  <2> QED
    BY <2>1, <2>3, <2>4, <2>5 DEF Known
<1> QED
  BY <1>1, BriefInvHolds, PTL

-----------------------------------------------------------------------------
(* ReportProduction: a report rests on the authority that its run names, and  *)
(* a reviewed one is not taken back.                                          *)
Analysing == {"opened", "analysed", "hashed"}
Reporting == {"checkpointed", "compiling", "compiled", "checked", "recorded"}
Hashes    == [files : Versions, stated : Versions]
RunRecords ==
    [state : {"none", "open", "analysis", "report", "review"}, built : Versions \cup {Unset},
     hashes : Hashes \cup {Unset}, output : BOOLEAN, moved : BOOLEAN]
BuilderRecords ==
    [pc : {"idle", "named", "read"} \cup Checking \cup Analysing \cup Reporting,
     id : RunIds \cup {Unset}, before : Hashes \cup {Unset}, built : Versions \cup {Unset},
     replay : BOOLEAN, moved : BOOLEAN]

BuildersAreRecords ==
    /\ builder \in [Builders -> BuilderRecords]
    /\ \A b \in Builders : builder[b].pc # "idle" => builder[b].id \in RunIds
ProductionTypeOK ==
    /\ authority \in Hashes
    /\ runs \in [RunIds -> RunRecords]
    /\ BuildersAreRecords

(* Who is at work on a run.  Its writer is past the look for a candidate, has *)
(* found none and has not recorded the report yet.                            *)
WorksOn(b, id, steps) == builder[b].pc \in steps /\ builder[b].id = id
Writes(b, id) == WorksOn(b, id, {"compiled", "checked"}) /\ ~ builder[b].replay
Rests(id) == runs[id].built = id[2] /\ runs[id].hashes.files = id[2]

(* What a checkpoint has found out so far, as long as nothing moved.          *)
SoFar(me) ==
    LET id == me.id IN
    /\ me.pc \in Checking => authority.stated = id[2]
    /\ me.pc = "rebuilt" => authority.files = id[2] /\ runs[id].built = id[2]
    /\ me.pc \in Reporting => Rests(id)

(* One builder analyses a run, and only while it is open.                     *)
AnalystIsAlone ==
    \A b \in Builders, id \in RunIds : WorksOn(b, id, Analysing) =>
        /\ runs[id].state = "open"
        /\ \A c \in Builders : WorksOn(c, id, Analysing) => c = b

(* A report is made of an analysis that is complete, and rests on it.         *)
Later == {"read"} \cup Checking \cup Reporting
Complies(me) ==
    LET id == me.id IN
    /\ runs[id].state \in {"analysis", "report", "review"}
    /\ me.pc = "recorded" \/ me.replay => Recorded(runs[id])
    /\ id[1] \in Quarterly /\ ~ me.replay /\ ~ me.moved => SoFar(me)
ReportersComeAfter ==
    \A b \in Builders : builder[b].pc \in Later => Complies(builder[b])

(* One writes, and nobody has recorded or completed the report meanwhile.     *)
WriterIsAlone ==
    \A b \in Builders, id \in RunIds : Writes(b, id) =>
        /\ runs[id].state = "analysis" /\ runs[id].output
        /\ \A c \in Builders : Writes(c, id) => c = b

ReportsAreOut ==
    \A id \in RunIds : Recorded(runs[id]) =>
        runs[id].output /\ (id[1] \in Quarterly /\ ~ runs[id].moved => Rests(id))

ProductionInv ==
    /\ ProductionTypeOK
    /\ AnalystIsAlone /\ ReportersComeAfter /\ WriterIsAlone /\ ReportsAreOut

LEMMA ProductionStarts == ProductionInit => ProductionInv
<1> SUFFICES ASSUME ProductionInit PROVE ProductionInv
    OBVIOUS
<1>1. ProductionTypeOK
    BY DEF ProductionInit, ProductionTypeOK, BuildersAreRecords, NoRun, IdleBuilder,
       RunRecords, BuilderRecords, Hashes
<1> QED
    BY <1>1 DEF ProductionInit, ProductionInv, AnalystIsAlone, ReportersComeAfter,
       WriterIsAlone, ReportsAreOut, WorksOn, Writes, Analysing, Reporting, Later, Checking,
       NoRun, IdleBuilder, Recorded

-----------------------------------------------------------------------------
(* What the three kinds of assignment do.                                     *)
OthersWait(b) == \A c \in Builders : c # b => builder'[c] = builder[c]

LEMMA StepIsTaken ==
  ASSUME BuildersAreRecords, NEW b \in Builders, builder[b].pc # "idle",
         NEW pc \in {"named", "read"} \cup Checking \cup Analysing \cup Reporting, Step(b, pc)
  PROVE  /\ BuildersAreRecords' /\ OthersWait(b)
         /\ builder'[b].pc = pc /\ builder'[b].id = builder[b].id
         /\ builder'[b].replay = builder[b].replay /\ builder'[b].moved = builder[b].moved
BY DEF BuildersAreRecords, Step, BuilderRecords, OthersWait

LEMMA BuilderGivesUp ==
  ASSUME BuildersAreRecords, NEW b \in Builders, GiveUp(b)
  PROVE  BuildersAreRecords' /\ OthersWait(b) /\ builder'[b].pc = "idle"
BY DEF BuildersAreRecords, GiveUp, BuilderRecords, IdleBuilder, OthersWait

LEMMA RunIsSet ==
  ASSUME ProductionTypeOK, NEW b \in Builders, builder[b].pc # "idle",
         NEW record \in RunRecords, SetRun(b, record)
  PROVE  /\ runs' \in [RunIds -> RunRecords] /\ runs'[builder[b].id] = record
         /\ \A other \in RunIds : other # builder[b].id => runs'[other] = runs[other]
BY DEF ProductionTypeOK, BuildersAreRecords, SetRun

(* A builder that gives up, is killed or has done its part.                   *)
LEMMA GiveUpKeeps ==
  ASSUME ProductionInv, NEW b \in Builders, GiveUp(b),
         UNCHANGED <<authority, runs>>
  PROVE  ProductionInv'
<1> USE DEF ProductionInv
<1>1. /\ ProductionTypeOK' /\ builder'[b].pc = "idle" /\ runs' = runs /\ OthersWait(b)
    BY BuilderGivesUp DEF ProductionTypeOK
<1>2. \A c \in Builders, id \in RunIds :
         /\ WorksOn(c, id, Analysing)' => WorksOn(c, id, Analysing)
         /\ Writes(c, id)' => Writes(c, id)
    BY <1>1 DEF WorksOn, Writes, Analysing, OthersWait
<1>3. AnalystIsAlone' /\ WriterIsAlone' /\ ReportsAreOut'
    BY <1>1, <1>2 DEF AnalystIsAlone, WriterIsAlone, ReportsAreOut, Rests, Recorded
<1>4. ReportersComeAfter'
  <2> SUFFICES ASSUME NEW c \in Builders, builder'[c].pc \in Later
               PROVE  Complies(builder[c])'
      BY DEF ReportersComeAfter
  <2>1. c # b /\ builder'[c] = builder[c]
      BY <1>1 DEF OthersWait, Later, Checking, Reporting
  <2>2. Complies(builder[c])
      BY <2>1 DEF ReportersComeAfter
  <2> QED
      BY <1>1, <2>1, <2>2 DEF Complies, SoFar, Rests, Recorded
<1> QED
    BY <1>1, <1>3, <1>4

-----------------------------------------------------------------------------
(* The analysis.                                                              *)
LEMMA AnalysisMoves ==
  ASSUME ProductionTypeOK, NEW b \in Builders,
         OpenRun(b) \/ Analyse(b) \/ HashAfter(b) \/ RecordAnalysis(b),
         ~ (GiveUp(b) /\ runs' = runs)
  PROVE  LET id == builder[b].id IN
         /\ ProductionTypeOK' /\ id \in RunIds /\ OthersWait(b) /\ authority' = authority
         /\ \A other \in RunIds : other # id => runs'[other] = runs[other]
         /\ builder'[b].pc \in Analysing => builder'[b].id = id
         /\ \/ builder[b].pc = "named" /\ runs[id].state = "none"
               /\ runs'[id].state = "open" /\ builder'[b].pc \in Analysing
            \/ builder[b].pc \in Analysing /\ runs'[id].state = runs[id].state
               /\ builder'[b].pc \in Analysing \cup {"idle"}
            \/ builder[b].pc \in Analysing /\ runs'[id].state = "analysis"
               /\ builder'[b].pc = "idle"
<1> DEFINE id == builder[b].id
<1>0. /\ builder[b].pc # "idle" /\ id \in RunIds /\ runs[id] \in RunRecords /\ Run(b) = runs[id]
      /\ authority \in Hashes /\ BuildersAreRecords /\ builder[b] \in BuilderRecords
      /\ authority' = authority
    BY DEF OpenRun, Analyse, HashAfter, RecordAnalysis, ProductionTypeOK, BuildersAreRecords,
       Run
<1>1. CASE OpenRun(b)
  <2> DEFINE record == [NoRun EXCEPT !.state = "open"]
             me == [builder[b] EXCEPT !.pc = "opened", !.before = authority]
  <2>1. record \in RunRecords /\ record.state = "open"
      BY <1>0 DEF NoRun, RunRecords
  <2>2. me \in BuilderRecords /\ me.pc = "opened" /\ me.id = id
      BY <1>0 DEF BuilderRecords, Analysing
  <2>3. /\ builder[b].pc = "named" /\ runs[id].state = "none" /\ SetRun(b, record)
        /\ builder' = [builder EXCEPT ![b] = me]
      BY <1>0, <1>1 DEF OpenRun, BuildersAreRecords
  <2> HIDE DEF record, me
  <2>4. BuildersAreRecords' /\ OthersWait(b) /\ builder'[b] = me
      BY <1>0, <2>2, <2>3 DEF BuildersAreRecords, OthersWait
  <2> QED
      BY <1>0, <2>1, <2>2, <2>3, <2>4, RunIsSet DEF ProductionTypeOK, Analysing
<1>2. CASE Analyse(b)
  <2> DEFINE me == [builder[b] EXCEPT !.pc = "analysed", !.built = authority.stated]
  <2>1. me \in BuilderRecords /\ me.pc = "analysed" /\ me.id = id
      BY <1>0 DEF BuilderRecords, Analysing, Hashes
  <2>2. builder[b].pc \in Analysing /\ runs' = runs /\ builder' = [builder EXCEPT ![b] = me]
      BY <1>0, <1>2 DEF Analyse, Analysing, BuildersAreRecords
  <2> HIDE DEF me
  <2>3. BuildersAreRecords' /\ OthersWait(b) /\ builder'[b] = me
      BY <1>0, <2>1, <2>2 DEF BuildersAreRecords, OthersWait
  <2> QED
      BY <1>0, <2>1, <2>2, <2>3 DEF ProductionTypeOK, Analysing
<1>3. CASE HashAfter(b)
  <2>1. /\ builder[b].pc \in Analysing /\ runs' = runs /\ Step(b, "hashed")
        /\ "hashed" \in Analysing
      BY <1>0, <1>3 DEF HashAfter, Analysing
  <2> QED
      BY <1>0, <2>1, StepIsTaken DEF ProductionTypeOK
<1>4. CASE RecordAnalysis(b)
  <2> DEFINE record == [runs[id] EXCEPT !.state = "analysis", !.built = builder[b].built,
                                        !.hashes = builder[b].before]
  <2>1. record \in RunRecords /\ record.state = "analysis"
      BY <1>0 DEF RunRecords, BuilderRecords
  <2>2. builder[b].pc \in Analysing /\ SetRun(b, record) /\ GiveUp(b)
      BY <1>0, <1>4 DEF RecordAnalysis, Analysing
  <2> HIDE DEF record
  <2> QED
      BY <1>0, <2>1, <2>2, RunIsSet, BuilderGivesUp DEF ProductionTypeOK, Analysing
<1> QED
    BY <1>1, <1>2, <1>3, <1>4

(* A run is opened by one builder and stays its own until its analysis is     *)
(* recorded.                                                                  *)
LEMMA AnalystKeeps ==
  ASSUME ProductionInv, NEW b \in Builders,
         OpenRun(b) \/ Analyse(b) \/ HashAfter(b) \/ RecordAnalysis(b),
         ~ (GiveUp(b) /\ runs' = runs)
  PROVE  ProductionInv'
<1> USE DEF ProductionInv
<1>0. PICK id \in RunIds : id = builder[b].id
    BY AnalysisMoves
<1>1. /\ ProductionTypeOK' /\ OthersWait(b) /\ authority' = authority
      /\ \A other \in RunIds : other # id => runs'[other] = runs[other]
      /\ builder'[b].pc \in Analysing => builder'[b].id = id
      /\ builder'[b].pc \notin Later
      /\ \/ builder[b].pc = "named" /\ runs[id].state = "none"
            /\ runs'[id].state = "open" /\ builder'[b].pc \in Analysing
         \/ builder[b].pc \in Analysing /\ runs'[id].state = runs[id].state
            /\ builder'[b].pc \in Analysing \cup {"idle"}
         \/ builder[b].pc \in Analysing /\ runs'[id].state = "analysis"
            /\ builder'[b].pc = "idle"
    BY <1>0, AnalysisMoves DEF Analysing, Later, Checking, Reporting
<1>2. /\ runs[id].state \in {"none", "open"}
      /\ \A c \in Builders \ {b} : ~ WorksOn(c, id, Analysing)
    BY <1>0, <1>1 DEF AnalystIsAlone, WorksOn
<1>3. \A c \in Builders : /\ builder[c].pc \in Later => builder[c].id # id
                           /\ ~ Writes(c, id)
    BY <1>2 DEF ReportersComeAfter, Complies, WriterIsAlone
<1>4. AnalystIsAlone'
  <2> SUFFICES ASSUME NEW c \in Builders, NEW i \in RunIds, WorksOn(c, i, Analysing)'
               PROVE  /\ runs'[i].state = "open"
                      /\ \A d \in Builders : WorksOn(d, i, Analysing)' => d = c
      BY DEF AnalystIsAlone
  <2>1. CASE i = id
    <3>1. \A d \in Builders : WorksOn(d, id, Analysing)' => d = b
        BY <1>1, <1>2 DEF WorksOn, OthersWait
    <3>2. c = b /\ builder'[b].pc \in Analysing
        BY <2>1, <3>1 DEF WorksOn
    <3>3. builder[b].pc \in Analysing => runs[id].state = "open"
        BY <1>0, <1>1 DEF AnalystIsAlone, WorksOn
    <3> QED
        BY <1>1, <2>1, <3>1, <3>2, <3>3 DEF Analysing
  <2>2. CASE i # id
    <3>1. \A d \in Builders : WorksOn(d, i, Analysing)' => d # b /\ WorksOn(d, i, Analysing)
        BY <1>1, <2>2 DEF WorksOn, OthersWait
    <3> QED
        BY <1>1, <2>2, <3>1 DEF AnalystIsAlone
  <2> QED
      BY <2>1, <2>2
<1>5. \A c \in Builders, i \in RunIds :
         Writes(c, i)' => c # b /\ i # id /\ Writes(c, i)
    BY <1>1, <1>3 DEF WorksOn, Writes, Later, Reporting, OthersWait
<1>6. ReportersComeAfter'
  <2> SUFFICES ASSUME NEW c \in Builders, builder'[c].pc \in Later
               PROVE  Complies(builder[c])'
      BY DEF ReportersComeAfter
  <2>1. c # b /\ builder'[c] = builder[c] /\ builder[c].id # id
      BY <1>1, <1>3 DEF OthersWait
  <2>2. Complies(builder[c]) /\ builder[c].id \in RunIds
      BY <2>1 DEF ReportersComeAfter, ProductionTypeOK, BuildersAreRecords, Later, Checking,
         Reporting
  <2>3. runs'[builder[c].id] = runs[builder[c].id]
      BY <1>1, <2>1, <2>2
  <2> QED
      BY <1>1, <2>1, <2>2, <2>3 DEF Complies, SoFar, Rests, Recorded
<1>7. WriterIsAlone'
    BY <1>1, <1>5 DEF WriterIsAlone
<1>8. ReportsAreOut'
    BY <1>1, <1>2 DEF ReportsAreOut, Rests, Recorded
<1> QED
    BY <1>1, <1>4, <1>6, <1>7, <1>8

-----------------------------------------------------------------------------
(* The report.                                                                *)
LEMMA ReportMoves ==
  ASSUME ProductionTypeOK, NEW b \in Builders, NEW id \in RunIds, id = builder[b].id,
         Compile(b) \/ CheckProtected(b) \/ RecordReport(b) \/ Complete(b),
         ~ (GiveUp(b) /\ runs' = runs)
  PROVE  /\ ProductionTypeOK' /\ OthersWait(b) /\ authority' = authority
         /\ \A other \in RunIds : other # id => runs'[other] = runs[other]
         /\ runs'[id].built = runs[id].built
         /\ id[1] \in Quarterly => runs'[id].hashes = runs[id].hashes
         /\ runs[id].output => runs'[id].output
         /\ builder[b].pc \in Reporting
         /\ builder'[b].pc # "idle" => /\ builder'[b].id = id
                                       /\ builder'[b].replay = builder[b].replay
                                       /\ builder'[b].moved = builder[b].moved
         /\ \/ /\ builder[b].pc = "compiling" /\ builder'[b].pc = "compiled"
               /\ runs[id].output = builder[b].replay /\ runs'[id].output
               /\ runs'[id].state = runs[id].state /\ runs'[id].moved = runs[id].moved
            \/ /\ builder[b].pc = "compiled" /\ builder'[b].pc \in {"checked", "idle"}
               /\ runs'[id].state = runs[id].state /\ runs'[id].moved = runs[id].moved
            \/ /\ builder[b].pc = "checked" /\ builder'[b].pc \in {"recorded", "idle"}
               /\ IF builder[b].replay THEN runs'[id] = runs[id]
                  ELSE runs'[id].state = "report" /\ runs'[id].moved = builder[b].moved
            \/ /\ builder[b].pc = "recorded" /\ builder'[b].pc = "idle"
               /\ runs'[id].state = "review" /\ runs'[id].moved = runs[id].moved
<1>0. /\ builder[b].pc \in Reporting /\ runs[id] \in RunRecords /\ Run(b) = runs[id]
      /\ authority \in Hashes /\ BuildersAreRecords /\ builder[b] \in BuilderRecords
      /\ builder[b].pc # "idle" /\ authority' = authority
    BY DEF Compile, CheckProtected, RecordReport, Complete, ProductionTypeOK,
       BuildersAreRecords, Run, Reporting
<1>2. CASE Compile(b)
  <2> DEFINE record == [runs[id] EXCEPT !.output = TRUE]
  <2>1. /\ record \in RunRecords /\ record.moved = runs[id].moved /\ record.state = runs[id].state /\ record.built = runs[id].built
        /\ record.hashes = runs[id].hashes /\ record.output
      BY <1>0 DEF RunRecords
  <2>2. /\ builder[b].pc = "compiling" /\ runs[id].output = builder[b].replay
        /\ SetRun(b, record) /\ Step(b, "compiled") /\ UNCHANGED authority
      BY <1>0, <1>2 DEF Compile, ProductionTypeOK, BuildersAreRecords, RunRecords, BuilderRecords
  <2> HIDE DEF record
  <2> QED
      BY <1>0, <2>1, <2>2, RunIsSet, StepIsTaken DEF ProductionTypeOK, Reporting
<1>3. CASE CheckProtected(b)
  <2> DEFINE record == [runs[id] EXCEPT !.hashes = authority]
  <2>1. /\ record \in RunRecords /\ record.state = runs[id].state /\ record.built = runs[id].built
        /\ record.output = runs[id].output /\ record.moved = runs[id].moved
      BY <1>0 DEF RunRecords
  <2>2. /\ builder[b].pc = "compiled"
        /\ runs' = runs \/ (id[1] \notin Quarterly /\ SetRun(b, record))
        /\ Step(b, "checked") \/ GiveUp(b)
        /\ UNCHANGED authority
    <3>1. CASE id[1] \in Quarterly
      <4>1. builder[b].pc = "compiled" /\ UNCHANGED <<authority, runs>>
          BY <1>3, <3>1 DEF CheckProtected
      <4>2. Step(b, "checked") \/ GiveUp(b)
          BY <1>3 DEF CheckProtected
      <4> QED
          BY <4>1, <4>2
    <3>2. CASE id[1] \notin Quarterly
        BY <1>0, <1>3, <3>2 DEF CheckProtected
    <3> QED
        BY <3>1, <3>2
  <2> HIDE DEF record
  <2>3. /\ runs' \in [RunIds -> RunRecords] /\ runs'[id].state = runs[id].state
        /\ runs'[id].built = runs[id].built /\ runs'[id].output = runs[id].output
        /\ runs'[id].moved = runs[id].moved
        /\ id[1] \in Quarterly => runs'[id].hashes = runs[id].hashes
        /\ \A other \in RunIds : other # id => runs'[other] = runs[other]
      BY <1>0, <2>1, <2>2, RunIsSet DEF ProductionTypeOK
  <2>4. CASE Step(b, "checked")
      BY <1>0, <2>2, <2>3, <2>4, StepIsTaken DEF ProductionTypeOK, Reporting
  <2>5. CASE GiveUp(b)
      BY <1>0, <2>2, <2>3, <2>5, BuilderGivesUp DEF ProductionTypeOK
  <2> QED
      BY <2>2, <2>4, <2>5
<1>4. CASE RecordReport(b)
  <2> DEFINE record == [runs[id] EXCEPT !.state = "report", !.moved = builder[b].moved]
  <2>1. /\ record.moved = builder[b].moved
        /\ record \in RunRecords /\ record.state = "report" /\ record.built = runs[id].built
        /\ record.hashes = runs[id].hashes /\ record.output = runs[id].output
      BY <1>0 DEF RunRecords, BuilderRecords
  <2>2. /\ builder[b].pc = "checked"
        /\ IF builder[b].replay THEN runs' = runs ELSE SetRun(b, record)
        /\ Step(b, "recorded") \/ GiveUp(b)
        /\ UNCHANGED authority
      BY <1>0, <1>4 DEF RecordReport
  <2> HIDE DEF record
  <2>3. /\ runs' \in [RunIds -> RunRecords]
        /\ IF builder[b].replay THEN runs'[id] = runs[id]
           ELSE runs'[id].state = "report" /\ runs'[id].moved = builder[b].moved
        /\ runs'[id].built = runs[id].built /\ runs'[id].output = runs[id].output
        /\ runs'[id].hashes = runs[id].hashes
        /\ \A other \in RunIds : other # id => runs'[other] = runs[other]
      BY <1>0, <2>1, <2>2, RunIsSet DEF ProductionTypeOK
  <2>4. CASE Step(b, "recorded")
      BY <1>0, <2>2, <2>3, <2>4, StepIsTaken DEF ProductionTypeOK, Reporting
  <2>5. CASE GiveUp(b)
      BY <1>0, <2>2, <2>3, <2>5, BuilderGivesUp DEF ProductionTypeOK
  <2> QED
      BY <2>2, <2>4, <2>5
<1>5. CASE Complete(b)
  <2> DEFINE record == [runs[id] EXCEPT !.state = "review"]
  <2>1. /\ record.moved = runs[id].moved
        /\ record \in RunRecords /\ record.state = "review" /\ record.built = runs[id].built
        /\ record.hashes = runs[id].hashes /\ record.output = runs[id].output
      BY <1>0 DEF RunRecords
  <2>2. /\ builder[b].pc = "recorded" /\ SetRun(b, record) /\ GiveUp(b)
        /\ UNCHANGED authority
      BY <1>0, <1>5 DEF Complete
  <2> HIDE DEF record
  <2> QED
      BY <1>0, <2>1, <2>2, RunIsSet, BuilderGivesUp DEF ProductionTypeOK
<1> QED
    BY <1>2, <1>3, <1>4, <1>5

(* From the run that was found to the report in review.                       *)
LEMMA ReporterKeeps ==
  ASSUME ProductionInv, NEW b \in Builders,
         Compile(b) \/ CheckProtected(b) \/ RecordReport(b) \/ Complete(b),
         ~ (GiveUp(b) /\ runs' = runs)
  PROVE  ProductionInv' /\ ReviewIsNotTakenBack
<1> USE DEF ProductionInv
<1>0. PICK id \in RunIds : id = builder[b].id
    BY DEF Compile, CheckProtected, RecordReport, Complete, ProductionTypeOK,
       BuildersAreRecords
<1>1. /\ ProductionTypeOK' /\ OthersWait(b) /\ authority' = authority
      /\ \A other \in RunIds : other # id => runs'[other] = runs[other]
      /\ runs'[id].built = runs[id].built
      /\ id[1] \in Quarterly => runs'[id].hashes = runs[id].hashes
      /\ runs[id].output => runs'[id].output
      /\ builder[b].pc \in Reporting
      /\ builder'[b].pc # "idle" => /\ builder'[b].id = id
                                    /\ builder'[b].replay = builder[b].replay
                                    /\ builder'[b].moved = builder[b].moved
    BY <1>0, ReportMoves
<1>2. \/ /\ builder[b].pc = "compiling" /\ builder'[b].pc = "compiled"
         /\ runs[id].output = builder[b].replay /\ runs'[id].output
         /\ runs'[id].state = runs[id].state /\ runs'[id].moved = runs[id].moved
      \/ /\ builder[b].pc = "compiled" /\ builder'[b].pc \in {"checked", "idle"}
         /\ runs'[id].state = runs[id].state /\ runs'[id].moved = runs[id].moved
      \/ /\ builder[b].pc = "checked" /\ builder'[b].pc \in {"recorded", "idle"}
         /\ IF builder[b].replay THEN runs'[id] = runs[id]
            ELSE runs'[id].state = "report" /\ runs'[id].moved = builder[b].moved
      \/ /\ builder[b].pc = "recorded" /\ builder'[b].pc = "idle"
         /\ runs'[id].state = "review" /\ runs'[id].moved = runs[id].moved
    BY <1>0, ReportMoves
<1>3. /\ runs[id].state \in {"analysis", "report", "review"}
      /\ builder[b].pc = "recorded" \/ builder[b].replay => Recorded(runs[id])
      /\ id[1] \in Quarterly => Rests(id)' = Rests(id)
      /\ id[1] \in Quarterly /\ ~ builder[b].replay /\ ~ builder[b].moved => Rests(id)
  <2>1. Complies(builder[b])
      BY <1>1 DEF ReportersComeAfter, Later
  <2> QED
      BY <1>0, <1>1, <2>1 DEF Complies, SoFar, Rests
<1>4. /\ runs'[id].state \in {"analysis", "report", "review"}
      /\ Recorded(runs[id]) => Recorded(runs'[id])
      /\ builder'[b].pc = "recorded" => Recorded(runs'[id])
    BY <1>2, <1>3 DEF Recorded
<1>5. AnalystIsAlone'
  <2>1. \A c \in Builders : ~ WorksOn(c, id, Analysing)
      BY <1>3 DEF AnalystIsAlone
  <2>2. builder'[b].pc \notin Analysing
      BY <1>2 DEF Analysing
  <2>3. \A c \in Builders, i \in RunIds :
            WorksOn(c, i, Analysing)' => WorksOn(c, i, Analysing) /\ i # id
      BY <1>1, <2>1, <2>2 DEF WorksOn, OthersWait
  <2> QED
      BY <1>1, <2>3 DEF AnalystIsAlone
<1>6. ReportersComeAfter'
  <2> SUFFICES ASSUME NEW c \in Builders, builder'[c].pc \in Later
               PROVE  Complies(builder[c])'
      BY DEF ReportersComeAfter
  <2>1. CASE c = b
    <3>1. /\ builder'[b].id = id /\ builder'[b].replay = builder[b].replay
          /\ builder'[b].moved = builder[b].moved /\ builder'[b].pc \notin Checking
        BY <1>1, <1>2, <2>1 DEF Later, Reporting, Checking
    <3> QED
        BY <1>3, <1>4, <2>1, <3>1 DEF Complies, SoFar, Rests, Checking
  <2>2. CASE c # b
    <3>1. builder'[c] = builder[c] /\ Complies(builder[c]) /\ builder[c].id \in RunIds
        BY <1>1, <2>2 DEF OthersWait, ReportersComeAfter, ProductionTypeOK, BuildersAreRecords,
           Later, Checking, Reporting
    <3>2. CASE builder[c].id = id
        BY <1>1, <1>3, <1>4, <3>1, <3>2 DEF Complies, SoFar
    <3>3. CASE builder[c].id # id
      <4>1. runs'[builder[c].id] = runs[builder[c].id]
          BY <1>1, <3>1, <3>3
      <4> QED
          BY <1>1, <3>1, <4>1 DEF Complies, SoFar, Rests, Recorded
    <3> QED
        BY <3>2, <3>3
  <2> QED
      BY <2>1, <2>2
<1>7. WriterIsAlone'
  <2> SUFFICES ASSUME NEW c \in Builders, NEW i \in RunIds, Writes(c, i)'
               PROVE  /\ runs'[i].state = "analysis" /\ runs'[i].output
                      /\ \A d \in Builders : Writes(d, i)' => d = c
      BY DEF WriterIsAlone
  <2>1. \A d \in Builders : d # b => (Writes(d, i)' <=> Writes(d, i))
      BY <1>1 DEF Writes, WorksOn, OthersWait
  <2>2. CASE i # id
    <3>1. ~ Writes(b, i)'
        BY <1>1, <2>2 DEF Writes, WorksOn
    <3> QED
        BY <1>1, <2>1, <2>2, <3>1 DEF WriterIsAlone
  <2>3. CASE i = id /\ Writes(b, id)'
    <3>1. /\ ~ builder[b].replay /\ runs'[id].state = runs[id].state
          /\ \/ builder[b].pc = "compiling" /\ ~ runs[id].output /\ runs'[id].output
             \/ Writes(b, id)
        BY <1>0, <1>1, <1>2, <2>3 DEF Writes, WorksOn
    <3>2. \A d \in Builders : d # b => ~ Writes(d, id)
        BY <3>1 DEF WriterIsAlone
    <3>3. runs[id].state = "analysis" /\ runs'[id].output
        BY <1>1, <1>3, <3>1 DEF WriterIsAlone, ReportsAreOut, Recorded
    <3>4. c = b
        BY <2>1, <2>3, <3>2
    <3> QED
        BY <2>1, <2>3, <3>1, <3>2, <3>3, <3>4
  <2>4. CASE i = id /\ ~ Writes(b, id)'
    <3>1. c # b /\ Writes(c, id) /\ runs[id].state = "analysis" /\ runs[id].output
        BY <2>1, <2>4 DEF WriterIsAlone
    <3>2. ~ builder[b].replay /\ builder[b].pc # "recorded" /\ ~ Writes(b, id)
        BY <1>3, <3>1 DEF WriterIsAlone, Recorded
    <3>3. runs'[id].state = "analysis"
        BY <1>0, <1>2, <3>1, <3>2 DEF Writes, WorksOn
    <3> QED
        BY <1>1, <2>1, <2>4, <3>1, <3>3 DEF WriterIsAlone
  <2> QED
      BY <2>2, <2>3, <2>4
<1>8. ReportsAreOut'
  <2>1. CASE builder[b].pc = "checked" /\ ~ builder[b].replay
    <3>1. Writes(b, id)
        BY <1>0, <2>1 DEF Writes, WorksOn
    <3> QED
        BY <1>1, <1>2, <1>3, <2>1, <3>1 DEF WriterIsAlone, ReportsAreOut, Rests
  <2>2. CASE ~ (builder[b].pc = "checked" /\ ~ builder[b].replay)
    <3>1. Recorded(runs'[id]) => Recorded(runs[id])
        BY <1>2, <1>3, <2>2 DEF Recorded
    <3>2. runs'[id].moved = runs[id].moved
        BY <1>2, <2>2
    <3> QED
        BY <1>1, <1>3, <3>1, <3>2 DEF ReportsAreOut, Rests
  <2> QED
      BY <2>1, <2>2
<1>9. ReviewIsNotTakenBack
  <2>1. runs[id].state = "review" => runs'[id].state = "review"
    <3>1. builder[b].pc = "checked" /\ runs[id].state = "review" => builder[b].replay
        BY <1>0 DEF WriterIsAlone, Writes, WorksOn
    <3> QED
        BY <1>2, <3>1
  <2> QED
      BY <1>1, <2>1 DEF ReviewIsNotTakenBack, ProductionTypeOK
<1> QED
    BY <1>1, <1>5, <1>6, <1>7, <1>8, <1>9

-----------------------------------------------------------------------------
(* A builder that only looks: it names a new run, or finds one and goes       *)
(* through the checkpoint.                                                    *)
LEMMA LookingKeeps ==
  ASSUME ProductionInv, NEW b \in Builders, NEW me \in BuilderRecords,
         builder' = [builder EXCEPT ![b] = me], UNCHANGED <<authority, runs>>,
         me.id \in RunIds,
         me.pc \in {"named", "read", "checkpointed", "compiling"} \cup Checking,
         me.pc = "named" \/ Complies(me)
  PROVE  ProductionInv'
<1> USE DEF ProductionInv
<1>1. /\ BuildersAreRecords' /\ OthersWait(b) /\ builder'[b] = me
    BY DEF ProductionTypeOK, BuildersAreRecords, OthersWait
<1>2. \A c \in Builders, i \in RunIds :
         /\ WorksOn(c, i, Analysing)' => WorksOn(c, i, Analysing)
         /\ Writes(c, i)' => Writes(c, i)
  <2> SUFFICES ASSUME NEW c \in Builders, NEW i \in RunIds
               PROVE  /\ WorksOn(c, i, Analysing)' => WorksOn(c, i, Analysing)
                      /\ Writes(c, i)' => Writes(c, i)
      OBVIOUS
  <2>1. CASE c = b
      BY <1>1, <2>1 DEF WorksOn, Writes, Analysing, Checking
  <2>2. CASE c # b
      BY <1>1, <2>2 DEF WorksOn, Writes, OthersWait
  <2> QED
      BY <2>1, <2>2
<1>3. ProductionTypeOK' /\ AnalystIsAlone' /\ WriterIsAlone' /\ ReportsAreOut'
    BY <1>1, <1>2 DEF ProductionTypeOK, AnalystIsAlone, WriterIsAlone, ReportsAreOut, Rests,
       Recorded
<1>4. ReportersComeAfter'
  <2> SUFFICES ASSUME NEW c \in Builders, builder'[c].pc \in Later
               PROVE  Complies(builder[c])'
      BY DEF ReportersComeAfter
  <2>1. Complies(builder'[c])
    <3>1. CASE c = b
        BY <1>1, <2>1, <3>1 DEF Later, Checking, Reporting
    <3>2. CASE c # b
        BY <1>1, <3>2 DEF OthersWait, ReportersComeAfter
    <3> QED
        BY <3>1, <3>2
  <2> QED
      BY <2>1 DEF Complies, SoFar, Rests, Recorded
<1> QED
    BY <1>3, <1>4

LEMMA LookIsTaken ==
  ASSUME ProductionInv, NEW b \in Builders,
         \/ NameRun(b) \/ FindRun(b) \/ RecomputeId(b) \/ Rebuild(b) \/ HashAgain(b)
         \/ HashBefore(b)
  PROVE  ProductionInv' /\ runs' = runs
<1> USE DEF ProductionInv
<1> DEFINE old == builder[b]
<1>0. /\ UNCHANGED <<authority, runs>> /\ authority \in Hashes /\ old \in BuilderRecords
      /\ BuildersAreRecords
    BY DEF NameRun, FindRun, RecomputeId, Rebuild, HashAgain, HashBefore, ProductionTypeOK,
       BuildersAreRecords
<1>1. CASE GiveUp(b)
    BY <1>0, <1>1, GiveUpKeeps
<1>2. CASE NameRun(b)
  <2>1. PICK trigger \in Triggers :
           builder' = [builder EXCEPT ![b].pc = "named", ![b].id = <<trigger, authority.stated>>]
      BY <1>2 DEF NameRun
  <2> DEFINE me == [old EXCEPT !.pc = "named", !.id = <<trigger, authority.stated>>]
  <2>2. me \in BuilderRecords /\ me.id \in RunIds /\ me.pc = "named"
      BY <1>0 DEF BuilderRecords, Hashes, RunIds
  <2>3. builder' = [builder EXCEPT ![b] = me]
      BY <1>0, <2>1 DEF BuildersAreRecords, BuilderRecords
  <2> HIDE DEF me
  <2> QED
      BY <1>0, <2>2, <2>3, LookingKeeps
<1>3. CASE FindRun(b)
  <2>1. PICK trigger \in Triggers :
          LET id == <<trigger, authority.stated>> IN
          /\ runs[id].state = "analysis" \/ (trigger \in Quarterly /\ Recorded(runs[id]))
          /\ builder' = [builder EXCEPT
                 ![b].pc = IF trigger \in Quarterly THEN "read" ELSE "checkpointed",
                 ![b].id = id, ![b].replay = Recorded(runs[id])]
      BY <1>3 DEF FindRun
  <2> DEFINE id == <<trigger, authority.stated>>
             pc == IF trigger \in Quarterly THEN "read" ELSE "checkpointed"
             replay == Recorded(runs[id])
             me == [old EXCEPT !.pc = pc, !.id = id, !.replay = replay]
  <2>2. id \in RunIds /\ pc \in {"read", "checkpointed"} /\ replay \in BOOLEAN
      BY <1>0 DEF Hashes, RunIds, Recorded
  <2>3. id[1] \in Quarterly => pc = "read"
      OBVIOUS
  <2>4. /\ runs[id].state \in {"analysis", "report", "review"}
        /\ replay => Recorded(runs[id])
      BY <2>1 DEF Recorded
  <2>5. builder' = [builder EXCEPT ![b].pc = pc, ![b].id = id, ![b].replay = replay]
      BY <2>1
  <2> HIDE DEF id, pc, replay
  <2>6. /\ me \in BuilderRecords /\ me.id = id /\ me.pc = pc /\ me.replay = replay
        /\ builder' = [builder EXCEPT ![b] = me]
      BY <1>0, <2>2, <2>5 DEF BuildersAreRecords, BuilderRecords, Reporting
  <2> HIDE DEF me
  <2>7. Complies(me)
      BY <2>2, <2>3, <2>4, <2>6 DEF Complies, SoFar, Checking, Reporting
  <2> QED
      BY <1>0, <2>2, <2>6, <2>7, LookingKeeps
<1>4. CASE (RecomputeId(b) \/ Rebuild(b) \/ HashAgain(b)) /\ ~ GiveUp(b)
  <2>1. old.id \in RunIds /\ Complies(old) /\ Run(b) = runs[old.id]
      BY <1>4 DEF RecomputeId, Rebuild, HashAgain, BuildersAreRecords, ProductionTypeOK,
         ReportersComeAfter, Later, Checking, Run
  <2>2. PICK pc \in {"rebuilding", "rebuilt", "checkpointed"} :
           /\ Step(b, pc)
           /\ pc = "rebuilding" => authority.stated = old.id[2]
           /\ pc = "rebuilt" => /\ old.pc = "rebuilding"
                                /\ authority.files = authority.stated
                                /\ runs[old.id].built = authority.stated
           /\ pc = "checkpointed" => old.pc = "rebuilt" /\ runs[old.id].hashes = authority
      BY <1>4, <2>1 DEF RecomputeId, Rebuild, HashAgain
  <2> DEFINE me == [old EXCEPT !.pc = pc]
  <2>3. /\ me \in BuilderRecords /\ me.pc = pc /\ me.id = old.id /\ me.replay = old.replay
        /\ me.moved = old.moved /\ builder' = [builder EXCEPT ![b] = me]
      BY <1>0, <2>2 DEF BuildersAreRecords, BuilderRecords, Checking, Reporting, Step
  <2> HIDE DEF me
  <2>4. SoFar(old) => SoFar(me)
      BY <2>2, <2>3 DEF SoFar, Rests, Checking, Reporting
  <2>5. Complies(me)
      BY <2>1, <2>2, <2>3, <2>4 DEF Complies
  <2> QED
      BY <1>0, <2>1, <2>2, <2>3, <2>5, LookingKeeps DEF Checking
<1>5. CASE HashBefore(b) /\ ~ GiveUp(b)
  <2> DEFINE replay == Recorded(runs[old.id])
             me == [old EXCEPT !.pc = "compiling", !.before = authority, !.replay = replay]
  <2>1. /\ old.pc = "checkpointed" /\ old.id \in RunIds /\ Complies(old)
        /\ Run(b) = runs[old.id]
      BY <1>5 DEF HashBefore, BuildersAreRecords, ProductionTypeOK, ReportersComeAfter, Later,
         Reporting, Run
  <2>2. builder' = [builder EXCEPT ![b].pc = "compiling", ![b].before = authority,
                                   ![b].replay = replay]
      BY <1>5, <2>1 DEF HashBefore
  <2>3. replay \in BOOLEAN /\ (old.replay => replay) /\ (replay => Recorded(runs[old.id]))
      BY <2>1 DEF Recorded, Complies
  <2> HIDE DEF replay
  <2>4. /\ me \in BuilderRecords /\ me.pc = "compiling" /\ me.id = old.id
        /\ me.replay = replay /\ me.moved = old.moved
        /\ builder' = [builder EXCEPT ![b] = me]
      BY <1>0, <2>2, <2>3 DEF BuildersAreRecords, BuilderRecords, Reporting
  <2> HIDE DEF me
  <2>5. Complies(me)
      BY <2>1, <2>3, <2>4 DEF Complies, SoFar, Rests, Checking, Reporting
  <2> QED
      BY <1>0, <2>1, <2>4, <2>5, LookingKeeps
<1> QED
    BY <1>0, <1>1, <1>2, <1>3, <1>4, <1>5

(* Publishes and rollbacks change what is looked at next and nothing that was *)
(* recorded; a checkpoint they fall into finds out nothing more.              *)
LEMMA OutsideKeeps ==
  ASSUME ProductionInv, PublishFormalFiles \/ PublishAuthority \/ UNCHANGED pvars
  PROVE  ProductionInv' /\ runs' = runs
<1> USE DEF ProductionInv
<1>1. CASE UNCHANGED pvars
    BY <1>1 DEF pvars, ProductionTypeOK, BuildersAreRecords, AnalystIsAlone,
       ReportersComeAfter, WriterIsAlone, ReportsAreOut, Rests, WorksOn, Writes, Complies,
       SoFar, Recorded
<1>2. CASE PublishFormalFiles \/ PublishAuthority
  <2> DEFINE moves(b) == builder[b].pc \in Checking /\ ~ builder[b].replay
  <2>1. /\ authority' \in Hashes /\ runs' = runs
        /\ builder' = [b \in Builders |->
                         IF moves(b) THEN [builder[b] EXCEPT !.moved = TRUE] ELSE builder[b]]
      BY <1>2 DEF PublishFormalFiles, PublishAuthority, Change, ProductionTypeOK, Hashes
  <2>2. ASSUME NEW b \in Builders
        PROVE  /\ builder'[b] \in BuilderRecords
               /\ builder'[b].pc = builder[b].pc /\ builder'[b].id = builder[b].id
               /\ builder'[b].replay = builder[b].replay
               /\ builder'[b].moved = (builder[b].moved \/ moves(b))
      BY <2>1 DEF ProductionTypeOK, BuildersAreRecords, BuilderRecords
  <2> HIDE DEF moves
  <2>3. ProductionTypeOK'
      BY <2>1, <2>2 DEF ProductionTypeOK, BuildersAreRecords
  <2>4. \A b \in Builders, id \in RunIds :
           /\ WorksOn(b, id, Analysing)' = WorksOn(b, id, Analysing)
           /\ Writes(b, id)' = Writes(b, id)
      BY <2>2 DEF WorksOn, Writes
  <2>5. AnalystIsAlone' /\ WriterIsAlone' /\ ReportsAreOut'
      BY <2>1, <2>4 DEF AnalystIsAlone, WriterIsAlone, ReportsAreOut, Rests, Recorded
  <2>6. ReportersComeAfter'
    <3> SUFFICES ASSUME NEW b \in Builders, builder'[b].pc \in Later
                 PROVE  Complies(builder[b])'
        BY DEF ReportersComeAfter
    <3>1. Complies(builder[b])
        BY <2>2 DEF ReportersComeAfter
    <3>2. CASE builder[b].pc \in Checking
        BY <2>1, <2>2, <3>1, <3>2 DEF Complies, Recorded, moves
    <3>3. CASE builder[b].pc \notin Checking
        BY <2>1, <2>2, <3>1, <3>3 DEF Complies, SoFar, Rests, Recorded, Checking
    <3> QED
        BY <3>2, <3>3
  <2> QED
      BY <2>1, <2>3, <2>5, <2>6
<1> QED
    BY <1>1, <1>2 DEF pvars

LEMMA ProductionInvInductive ==
  ProductionInv /\ [ProductionNext]_pvars => ProductionInv' /\ ReviewIsNotTakenBack
<1> SUFFICES ASSUME ProductionInv, [ProductionNext]_pvars
             PROVE  ProductionInv' /\ ReviewIsNotTakenBack
    OBVIOUS
<1>0. runs' = runs => ReviewIsNotTakenBack
    BY DEF ReviewIsNotTakenBack
<1>1. CASE PublishFormalFiles \/ PublishAuthority \/ UNCHANGED pvars
    BY <1>0, <1>1, OutsideKeeps
<1>2. ASSUME NEW b \in Builders,
             \/ NameRun(b) \/ OpenRun(b) \/ Analyse(b) \/ HashAfter(b) \/ RecordAnalysis(b)
             \/ FindRun(b) \/ RecomputeId(b) \/ Rebuild(b) \/ HashAgain(b) \/ HashBefore(b)
             \/ Compile(b) \/ CheckProtected(b) \/ RecordReport(b) \/ Complete(b)
             \/ KillBuilder(b)
      PROVE  ProductionInv' /\ ReviewIsNotTakenBack
  <2>1. CASE \/ NameRun(b) \/ FindRun(b) \/ RecomputeId(b) \/ Rebuild(b) \/ HashAgain(b)
             \/ HashBefore(b)
      BY <1>0, <2>1, LookIsTaken
  <2>2. CASE KillBuilder(b)
      BY <1>0, <2>2, GiveUpKeeps DEF KillBuilder
  <2>3. CASE OpenRun(b) \/ Analyse(b) \/ HashAfter(b) \/ RecordAnalysis(b)
    <3>1. authority' = authority
        BY <2>3 DEF OpenRun, Analyse, HashAfter, RecordAnalysis
    <3>2. CASE GiveUp(b) /\ runs' = runs
        BY <1>0, <3>1, <3>2, GiveUpKeeps
    <3>3. CASE ~ (GiveUp(b) /\ runs' = runs)
      <4>1. ProductionInv'
          BY <2>3, <3>3, AnalystKeeps
      <4>2. ReviewIsNotTakenBack
        <5>1. PICK id \in RunIds :
                 /\ \A other \in RunIds : other # id => runs'[other] = runs[other]
                 /\ \/ builder[b].pc = "named" /\ runs[id].state = "none"
                    \/ WorksOn(b, id, Analysing)
            BY <2>3, <3>3, AnalysisMoves DEF ProductionInv, WorksOn
        <5>2. runs[id].state # "review"
            BY <5>1 DEF ProductionInv, AnalystIsAlone
        <5> QED
            BY <5>1, <5>2 DEF ReviewIsNotTakenBack, ProductionInv, ProductionTypeOK
      <4> QED
          BY <4>1, <4>2
    <3> QED
        BY <3>2, <3>3
  <2>4. CASE Compile(b) \/ CheckProtected(b) \/ RecordReport(b) \/ Complete(b)
    <3>1. authority' = authority
        BY <2>4 DEF Compile, CheckProtected, RecordReport, Complete
    <3>2. CASE GiveUp(b) /\ runs' = runs
        BY <1>0, <3>1, <3>2, GiveUpKeeps
    <3>3. CASE ~ (GiveUp(b) /\ runs' = runs)
        BY <2>4, <3>3, ReporterKeeps
    <3> QED
        BY <3>2, <3>3
  <2> QED
      BY <1>2, <2>1, <2>2, <2>3, <2>4
<1> QED
    BY <1>1, <1>2 DEF ProductionNext

LEMMA ProductionInvHolds == ProductionSpec => []ProductionInv
BY ProductionStarts, ProductionInvInductive, PTL DEF ProductionSpec

(* However publishes, rollbacks, triggers and builders interleave, a          *)
(* quarterly report rests on the analysis of the very files that its run is   *)
(* named after, unless a publisher changed them within its own checkpoint     *)
(* (_validate_quarterly_checkpoint).                                          *)
THEOREM ReportsRestOnTheirAuthority == ProductionSpec => []ReportRestsOnNamedAuthority
<1>1. ProductionInv => ReportRestsOnNamedAuthority
    BY DEF ProductionInv, ProductionTypeOK, ReportsAreOut, Rests, ReportRestsOnNamedAuthority
<1> QED
    BY <1>1, ProductionInvHolds, PTL

(* No builder takes a candidate back that stands under the owner's review.    *)
THEOREM ReviewsStand == ProductionSpec => ReviewIsNeverTakenBack
<1>1. ProductionInv /\ [ProductionNext]_pvars => [ReviewIsNotTakenBack]_pvars
    BY ProductionInvInductive
<1> QED
    BY <1>1, ProductionInvHolds, PTL DEF ProductionSpec, ReviewIsNeverTakenBack
=============================================================================
