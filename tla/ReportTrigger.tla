--------------------------- MODULE ReportTrigger ---------------------------
(* From an official scan to a report trigger.  A scan visits the sources and   *)
(* keeps what it fetched; the ingestion seals what the scan found of one event *)
(* as the integration; the launcher evaluates the integration into a receipt, *)
(* kept once under its decision id and once as the latest decision.           *)
(*                                                                            *)
(* Evidence is reduced to the claims it makes about one event and to whether  *)
(* it is confirmed.  Time is the number of scans and ordinary-day evaluations *)
(* so far; it stands for every time stamp.  A launcher may be killed between  *)
(* two files, and two launchers on one package evaluate independently: each   *)
(* looks whether its receipt is on file before it writes it, without a lock.  *)
EXTENDS Naturals, FiniteSets

CONSTANTS Events,    \* the events that evidence may be about
          Major,     \* those of them that need an approved baseline
          Claims,    \* what the evidence of an event may say
          Evaluators,
          MaxTime,   \* bound on scans and ordinary-day evaluations
          NoReceipt,
          NoEvent    \* no event; also the key of an ordinary day

ASSUME NoEventIsNoEvent == NoEvent \notin Events

VARIABLES time,
          integration,  \* what the last ingested scan found
          bound,        \* whether the registry has an approved baseline
          receipts,     \* decision_receipts/
          replaced,     \* receipts that another launcher wrote over
          latest,       \* latest_decision.json
          eval          \* per evaluator: its step and the receipt it computed

tvars == <<time, integration, bound, receipts, replaced, latest, eval>>

NoEvidence == [event |-> NoEvent, claims |-> NoEvent, confirmed |-> FALSE, at |-> 0]

TriggerInit ==
    /\ time = 0
    /\ integration = NoEvidence
    /\ bound \in BOOLEAN
    /\ receipts = {} /\ replaced = {} /\ latest = NoReceipt
    /\ eval = [p \in Evaluators |-> [pc |-> "idle", receipt |-> NoReceipt]]

-----------------------------------------------------------------------------
(* integrate_official_ir: what the scan found of its active event, or that it *)
(* found nothing.  Official documents confirm their event; the orchestrator's *)
(* other results need not, and only their claims about an event may change.   *)
Integrations(at) ==
    {[NoEvidence EXCEPT !.at = at]} \cup
    [event : Events, claims : Claims, confirmed : BOOLEAN, at : {at}]

(* scan and ingestion.  Every source answers, has nothing, or fails; the      *)
(* active event is one that a document was found about.  A scan in which no   *)
(* source answered is closed and leaves the integration alone; any other      *)
(* replaces it, also by one without evidence when a single source failed.     *)
ScanAndIngest ==
    /\ time < MaxTime
    /\ time' = time + 1
    /\ integration' \in Integrations(time')
    /\ UNCHANGED <<bound, receipts, replaced, latest, eval>>

(* The owner's registry of baselines is edited outside these programs. *)
EditRegistry ==
    /\ bound' = ~ bound
    /\ UNCHANGED <<time, integration, receipts, replaced, latest, eval>>

-----------------------------------------------------------------------------
(* Mutant: the chain goes on from the decision before the previous one.       *)
IdentitySkipsOne(event, claims, previous) ==
    IF previous # NoReceipt /\ previous.id.event = event
    THEN IF previous.claims = claims
         THEN [rev |-> previous.id.rev, prev |-> previous.id.prev]
         ELSE [rev |-> previous.id.rev + 1, prev |-> previous.id.prev]
    ELSE [rev |-> 1, prev |-> NoReceipt]

(* _report_identity: a revision is one set of claims of one event, as long as *)
(* no other event comes between.                                              *)
Identity(event, claims, previous) ==
    IF previous # NoReceipt /\ previous.id.event = event
    THEN IF previous.claims = claims
         THEN [rev |-> previous.id.rev, prev |-> previous.id.prev]
         ELSE [rev |-> previous.id.rev + 1, prev |-> previous.id]
    ELSE [rev |-> 1, prev |-> NoReceipt]

(* _baseline_binding. *)
Binding(event, confirmed) ==
    IF event \in Major /\ confirmed
    THEN IF bound THEN "BOUND" ELSE "FAIL_CLOSED"
    ELSE "NOT_REQUIRED"

(* The decision id is a hash of the decision and not of the whole receipt:    *)
(* neither the claims nor the baseline nor the integration are in it.         *)
Receipt(at, identity) ==
    LET i == integration
    IN  [id |-> [event |-> i.event, rev |-> identity.rev, at |-> at,
                 confirmed |-> i.confirmed, prev |-> identity.prev],
         claims |-> i.claims, from |-> i.at,
         binding |-> Binding(i.event, i.confirmed),
         valid |-> /\ i.event # NoEvent /\ i.confirmed
                   /\ i.event \in Major => bound]

(* An ordinary day is stamped with the time of the evaluation. *)
Decision ==
    IF integration.event = NoEvent
    THEN Receipt(time, [rev |-> 1, prev |-> NoReceipt])
    ELSE Receipt(integration.at,
                 Identity(integration.event, integration.claims, latest))

(* evaluate_and_persist up to its first write. *)
Evaluate(p) ==
    /\ eval[p].pc = "idle"
    /\ eval' = [eval EXCEPT ![p] = [pc |-> "decided", receipt |-> Decision]]
    /\ UNCHANGED <<time, integration, bound, receipts, replaced, latest>>

(* The day goes by: later evaluations of an ordinary day differ. *)
DayPasses ==
    /\ time < MaxTime
    /\ time' = time + 1
    /\ UNCHANGED <<integration, bound, receipts, replaced, latest, eval>>

(* atomic_write_json(overwrite=False) looks first, and what is there must be  *)
(* the same.                                                                  *)
LookForReceipt(p) ==
    LET r == eval[p].receipt
        there == {other \in receipts : other.id = r.id}
    IN  /\ eval[p].pc = "decided"
        /\ eval' = [eval EXCEPT ![p] =
                       IF there \subseteq {r}
                       THEN [pc |-> IF there = {} THEN "free" ELSE "sealed", receipt |-> r]
                       ELSE [pc |-> "idle", receipt |-> NoReceipt]]
        /\ UNCHANGED <<time, integration, bound, receipts, replaced, latest>>

(* os.replace: what came under the same name meanwhile is written over. *)
WriteReceipt(p) ==
    LET r == eval[p].receipt
        there == {other \in receipts : other.id = r.id}
    IN  /\ eval[p].pc = "free"
        /\ receipts' = (receipts \ there) \cup {r}
        /\ replaced' = replaced \cup (there \ {r})
        /\ eval' = [eval EXCEPT ![p].pc = "sealed"]
        /\ UNCHANGED <<time, integration, bound, latest>>

PointLatest(p) ==
    /\ eval[p].pc = "sealed"
    /\ latest' = eval[p].receipt
    /\ eval' = [eval EXCEPT ![p] = [pc |-> "idle", receipt |-> NoReceipt]]
    /\ UNCHANGED <<time, integration, bound, receipts, replaced>>

KillEvaluator(p) ==
    /\ eval[p].pc # "idle"
    /\ eval' = [eval EXCEPT ![p] = [pc |-> "idle", receipt |-> NoReceipt]]
    /\ UNCHANGED <<time, integration, bound, receipts, replaced, latest>>

TriggerNext ==
    \/ ScanAndIngest
    \/ DayPasses
    \/ EditRegistry
    \/ \E p \in Evaluators :
          \/ Evaluate(p) \/ LookForReceipt(p) \/ WriteReceipt(p) \/ PointLatest(p)
          \/ KillEvaluator(p)

TriggerSpec == TriggerInit /\ [][TriggerNext]_tvars

-----------------------------------------------------------------------------
(* The decisions form chains: one that revises another was computed from a    *)
(* receipt that is kept, of the same event, one revision earlier, with other  *)
(* claims.  Two launchers with one decision id can both find no receipt, and  *)
(* then the second writes over the first's, which the latest decision may     *)
(* still show; what is kept instead makes the same claims, from the same      *)
(* integration, and differs at most in what the registry of baselines said.   *)
SameDecision(r, other) ==
    r.id = other.id /\ r.claims = other.claims /\ r.from = other.from

ChainUnbroken ==
    /\ \A r \in receipts : r.id.rev > 1 =>
          \E before \in receipts :
              /\ before.id = r.id.prev /\ before.id.event = r.id.event
              /\ before.id.rev = r.id.rev - 1 /\ before.claims # r.claims
    /\ latest # NoReceipt => latest \in receipts \cup replaced
    /\ \A r \in replaced : \E kept \in receipts : SameDecision(kept, r)
=============================================================================
