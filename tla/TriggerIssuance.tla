-------------------------- MODULE TriggerIssuance --------------------------
(* The permission to search once.  An issuer seals a receipt for a validated  *)
(* trigger and enters it in the index of issuances; a governed search loads   *)
(* the entry, marks it consumed and only then calls the provider.  Consumers  *)
(* exclude each other by a lock directory; issuers rewrite the same index     *)
(* without it.  Any of these processes may be killed between two steps.       *)
EXTENDS Naturals

CONSTANTS Issuances,   \* receipt ids, each a hash of one trigger and one run
          Issuers, Searchers,
          Nobody

VARIABLES sealed,      \* receipts on file
          index,       \* the entry of each issuance
          locked,      \* the lock directory of the consumers
          issuer,      \* per issuer: its step, its issuance, the index it read
          searcher,    \* per search: the same
          calls,       \* history: calls of the provider under an issuance
          revived      \* history: consumed entries an issuer wrote back

ivars == <<sealed, index, locked, issuer, searcher, calls, revived>>

NoTask == [pc |-> "idle", id |-> Nobody, seen |-> [i \in Issuances |-> "ABSENT"]]

IssuanceInit ==
    /\ sealed = {} /\ index = NoTask.seen
    /\ locked = FALSE
    /\ issuer = [p \in Issuers |-> NoTask]
    /\ searcher = [p \in Searchers |-> NoTask]
    /\ calls = [i \in Issuances |-> 0]
    /\ revived = {}

-----------------------------------------------------------------------------
(* issue_trusted_trigger_issuance: the receipt first, written once ... *)
SealReceipt(p, i) ==
    /\ issuer[p].pc = "idle"
    /\ sealed' = sealed \cup {i}
    /\ issuer' = [issuer EXCEPT ![p].pc = "sealed", ![p].id = i]
    /\ UNCHANGED <<index, locked, searcher, calls, revived>>

(* ... then the index: an entry that is there must be the one to be entered,  *)
(* so that one already consumed collides and nothing is written.              *)
ReadIndex(p) ==
    /\ issuer[p].pc = "sealed"
    /\ issuer' = [issuer EXCEPT ![p] =
                    IF index[issuer[p].id] = "ABSENT"
                    THEN [@ EXCEPT !.pc = "read", !.seen = index]
                    ELSE NoTask]
    /\ UNCHANGED <<sealed, index, locked, searcher, calls, revived>>

EnterInIndex(p) ==
    /\ issuer[p].pc = "read"
    /\ index' = [issuer[p].seen EXCEPT ![issuer[p].id] = "ISSUED"]
    /\ revived' = revived \cup
                    {i \in Issuances : index[i] = "CONSUMED" /\ index'[i] # "CONSUMED"}
    /\ issuer' = [issuer EXCEPT ![p] = NoTask]
    /\ UNCHANGED <<sealed, locked, searcher, calls>>

-----------------------------------------------------------------------------
(* load_validated_research_skill_trigger_capability: only an entry that is    *)
(* issued, with its receipt, becomes a capability.                            *)
LoadCapability(s, i) ==
    /\ searcher[s].pc = "idle"
    /\ index[i] = "ISSUED" /\ i \in sealed
    /\ searcher' = [searcher EXCEPT ![s].pc = "loaded", ![s].id = i]
    /\ UNCHANGED <<sealed, index, locked, issuer, calls, revived>>

(* consume_once.  A lock that is taken ends the search. *)
TakeLock(s) ==
    /\ searcher[s].pc = "loaded"
    /\ IF locked
       THEN searcher' = [searcher EXCEPT ![s] = NoTask] /\ locked' = locked
       ELSE searcher' = [searcher EXCEPT ![s].pc = "locked"] /\ locked' = TRUE
    /\ UNCHANGED <<sealed, index, issuer, calls, revived>>

(* Mutant: the entry is not compared again under the lock.                    *)
ReadUnderLockUnchecked(s) ==
    /\ searcher[s].pc = "locked"
    /\ searcher' = [searcher EXCEPT ![s].pc = "read", ![s].seen = index]
    /\ UNCHANGED <<sealed, index, locked, issuer, calls, revived>>

(* The index is read again under the lock. *)
ReadUnderLock(s) ==
    /\ searcher[s].pc = "locked"
    /\ searcher' = [searcher EXCEPT
          ![s].pc = IF index[searcher[s].id] = "ISSUED" THEN "read" ELSE "refused",
          ![s].seen = index]
    /\ UNCHANGED <<sealed, index, locked, issuer, calls, revived>>

MarkConsumed(s) ==
    /\ searcher[s].pc = "read"
    /\ index' = [searcher[s].seen EXCEPT ![searcher[s].id] = "CONSUMED"]
    /\ searcher' = [searcher EXCEPT ![s].pc = "written"]
    /\ UNCHANGED <<sealed, locked, issuer, calls, revived>>

VerifyConsumed(s) ==
    /\ searcher[s].pc = "written"
    /\ searcher' = [searcher EXCEPT ![s].pc =
          IF index[searcher[s].id] = "CONSUMED" THEN "verified" ELSE "refused"]
    /\ UNCHANGED <<sealed, index, locked, issuer, calls, revived>>

(* The lock goes with success and failure alike. *)
ReleaseLock(s) ==
    /\ searcher[s].pc \in {"verified", "refused"}
    /\ locked' = FALSE
    /\ searcher' = [searcher EXCEPT ![s] =
          IF @.pc = "verified" THEN [@ EXCEPT !.pc = "consumed"] ELSE NoTask]
    /\ UNCHANGED <<sealed, index, issuer, calls, revived>>

(* execute_governed_search: one call, whether it succeeds or not; a permission *)
(* is spent either way.                                                       *)
CallProvider(s) ==
    /\ searcher[s].pc = "consumed"
    /\ calls' = [calls EXCEPT ![searcher[s].id] = @ + 1]
    /\ searcher' = [searcher EXCEPT ![s] = NoTask]
    /\ UNCHANGED <<sealed, index, locked, issuer, revived>>

(* A killed consumer leaves its lock; nothing ever removes it. *)
KillSearch ==
    /\ \/ \E p \in Issuers :
             /\ issuer[p].pc # "idle"
             /\ issuer' = [issuer EXCEPT ![p] = NoTask] /\ searcher' = searcher
       \/ \E s \in Searchers :
             /\ searcher[s].pc # "idle"
             /\ searcher' = [searcher EXCEPT ![s] = NoTask] /\ issuer' = issuer
    /\ UNCHANGED <<sealed, index, locked, calls, revived>>

IssuanceNext ==
    \/ \E p \in Issuers :
          \/ \E i \in Issuances : SealReceipt(p, i)
          \/ ReadIndex(p) \/ EnterInIndex(p)
    \/ \E s \in Searchers :
          \/ \E i \in Issuances : LoadCapability(s, i)
          \/ TakeLock(s) \/ ReadUnderLock(s) \/ MarkConsumed(s) \/ VerifyConsumed(s)
          \/ ReleaseLock(s) \/ CallProvider(s)
    \/ KillSearch

IssuanceSpec == IssuanceInit /\ [][IssuanceNext]_ivars

-----------------------------------------------------------------------------
(* One permission, one call: unless an issuer wrote a consumed entry back,    *)
(* searches that loaded the same entry at the same time call the provider at  *)
(* most once between them, whoever is killed and whatever else is entered.    *)
OneCallUnlessRevived ==
    \A i \in Issuances \ revived :
        /\ calls[i] <= 1
        /\ calls[i] = 1 => index[i] # "ISSUED"
=============================================================================
