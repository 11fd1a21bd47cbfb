--------------------------- MODULE ResearchLedger ---------------------------
(* One ledger of the research plugin: an append-only file of chained records, *)
(* and its replay.  An appender reads and checks the whole file, and appends  *)
(* one line later, without a lock; killed while it writes, it leaves a line   *)
(* that nobody can read, or one that lacks only its end, to which the next    *)
(* appender adds its own.  An append checks the event, only the replay checks *)
(* that the event was possible.  The aggregates are knowledge gaps.           *)
EXTENDS Naturals, Sequences, FiniteSets

CONSTANTS Gaps, Appenders,
          MaxRecords,   \* bound on the lines of the ledger
          NoRecord      \* nothing; also the hash before the first record

ASSUME AppendersAreFinite == IsFiniteSet(Appenders)

VARIABLES log,       \* the lines of the file
          cut,       \* whether the last one lacks its end
          appender   \* per appender: the record it is about to write
gvars == <<log, cut, appender>>

LedgerInit ==
    /\ log = <<>> /\ cut = FALSE
    /\ appender = [p \in Appenders |-> NoRecord]

-----------------------------------------------------------------------------
(* The gap's part of the state transition contract. *)
Final == {"RESOLVED", "ACCEPTED_UNKNOWN", "RETIRED"}
Transitions ==
    [NONE               |-> {"OPEN"},
     OPEN               |-> {"INVESTIGATING", "ACCEPTED_UNKNOWN", "RETIRED"},
     INVESTIGATING      |-> {"PARTIALLY_RESOLVED"} \cup Final,
     PARTIALLY_RESOLVED |-> {"INVESTIGATING"} \cup Final,
     RESOLVED           |-> {"INVESTIGATING", "RETIRED"},
     ACCEPTED_UNKNOWN   |-> {"INVESTIGATING", "RETIRED"},
     RETIRED            |-> {},
     REFUSED            |-> {}]

(* Evidence is only asked for with a resolution.  A proposed resolution is an *)
(* event of the gap that leads to no state.                                   *)
Writings ==
    {event \in [gap : Gaps, to : (DOMAIN Transitions \ {"NONE", "REFUSED"}) \cup {"PROPOSED"},
                evidence : BOOLEAN] : event.evidence => event.to = "RESOLVED"}

(* read_records: numbered, chained, and every line whole.  The hash of a      *)
(* record is the record itself.                                               *)
Chained(lines) ==
    \A i \in DOMAIN lines :
        /\ lines[i] # NoRecord
        /\ lines[i].seq = i
        /\ lines[i].prev = IF i = 1 THEN NoRecord ELSE lines[i - 1]

(* Mutant: the file is counted and not checked.                               *)
ReadToAppendUnchecked(p, event) ==
    /\ appender[p] = NoRecord /\ Len(log) < MaxRecords
    /\ appender' = [appender EXCEPT ![p] =
          [seq |-> Len(log) + 1, event |-> event,
           prev |-> IF log = <<>> THEN NoRecord ELSE log[Len(log)]]]
    /\ UNCHANGED <<log, cut>>

(* append_event up to the write. *)
ReadToAppend(p, event) ==
    /\ appender[p] = NoRecord /\ Len(log) < MaxRecords
    /\ Chained(log)
    /\ appender' = [appender EXCEPT ![p] =
          [seq |-> Len(log) + 1, event |-> event,
           prev |-> IF log = <<>> THEN NoRecord ELSE log[Len(log)]]]
    /\ UNCHANGED <<log, cut>>

(* What is written comes behind what is there: two lines in one are none. *)
Lines(written) == IF cut THEN [log EXCEPT ![Len(log)] = NoRecord] ELSE Append(log, written)

WriteLine(p) ==
    /\ appender[p] # NoRecord
    /\ log' = Lines(appender[p]) /\ cut' = FALSE
    /\ appender' = [appender EXCEPT ![p] = NoRecord]

KillAppender(p) ==
    /\ appender[p] # NoRecord
    /\ \/ UNCHANGED <<log, cut>>
       \/ log' \in {Lines(NoRecord), Lines(appender[p])} /\ cut' = TRUE
    /\ appender' = [appender EXCEPT ![p] = NoRecord]

LedgerNext ==
    \E p \in Appenders :
        (\E event \in Writings : ReadToAppend(p, event)) \/ WriteLine(p) \/ KillAppender(p)

LedgerSpec == LedgerInit /\ [][LedgerNext]_gvars

-----------------------------------------------------------------------------
(* Mutant: the contract is asked only how a gap begins.                       *)
PermittedFirst(state, event) == state = "NONE" => event.to = "OPEN"

(* validate_transition: a resolution needs evidence. *)
Permitted(state, event) ==
    /\ event.to \in Transitions[state]
    /\ event.to = "RESOLVED" => event.evidence

(* replay_ledger: the state of a gap, or that the replay stops there.  An     *)
(* event without a state is counted, and permitted at any time.               *)
Replay(gap) ==
    LET state[i \in 0..Len(log)] ==
            IF i = 0 THEN "NONE"
            ELSE IF log[i].event.gap # gap \/ log[i].event.to = "PROPOSED" THEN state[i - 1]
            ELSE IF Permitted(state[i - 1], log[i].event) THEN log[i].event.to
            ELSE "REFUSED"
    IN  state[Len(log)]

(* The events that the replay asks the contract about. *)
MovesOf(gap) == {i \in DOMAIN log : log[i].event.gap = gap /\ log[i].event.to # "PROPOSED"}

-----------------------------------------------------------------------------
(* Appenders that overlap or die spoil no more than their own records: after  *)
(* the last line that every reader accepts there are at most as many others   *)
(* as there are appenders, because nobody goes on from a broken chain.        *)
DamageIsBounded ==
    \E n \in 0..Len(log) :
        Chained(SubSeq(log, 1, n)) /\ Len(log) - n <= Cardinality(Appenders)

(* What the replay reports as resolved was opened first, investigated, and    *)
(* resolved with evidence after its last investigation began; and a retired   *)
(* gap went into no other state.  Proposals of a resolution are left aside:   *)
(* the replay takes one at any time, also of a gap that was never opened, or  *)
(* that is retired.                                                           *)
ReplayTellsTheWholeStory ==
    Chained(log) => \A gap \in Gaps :
        /\ Replay(gap) = "RESOLVED" => \E i, j, k \in MovesOf(gap) :
              /\ i < j /\ j < k
              /\ log[i].event.to = "OPEN" /\ log[j].event.to = "INVESTIGATING"
              /\ log[k].event.to = "RESOLVED" /\ log[k].event.evidence
              /\ \A other \in MovesOf(gap) : other <= k
        /\ Replay(gap) # "REFUSED" => \A i, j \in MovesOf(gap) :
              log[i].event.to = "RETIRED" => j <= i
=============================================================================
