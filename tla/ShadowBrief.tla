----------------------------- MODULE ShadowBrief ----------------------------
(* The research plugin's manual shadow run: packets of evidence are routed    *)
(* and validated, a baseline is read from the formal files, a model is asked  *)
(* at most once, and the brief is kept as a run of its own and then as the    *)
(* latest candidate, which a periodic report of the same day shows.           *)
(* Runs may overlap with one another and with a publisher, and be killed.     *)
(* A packet's evidence is a set of items: their id, the fields they change,   *)
(* and what the rules look at: whether they come from a test (or an address   *)
(* nobody can follow), come from the company or the exchange, and keep from   *)
(* trading orders.  Texts, figures and the order of lists are left out.       *)
EXTENDS Naturals, Sequences

CONSTANTS Runners,       \* processes that run the plugin
          Deliveries,    \* a sequence of the sets of packets a run may be given
          Sources,       \* number of formal files the baseline is read from
          LastDay,       \* bound: the days are 1..LastDay
          MaxVersion,    \* bound: versions of a formal file
          MaxBriefs,     \* bound: runs accepted
          NoBrief        \* no candidate

ASSUME DaysAreNumbers ==
    /\ LastDay \in Nat
    /\ \A given \in DOMAIN Deliveries : \A p \in Deliveries[given] :
          p.from \in Nat /\ p.until \in Nat

VARIABLES files,         \* the version of each formal file
          run,           \* what each runner is at
          begun,         \* number of runs accepted so far
          filed,         \* the briefs under runs/
          candidate,     \* latest_report_candidate.json
          raced          \* ghost: briefs for whose place two runs looked at once

bvars == <<files, run, begun, filed, candidate, raced>>

Days == 1..LastDay
Idle == [pc |-> "idle"]

-----------------------------------------------------------------------------
(* Packets, the route and the gates.                                          *)

Signals(packets) == UNION {p.signals : p \in packets}
Evidence(packets) == UNION {p.evidence : p \in packets}
Material(packets) == "material" \in Signals(packets)
Fields(items) == UNION {i.fields : i \in items}

(* The plugins a run must have a packet of, which are the only ones it may    *)
(* have; and whether the model is asked.                                      *)
Route(type, signals) ==
    {"search"}
    \cup (IF CASE type = "daily" -> "anomaly" \in signals
               [] type = "event" -> "figures" \in signals
               [] OTHER -> TRUE
          THEN {"analytics"} ELSE {})
    \cup (IF CASE type = "daily" -> "deal" \in signals
               [] type = "monthly" -> FALSE
               [] OTHER -> TRUE
          THEN {"banking"} ELSE {})

AsksTheModel(type, signals) == type = "daily" => "material" \in signals

Reportable == {"revenue", "EPS", "margins", "valuation", "fx_impact"}

Validated(type, day, packets) ==
    /\ \A p \in packets : type \in p.types /\ p.from <= day /\ day <= p.until
    /\ \A p \in packets : p.from <= p.until /\ ("material" \in p.signals => p.evidence # {})
    /\ Fields(Evidence(packets)) \subseteq Reportable
    /\ {p.plugin : p \in packets} = Route(type, Signals(packets))
    /\ \A p, q \in packets : p.plugin = q.plugin => p = q
    /\ \A p, q \in packets : \A i \in p.evidence, j \in q.evidence :
          i.id = j.id => p = q /\ i = j
    /\ AsksTheModel(type, Signals(packets)) <=> Material(packets)
    /\ Material(packets) <=> Evidence(packets) # {}

LiveEvidence(type, packets) ==
    \A i \in Evidence(packets) :
        /\ ~i.test
        /\ type = "monthly" /\ "revenue" \in i.fields => i.official

(* What the provider may come back with.  The client allows it one search.    *)
Answers == [named : BOOLEAN, searches : 0..2, completed : BOOLEAN,
            cited : BOOLEAN, neutral : BOOLEAN]

AnswerIsSound(a) ==
    /\ a.named /\ a.searches <= 1 /\ a.neutral
    /\ IF a.searches = 1 THEN a.completed /\ a.cited ELSE ~a.cited

(* The brief's own contract, for a brief without or with a model's answer.    *)
BriefIsSound(packets) ==
    /\ Material(packets) <=> Fields(Evidence(packets)) # {}
    /\ \A i \in Evidence(packets) : i.neutral

-----------------------------------------------------------------------------
Packets(made) == Deliveries[made.given]

(* A live brief has a number of its own; a mock one is named after what it    *)
(* was made from, where evidence counts by its ids.                           *)
SameName(a, b) ==
    /\ a.no = b.no
    /\ a.no = 0 => /\ <<a.type, a.day, a.baseline>> = <<b.type, b.day, b.baseline>>
                   /\ {i.id : i \in Evidence(Packets(a))} = {i.id : i \in Evidence(Packets(b))}

Brief(r) ==
    [no |-> run[r].no, type |-> run[r].type, day |-> run[r].day,
     baseline |-> run[r].baseline, given |-> run[r].given]

GoesTo(r, pc) == run' = [run EXCEPT ![r].pc = pc]
Ends(r) == run' = [run EXCEPT ![r] = Idle]

BriefInit ==
    /\ files = [f \in 1..Sources |-> 0]
    /\ run = [r \in Runners |-> Idle]
    /\ begun = 0 /\ filed = {} /\ candidate = NoBrief /\ raced = {}

Types == {"daily", "monthly", "quarterly", "event"}

(* Someone has the plugin run: the packets are routed by their own signals    *)
(* and validated before anything is read.                                     *)
Begin(r, type, day, given, live) ==
    /\ run[r] = Idle /\ begun < MaxBriefs
    /\ Validated(type, day, Deliveries[given])
    /\ begun' = begun + 1
    /\ run' = [run EXCEPT ![r] =
         [pc |-> "read", no |-> IF live THEN begun + 1 ELSE 0, type |-> type, day |-> day,
          given |-> given, baseline |-> <<>>]]
    /\ UNCHANGED <<files, filed, candidate, raced>>

(* The formal files are read one after the other.                             *)
Read(r) ==
    /\ run[r].pc = "read"
    /\ LET read == Append(run[r].baseline, files[Len(run[r].baseline) + 1])
       IN  run' = [run EXCEPT ![r].baseline = read,
                              ![r].pc = IF Len(read) = Sources THEN "compose" ELSE "read"]
    /\ UNCHANGED <<files, begun, filed, candidate, raced>>

(* The model is asked once when there is something to tell; a live run that   *)
(* has not asked has no answer to name, and is refused.                       *)
Compose(r) ==
    /\ run[r].pc = "compose"
    /\ \E sound \in {AnswerIsSound(a) : a \in Answers} :
         LET packets == Packets(run[r])
             answered == LiveEvidence(run[r].type, packets) /\ Material(packets) /\ sound
         IN  IF BriefIsSound(packets) /\ (run[r].no # 0 => answered)
             THEN GoesTo(r, "look") ELSE Ends(r)
    /\ UNCHANGED <<files, begun, filed, candidate, raced>>

(* Mutant: a run that is there is not in the way.                             *)
LookNowhere(r) ==
    /\ run[r].pc = "look"
    /\ GoesTo(r, "file")
    /\ UNCHANGED <<files, begun, filed, candidate, raced>>

(* A run's place must be free ...                                             *)
Look(r) ==
    /\ run[r].pc = "look"
    /\ IF \E b \in filed : SameName(b, Brief(r))
       THEN Ends(r) /\ UNCHANGED raced
       ELSE LET rivals == {s \in Runners : run[s].pc = "file" /\ SameName(Brief(s), Brief(r))}
            IN  /\ GoesTo(r, "file")
                /\ raced' = IF rivals = {} THEN raced
                            ELSE raced \cup {Brief(s) : s \in rivals \cup {r}}
    /\ UNCHANGED <<files, begun, filed, candidate>>

(* ... and is then taken, whatever has come there since.                      *)
File(r) ==
    /\ run[r].pc = "file"
    /\ filed' = {b \in filed : ~SameName(b, Brief(r))} \cup {Brief(r)}
    /\ GoesTo(r, "latest")
    /\ UNCHANGED <<files, begun, candidate, raced>>

Latest(r) ==
    /\ run[r].pc = "latest"
    /\ candidate' = Brief(r)
    /\ Ends(r)
    /\ UNCHANGED <<files, begun, filed, raced>>

(* The process is killed, or ends with an error of its surroundings: a file   *)
(* without a row for the day, no credentials, a provider out of reach.        *)
Kill(r) ==
    /\ run[r] # Idle
    /\ Ends(r)
    /\ UNCHANGED <<files, begun, filed, candidate, raced>>

(* A publisher of formal data replaces its files one after the other.         *)
Publish(f) ==
    /\ files[f] < MaxVersion
    /\ files' = [files EXCEPT ![f] = @ + 1]
    /\ UNCHANGED <<run, begun, filed, candidate, raced>>

BriefNext ==
    \/ \E r \in Runners :
         \/ \E given \in DOMAIN Deliveries, day \in Days, type \in Types, live \in BOOLEAN :
              Begin(r, type, day, given, live)
         \/ Read(r) \/ Compose(r) \/ Look(r) \/ File(r) \/ Latest(r) \/ Kill(r)
    \/ \E f \in 1..Sources : Publish(f)

BriefSpec == BriefInit /\ [][BriefNext]_bvars

-----------------------------------------------------------------------------
(* What a periodic report of a day appends.                                   *)
ShadowCandidate(day) ==
    IF candidate # NoBrief /\ candidate.day = day THEN candidate ELSE NoBrief

(* What a periodic report shows can be traced: the brief is on file just as   *)
(* shown, although runs of one name may meet or be killed half-way (only two  *)
(* that looked for their place at once may part); every field it says changed *)
(* is claimed by an item of exactly one packet, meant for this kind of run    *)
(* and valid on the day; it claims a change exactly when it has evidence of   *)
(* one; and a live brief carries nothing that came from a test.               *)
ShownBriefIsBorneOut ==
    \A day \in Days : LET brief == ShadowCandidate(day) IN brief # NoBrief =>
        /\ brief \in filed \cup raced
        /\ \A i \in Evidence(Packets(brief)) : \E p \in Packets(brief) :
              /\ i \in p.evidence
              /\ \A q \in Packets(brief) \ {p} : \A j \in q.evidence : j.id # i.id
              /\ brief.type \in p.types /\ day \in p.from..p.until
        /\ Material(Packets(brief)) <=> Fields(Evidence(Packets(brief))) # {}
        /\ brief.no # 0 => \A i \in Evidence(Packets(brief)) : ~i.test
=============================================================================
