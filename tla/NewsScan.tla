------------------------------ MODULE NewsScan -------------------------------
(* The scan of the news sources (warroom_news_scanner_v2.py).  A state file   *)
(* remembers between scans which source is to be left alone: one that refuses *)
(* (HTTP 403) for a day, a weekly one for a week after it was read.  A scan   *)
(* reads the file at its beginning, asks the sources one after the other, and *)
(* writes the file back as a whole; scans of the launcher and of the Owner    *)
(* may overlap.  From what it found it decides whether an event has to be     *)
(* reviewed.                                                                  *)
EXTENDS Naturals, FiniteSets

CONSTANTS Scanners,
          Cooldown, Week,    \* the two spans
          MaxUrls,           \* addresses of a source
          MaxTime,           \* bound: time
          Articles,          \* the rows that may tell of an event
          MaxTold,           \* bound: rows that tell of one event
          Unnamed            \* a source that is not named

ASSUME SpansAreTimes == Cooldown \in Nat /\ Week \in Nat \ {0} /\ MaxUrls \in Nat

VARIABLES time,
          memory,     \* the state file
          scan,       \* per scanner
          due,        \* history: when a source may be asked, by all that was saved
          forgotten   \* history: sources of which something saved was overwritten

nvars == <<time, memory, scan, due, forgotten>>

(* The two sources the file matters for, in the order of the manifest. *)
Sources == {"refusing", "weekly"}
After(source) == IF source = "refusing" THEN "weekly" ELSE "none"

Torn == [emptied |-> TRUE]
Idle == [pc |-> "idle"]

-----------------------------------------------------------------------------
(* How an address answers: a page, or the class of the error; refused         *)
(* connections, timeouts and all others are one.                              *)
Errors == {"FORBIDDEN", "NO_SUCH_PAGE", "FAILED"}

(* PowerShell is tried on the errors that it may help against; its own error  *)
(* is never taken.                                                            *)
ByPowerShell(https, powershell) ==
    IF https = "FAILED" /\ powershell = "PAGE"
    THEN "PAGE" ELSE https

(* The browser is tried unless the server forbids it.  A page that it shows   *)
(* is a page, whatever status it came with.                                   *)
ByBrowser(answer, browser) ==
    IF answer # "FORBIDDEN" /\ browser = "PAGE" THEN "PAGE" ELSE answer

Fetched(https, powershell, browser) ==
    ByBrowser(ByPowerShell(https, powershell), browser)

Answers == {Fetched(h, p, b) : h, p, b \in Errors \cup {"PAGE"}}

-----------------------------------------------------------------------------
(* A source is left alone: a weekly one within a week of being read, the one  *)
(* that refuses while it cools down.                                          *)
LeaveAlone(source, now, held) ==
    \/ source = "weekly" /\ held.read > 0 /\ now < held.read + Week
    \/ source = "refusing" /\ now < held.until

(* scan_manifest_sources: what is in the file is read once, and so is the     *)
(* clock.  A torn file ends the scan.  Bound: no scan is begun once something *)
(* was forgotten.                                                             *)
BeginScan(s, online) ==
    /\ scan[s].pc = "idle" /\ memory # Torn /\ forgotten = {}
    /\ scan' = [scan EXCEPT ![s] =
           [pc |-> "turn", source |-> "refusing", now |-> time, held |-> memory,
            online |-> online, url |-> 0, read |-> FALSE, learned |-> {},
            missed |-> {}]]
    /\ UNCHANGED <<time, memory, due, forgotten>>

(* scan_source as far as its first address, for a source that is not asked. *)
PassOver(s) ==
    /\ scan[s].pc = "turn" /\ scan[s].source # "none"
    /\ ~ scan[s].online \/ LeaveAlone(scan[s].source, scan[s].now, scan[s].held)
    /\ scan' = [scan EXCEPT ![s].source = After(scan[s].source)]
    /\ UNCHANGED <<time, memory, due, forgotten>>

Turn(s) ==
    /\ scan[s].pc = "turn" /\ scan[s].source # "none"
    /\ scan[s].online /\ ~ LeaveAlone(scan[s].source, scan[s].now, scan[s].held)
    /\ scan' = [scan EXCEPT ![s].pc = "asking", ![s].url = 1, ![s].read = FALSE]
    /\ UNCHANGED <<time, memory, due, forgotten>>

(* Mutant: a success begins a new entry, which knows of no cooldown. *)
SuccessClears(source, held, now) ==
    IF source = "weekly" THEN [held EXCEPT !.read = now] ELSE [held EXCEPT !.until = 0]

(* Of a source that was read the time is noted, which only matters for the    *)
(* weekly one; how long the other cools down is kept.                         *)
Success(source, held, now) ==
    IF source = "weekly" THEN [held EXCEPT !.read = now] ELSE held

(* What the scan knows when a source's turn ends: a single page makes a       *)
(* success.                                                                   *)
TurnClosed(me) ==
    LET kept == [me EXCEPT !.pc = "turn", !.source = After(me.source), !.url = 0,
                           !.read = FALSE]
    IN  IF ~ me.read THEN kept
        ELSE [kept EXCEPT !.held = Success(me.source, me.held, me.now),
                          !.learned = IF me.source = "weekly"
                                      THEN @ \cup {me.source} ELSE @]

(* One address is asked.  The first 403 of the source that refuses ends its   *)
(* turn, and so does having enough; other errors are counted.                 *)
Ask(s) ==
    LET me == scan[s]
    IN  /\ me.pc = "asking"
        /\ \E answer \in Answers : \E enough \in {FALSE, answer = "PAGE"} :
             LET forbidden == me.source = "refusing" /\ answer = "FORBIDDEN"
                 page == answer = "PAGE"
                 asked == IF forbidden
                          THEN [me EXCEPT !.held.until = me.now + Cooldown,
                                          !.learned = @ \cup {me.source}]
                          ELSE [me EXCEPT !.url = @ + 1, !.read = @ \/ page]
             IN  scan' = [scan EXCEPT ![s] =
                     IF forbidden \/ (page /\ enough) \/ me.url = MaxUrls
                     THEN TurnClosed(asked) ELSE asked]
        /\ UNCHANGED <<time, memory, due, forgotten>>

(* write_json: the file is emptied and then written. *)
Truncate(s) ==
    /\ scan[s].pc = "turn" /\ scan[s].source = "none"
    /\ memory' = Torn
    /\ scan' = [scan EXCEPT ![s].pc = "writing"]
    /\ UNCHANGED <<time, due, forgotten>>

Span(source) == IF source = "weekly" THEN Week ELSE Cooldown

Save(s) ==
    LET me == scan[s]
        next(source) == me.now + Span(source)
    IN  /\ me.pc = "writing"
        /\ memory' = me.held
        /\ due' = [source \in Sources |->
                       IF source \in me.learned /\ next(source) > due[source]
                       THEN next(source) ELSE due[source]]
        /\ forgotten' = forgotten \cup me.missed
        /\ scan' = [p \in Scanners |->
               CASE p = s -> [pc |-> "found"]
                 [] p # s /\ scan[p].pc \in {"turn", "asking", "writing"} ->
                        [scan[p] EXCEPT !.missed = @ \cup me.learned]
                 [] OTHER -> scan[p]]
        /\ UNCHANGED time

-----------------------------------------------------------------------------
(* The rows that tell of one event, by one title (corroborate_events,         *)
(* classify_event_v2).  An article has a tier and a source, may say when it   *)
(* was published, may have an address of an article, and may be vouched for   *)
(* by the Owner as officially confirmed.                                      *)
Rank(tier) == CASE tier = "OFFICIAL"      -> 5
                [] tier = "OWNER_NOTE"    -> 4
                [] tier = "PUBLIC_MARKET" -> 3
                [] tier = "MEDIA"         -> 2
                [] OTHER                  -> 1

(* The row that stands for all: one of the best tier.  Among these the length *)
(* of their summaries decides.                                                *)
Primaries(told) == {row \in told : \A other \in told : Rank(other.tier) <= Rank(row.tier)}

Named(told) == {row.source : row \in told} \ {Unnamed}

(* Mutant: every row counts, whoever wrote it. *)
CountsRows(told) == Cardinality(told)

(* Rows that name no source are counted themselves. *)
CorroborationCount(told) ==
    IF Named(told) # {} THEN Cardinality(Named(told)) ELSE Cardinality(told)

OfficiallyConfirmed(told) == \E row \in told : row.tier = "OFFICIAL" \/ row.vouched

ArticleEvidence(row) == row.dated \/ row.article

(* The raw level is REVIEW_REQUIRED, for an event that is relevant enough. *)
RawReview(primary, told) ==
    \/ OfficiallyConfirmed(told) /\ ArticleEvidence(primary)
    \/ primary.tier \in {"MEDIA", "PUBLIC_MARKET"} /\ CorroborationCount(told) >= 2

(* And it is not lowered again. *)
ReviewRequired(primary, told) ==
    /\ RawReview(primary, told)
    /\ primary.tier # "UNVERIFIED"
    /\ ~ /\ primary.tier = "MEDIA" /\ CorroborationCount(told) < 2
         /\ ~ OfficiallyConfirmed(told)
    /\ primary.dated \/ OfficiallyConfirmed(told)
    /\ OfficiallyConfirmed(told) => ArticleEvidence(primary)

Tellings == {told \in SUBSET Articles : Cardinality(told) \in 1..MaxTold}

(* main from the corroboration on, for one event: too old, known, irrelevant  *)
(* or of a lower level, or written as a candidate to be reviewed.             *)
Classify(s) ==
    /\ scan[s].pc = "found"
    /\ \/ scan' = [scan EXCEPT ![s] = Idle]
       \/ \E told \in Tellings : \E primary \in Primaries(told) :
            /\ ReviewRequired(primary, told)
            /\ scan' = [scan EXCEPT ![s] = [pc |-> "holding", told |-> told]]
    /\ UNCHANGED <<time, memory, due, forgotten>>

End(s) ==
    /\ scan[s].pc = "holding"
    /\ scan' = [scan EXCEPT ![s] = Idle]
    /\ UNCHANGED <<time, memory, due, forgotten>>

(* At any moment; what was emptied and not written stays so. *)
Killed(s) ==
    /\ scan[s].pc # "idle"
    /\ scan' = [scan EXCEPT ![s] = Idle]
    /\ UNCHANGED <<time, memory, due, forgotten>>

Tick ==
    /\ time < MaxTime + Week
    /\ time' = time + 1
    /\ UNCHANGED <<memory, scan, due, forgotten>>

(* Time starts late enough for nothing to be recent. *)
NewsInit ==
    /\ time = Week
    /\ memory = [read |-> 0, until |-> 0]
    /\ scan = [s \in Scanners |-> Idle]
    /\ due = [source \in Sources |-> 0]
    /\ forgotten = {}

NewsNext ==
    \/ \E s \in Scanners :
          \/ \E online \in BOOLEAN : BeginScan(s, online)
          \/ PassOver(s) \/ Turn(s) \/ Ask(s)
          \/ Truncate(s) \/ Save(s) \/ Classify(s) \/ End(s) \/ Killed(s)
    \/ Tick

NewsSpec == NewsInit /\ [][NewsNext]_nvars

-----------------------------------------------------------------------------
(* A source is asked only when it is due by everything that any scan recorded *)
(* before this one began, unless overlapping scans wrote over each other's    *)
(* records: the day's rest of a source that refuses (its http403Policy) and   *)
(* the week of a weekly one survive later successes, kills and offline scans. *)
SourcesAreLeftAlone ==
    \A s \in Scanners : scan[s].pc = "asking" =>
        LET source == scan[s].source
        IN  \/ scan[s].now >= due[source]
            \/ source \in forgotten \cup scan[s].missed

(* What has to be reviewed rests on more than one medium or an official       *)
(* confirmation, and something of it can be dated or is an article            *)
(* (CODEX_DELIVERY_CHECKLIST.md:920-921): two articles of one medium are one  *)
(* source, and unverified ones alone are none.                                *)
OneMediumIsNotEnough ==
    \A s \in Scanners : scan[s].pc = "holding" =>
        LET told == scan[s].told
            tiers == {row.tier : row \in told}
        IN  /\ tiers # {"UNVERIFIED"}
            /\ \E row \in told : row.dated \/ row.article
            /\ \/ "OFFICIAL" \in tiers \/ \E row \in told : row.vouched
               \/ \E a, b \in told : a # b /\ (a.source # b.source \/ a.source = Unnamed)
=============================================================================
