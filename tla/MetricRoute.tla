---------------------------- MODULE MetricRoute -----------------------------
(* How the data fetcher gets the value of one metric in bounded time          *)
(* (warroom_data_fetcher_v2.py): the sources of its route one after the other,*)
(* for each symbol of a source up to three transports, each of them           *)
(* blocking.  The route has a deadline.  Yahoo has an allocation of its own,  *)
(* the other sources share one, which stands still while Yahoo is asked.      *)
(*                                                                            *)
(* No transport is started, and no further piece of a body is read, when less *)
(* than a reserve is left; a blocking call is given what is left beyond the   *)
(* reserve.  Calls may return late all the same, and nothing in the code says *)
(* how late: a name is looked up without a timeout; a timeout holds anew for  *)
(* every operation of a socket, so for each of connecting, TLS, sending, the  *)
(* headers and every bit of a piece; urlopen follows up to ten redirects by   *)
(* itself, each with the whole timeout; and the process may not be scheduled. *)
EXTENDS Naturals, Sequences, FiniteSets

CONSTANTS RouteTime,     \* from the start of a route to its deadline
          NonYahooTime,  \* what all other sources are given together
          YahooTime,     \* what Yahoo is given
          Reserve,
          UrllibTime, HttpsTime, ShellTime, \* configured timeouts
          Redirects,     \* redirects that python_https follows
          MaxStall       \* bound: how much later than its timeout a call returns

(* The first conjunct is what the code checks. *)
ASSUME MetricRouteAssumption ==
    /\ NonYahooTime + YahooTime <= RouteTime
    /\ Reserve < YahooTime /\ Reserve < NonYahooTime
    /\ {RouteTime, NonYahooTime, YahooTime, Reserve, UrllibTime, HttpsTime, ShellTime,
        Redirects, MaxStall} \subseteq Nat

VARIABLES now,      \* the time since the route was started
          route,    \* its sources in their order
          pos,      \* the source that is asked, or is next
          symbol,   \* the symbol of this source that is asked for
          at,       \* what the fetcher does
          until,    \* the deadline of the allocation in use
          common,   \* that of the sources other than Yahoo
          open,     \* whether that one runs
          left,     \* what was left of it last
          ceiling,  \* the timeout the body's connection was made with
          hops,     \* redirects that may still be followed
          answers,  \* the sources that delivered a value
          skipped,  \* history: sources that were not asked
          used,     \* history: the time sources other than Yahoo took
          stalled   \* history: a call came back later than the reserve allows for

rtvars == <<now, route, pos, symbol, at, until, common, open, left, ceiling, hops,
            answers, skipped, used, stalled>>

-----------------------------------------------------------------------------
Fred     == [yahoo |-> FALSE, symbols |-> 1]
Yahoo    == [yahoo |-> TRUE,  symbols |-> 1]
Stooq(n) == [yahoo |-> FALSE, symbols |-> n]

(* wti and twd_usd have the sources of the vix.  The fed_rate needs both ends *)
(* of its range, which share one allocation.                                  *)
Vix     == <<Fred, Yahoo, Stooq(2)>>
Us10y   == <<Fred, Yahoo>>
Dxy     == <<Yahoo, Stooq(3)>>
TwoEnds == <<Fred, Fred>>
Routes  == {Vix, Us10y, Dxy, TwoEnds}

Lesser(a, b) == IF a < b THEN a ELSE b
Minus(a, b)  == IF a > b THEN a - b ELSE 0

(* FallbackBudget.remaining and usable_blocking_remaining.                    *)
Remaining(deadline, t) == Minus(Lesser(deadline, RouteTime), t)
Usable(deadline, t)    == Minus(Remaining(deadline, t), Reserve)

Share == IF route = TwoEnds THEN RouteTime ELSE NonYahooTime

Asked == route[pos]
Over  == at = "over"

RouteInit ==
    /\ route \in Routes
    /\ now = 0 /\ pos = 1 /\ symbol = 1 /\ at = "next"
    /\ until = 0 /\ common = 0 /\ open = FALSE /\ left = Share
    /\ ceiling = 0 /\ hops = 0
    /\ answers = {} /\ skipped = {} /\ used = 0 /\ stalled = FALSE

-----------------------------------------------------------------------------
(* The budget of the next source, and whether it can be asked.                *)
Allocation == IF Asked.yahoo THEN now + YahooTime
              ELSE IF open THEN common ELSE now + left

NothingToAllocate == ~ Asked.yahoo /\ ~ open /\ left = 0

AskNext ==
    /\ at = "next" /\ pos <= Len(route) /\ now < RouteTime /\ ~ NothingToAllocate
    /\ until' = Allocation
    /\ IF Asked.yahoo
       THEN /\ left' = IF open THEN Remaining(common, now) ELSE left
            /\ UNCHANGED <<common, open>>
       ELSE common' = Allocation /\ open' = TRUE /\ UNCHANGED left
    /\ IF Usable(Allocation, now) = 0
       THEN /\ pos' = pos + 1 /\ skipped' = skipped \cup {pos}
            /\ UNCHANGED <<symbol, at>>
       ELSE /\ at' = "urllib" /\ symbol' = 1
            /\ UNCHANGED <<pos, skipped>>
    /\ UNCHANGED <<now, route, ceiling, hops, answers, used, stalled>>

(* No source is left, or no time; or a call outlasted the reserve and used up *)
(* the common allocation to the end, of which no new budget can be made: that *)
(* raises, and ends the whole fetch.                                          *)
GiveUp ==
    /\ at = "next"
    /\ \/ pos > Len(route)
       \/ now >= RouteTime
       \/ pos <= Len(route) /\ NothingToAllocate
    /\ at' = "over"
    /\ UNCHANGED <<now, route, pos, symbol, until, common, open, left, ceiling, hops,
                   answers, skipped, used, stalled>>

-----------------------------------------------------------------------------
(* Time passes during a call that was given a timeout. *)
Takes(d, timeout) ==
    /\ now' = now + d
    /\ stalled' = (stalled \/ d > timeout + Reserve)
    /\ used' = IF Asked.yahoo THEN used ELSE used + d

(* Mutant: after Yahoo the common allocation goes on as if it had been used.  *)
SourceFailsAllCharged ==
    IF symbol < Asked.symbols
    THEN /\ symbol' = symbol + 1 /\ at' = "urllib"
         /\ UNCHANGED <<pos, open, left>>
    ELSE /\ pos' = pos + 1 /\ at' = "next"
         /\ left' = IF Asked.yahoo THEN left ELSE Remaining(until, now')
         /\ UNCHANGED <<symbol, open>>

(* A source has no value for this symbol: the next one is tried, or it has    *)
(* failed, and the common allocation is put aside until it is needed again if *)
(* it was Yahoo.                                                              *)
SourceFails ==
    IF symbol < Asked.symbols
    THEN /\ symbol' = symbol + 1 /\ at' = "urllib"
         /\ UNCHANGED <<pos, open, left>>
    ELSE /\ pos' = pos + 1 /\ at' = "next"
         /\ open' = (open /\ ~ Asked.yahoo)
         /\ left' = IF Asked.yahoo THEN left ELSE Remaining(until, now')
         /\ UNCHANGED symbol

(* The transport got nothing; Yahoo is asked by urllib only. *)
Fails ==
    \/ /\ at \in {"urllib", "urllib body"} /\ ~ Asked.yahoo
       /\ at' = "https" /\ hops' = Redirects
       /\ UNCHANGED <<pos, symbol, open, left>>
    \/ /\ at \in {"https", "https body"}
       /\ at' = "powershell"
       /\ UNCHANGED <<pos, symbol, open, left, hops>>
    \/ /\ at = "powershell" \/ Asked.yahoo
       /\ SourceFails
       /\ UNCHANGED hops

(* A value ends the route, but the fed_rate needs two of them. *)
Delivers ==
    /\ answers' = answers \cup {pos}
    /\ IF route = TwoEnds
       THEN /\ pos' = pos + 1 /\ at' = "next" /\ symbol' = 1
            /\ left' = Remaining(until, now')
       ELSE /\ at' = "over"
            /\ UNCHANGED <<pos, symbol, left>>
    /\ UNCHANGED <<open, hops>>

NoAnswer == UNCHANGED answers

(* A reset by the other end, which the urllib transport does not catch: it    *)
(* ends the whole fetch.                                                      *)
Breaks ==
    /\ at \in {"urllib", "urllib body"}
    /\ at' = "over"
    /\ UNCHANGED <<pos, symbol, open, left, hops>>

-----------------------------------------------------------------------------
Configured == IF at = "urllib" THEN UrllibTime ELSE HttpsTime
Timeout(configured) == Lesser(configured, Usable(until, now))

(* bounded_transport_timeout refuses to start. *)
NotStarted ==
    /\ at \in {"urllib", "https", "powershell"} /\ Usable(until, now) = 0
    /\ Takes(0, 0) /\ Fails /\ NoAnswer
    /\ UNCHANGED <<route, until, common, ceiling, skipped>>

BodyOf(t) == IF t = "urllib" THEN "urllib body" ELSE "https body"

(* The connection, up to the headers; urlopen's includes its redirects.       *)
Connect ==
    /\ at \in {"urllib", "https"} /\ Usable(until, now) > 0
    /\ \E d \in 0 .. Timeout(Configured) + MaxStall : Takes(d, Timeout(Configured))
    /\ ceiling' = Timeout(Configured)
    /\ \/ at' = BodyOf(at) /\ UNCHANGED <<pos, symbol, open, left, hops>>
       \/ Fails
       \/ Breaks
    /\ NoAnswer
    /\ UNCHANGED <<route, until, common, skipped>>

(* Mutant: the socket keeps the timeout of the connection. *)
PieceOfConnection == ceiling

(* One more piece of the body, within what is left at this moment. *)
Piece == Lesser(ceiling, Usable(until, now))

Reading == at \in {"urllib body", "https body"}

ReadTooLate ==
    /\ Reading /\ Piece = 0
    /\ Takes(0, 0) /\ Fails /\ NoAnswer
    /\ UNCHANGED <<route, until, common, ceiling, skipped>>

(* The last piece has been read and has a value; or it has none, and no other *)
(* transport is tried; or the reply is a redirect or an error.                *)
Evaluated ==
    \/ Delivers
    \/ SourceFails /\ UNCHANGED hops /\ NoAnswer
    \/ /\ at = "https body" /\ hops > 0
       /\ at' = "https" /\ hops' = hops - 1
       /\ UNCHANGED <<pos, symbol, open, left>> /\ NoAnswer
    \/ at = "https body" /\ Fails /\ NoAnswer

Read ==
    /\ Reading /\ Piece > 0
    /\ \E d \in 0 .. Piece + MaxStall : Takes(d, Piece)
    /\ IF Usable(until, now') = 0
       THEN Fails /\ NoAnswer
       ELSE \/ UNCHANGED <<at, pos, symbol, open, left, hops>> /\ NoAnswer
            \/ (Fails \/ Breaks) /\ NoAnswer
            \/ Evaluated
    /\ UNCHANGED <<route, until, common, ceiling, skipped>>

(* A process of its own, killed when its time is over and waited for as long  *)
(* as there is time.  (It is given a little less, for the waiting.)           *)
RunPowerShell ==
    /\ at = "powershell" /\ Usable(until, now) > 0
    /\ \/ /\ \E d \in 0 .. Timeout(ShellTime) + MaxStall : Takes(d, Timeout(ShellTime))
          /\ \/ Delivers
             \/ Fails /\ NoAnswer
       \/ /\ \E d \in 0 .. Usable(until, now) + MaxStall :
                d >= Timeout(ShellTime) /\ Takes(d, Usable(until, now))
          /\ Fails /\ NoAnswer
    /\ UNCHANGED <<route, until, common, ceiling, skipped>>

RouteNext ==
    \/ AskNext \/ GiveUp
    \/ NotStarted \/ Connect \/ ReadTooLate \/ Read \/ RunPowerShell

RouteSpec == RouteInit /\ [][RouteNext]_rtvars

-----------------------------------------------------------------------------
(* Lateness does not add up, whatever the sources do and however many of them *)
(* are asked, by however many transports.  A route is over by its deadline    *)
(* unless a call came back later than the reserve allows for; and then it is  *)
(* over when that one call is back that was begun with some time left.        *)
RouteInTime ==
    IF stalled THEN now + Reserve <= RouteTime + MaxStall ELSE now <= RouteTime

(* Unless a call came back later than the reserve allows for: Yahoo is always *)
(* asked, with all the time it is promised, if no earlier source had a value; *)
(* and another source is only skipped when the sources other than Yahoo have  *)
(* used up their share, or the time is over: what Yahoo takes is not taken    *)
(* from them.                                                                 *)
SharesAreKept ==
    /\ ~ stalled /\ ~ Over /\ at # "next" /\ Asked.yahoo => until <= RouteTime
    /\ ~ stalled => \A i \in skipped : ~ route[i].yahoo
    /\ skipped # {} => used + Reserve >= Share \/ now + Reserve >= RouteTime
=============================================================================
