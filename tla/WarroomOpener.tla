---------------------------- MODULE WarroomOpener ----------------------------
(* Opening the war room (p1008_open_warroom.py): the opener looks on a range  *)
(* of ports for a server of this package and of the checkout's HEAD that runs *)
(* outside a sandbox; if there is none it takes the first free port, starts a *)
(* server there and waits for it for a moment.  Openers may be started twice, *)
(* Git may not answer, the checkout may move on, servers are slow, end, or    *)
(* cannot bind their port.  All servers of one package share the launcher's   *)
(* state file.                                                                *)
EXTENDS Naturals, Sequences

CONSTANTS Openers,
          Ports,        \* the range is 1..Ports
          MaxHead,      \* bound: commits checked out
          MaxServers    \* bound: servers started; no opener begins when it is reached

ASSUME PortsAreARange == Ports \in Nat \ {0}

VARIABLES head,      \* HEAD of the checkout
          taken,     \* ports of other programs
          servers,   \* in the order of their start
          opener

wvars == <<head, taken, servers, opener>>

Closed == [pc |-> "closed"]   \* it has opened a page, or given up
Gone == [pc |-> "gone"]
Unknown == 0                  \* what Git's failure or silence is taken for

Listening(port) == {i \in DOMAIN servers : servers[i].pc = "listening"
                                              /\ servers[i].port = port}

(* page_ok: what the server on this port, if there is one, tells of itself.   *)
(* (The package is the same for all; that of another one looks like a taken   *)
(* port.)                                                                     *)
Fits(server, me) == server.head = me.wanted /\ ~ server.sandboxed

Suits(port, me) == \E i \in Listening(port) : Fits(servers[i], me)

(* port_is_free *)
Free(port) == port \notin taken /\ Listening(port) = {}

-----------------------------------------------------------------------------
(* main as far as resolve_git_head.  An opener that is not asked for a fresh  *)
(* server counts on those that are there.                                     *)
Begin(o, fresh) ==
    /\ opener[o].pc = "closed" /\ Len(servers) < MaxServers
    /\ \E git \in {head, Unknown} :
          opener' = [opener EXCEPT ![o] =
           [pc |-> IF fresh THEN "free" ELSE "probe", port |-> 1, wanted |-> git,
            there |-> {i \in DOMAIN servers : servers[i].pc = "listening" /\ ~ fresh}]]
    /\ UNCHANGED <<head, taken, servers>>

PassPort(me) == IF me.port < Ports THEN [me EXCEPT !.port = @ + 1]
                                   ELSE [me EXCEPT !.pc = "free", !.port = 1]

(* Mutant: the search for a server ends at the first port that is free.       *)
ProbeUntilFree(o) ==
    LET me == opener[o]
    IN  /\ me.pc = "probe"
        /\ opener' = [opener EXCEPT ![o] =
               CASE Suits(me.port, me)       -> Closed
                 [] Free(me.port)            -> [me EXCEPT !.pc = "free", !.port = 1]
                 [] OTHER                    -> PassPort(me)]
        /\ UNCHANGED <<head, taken, servers>>

(* choose_port, first half: every port of the range is asked.  A server that  *)
(* does not answer in time, or answers with another version of the program or *)
(* of the source manifest that is in the working tree, is passed by, and no   *)
(* longer counted on.  An answer that breaks off or is no JSON ends the       *)
(* opener with an exception.                                                  *)
Probe(o) ==
    LET me == opener[o]
    IN  /\ me.pc = "probe"
        /\ opener' \in
             {[opener EXCEPT ![o] = IF Suits(me.port, me) THEN Closed ELSE PassPort(me)],
              [opener EXCEPT ![o] = [PassPort(me) EXCEPT
                                        !.there = me.there \ Listening(me.port)]],
              [opener EXCEPT ![o] = IF Free(me.port) THEN PassPort(me) ELSE Closed]}
        /\ UNCHANGED <<head, taken, servers>>

(* Second half: the first port that can be bound. *)
FindPort(o) ==
    LET me == opener[o]
    IN  /\ me.pc = "free"
        /\ opener' = [opener EXCEPT ![o] =
               CASE Free(me.port) -> [me EXCEPT !.pc = "start"]
                 [] ~ Free(me.port) /\ me.port < Ports -> [me EXCEPT !.port = @ + 1]
                 [] OTHER -> Closed]
        /\ UNCHANGED <<head, taken, servers>>

(* start_server, which runs in a sandbox where its opener does.  The opener   *)
(* then looks a few times for its server; whether it sees it and opens the    *)
(* page, or is told that it came too late, the server goes on.                *)
Start(o, sandboxed) ==
    LET me == opener[o]
    IN  /\ me.pc = "start" /\ Len(servers) < MaxServers
        /\ servers' = Append(servers,
               [pc |-> "starting", port |-> me.port,
                head |-> Unknown, sandboxed |-> sandboxed,
                wanted |-> me.wanted, there |-> me.there])
        /\ opener' = [opener EXCEPT ![o] = Closed]
        /\ UNCHANGED <<head, taken>>

-----------------------------------------------------------------------------
(* The server: its manager asks Git for HEAD once, then the port is bound;    *)
(* with the port taken, or for a reason of its own, the process ends before   *)
(* that.                                                                      *)
ReadHead(i) ==
    /\ servers[i].pc = "starting"
    /\ \E git \in {head, Unknown} :
          servers' = [servers EXCEPT ![i].pc = "binding", ![i].head = git]
    /\ UNCHANGED <<head, taken, opener>>

Bind(i) ==
    /\ servers[i].pc = "binding"
    /\ \/ /\ Free(servers[i].port)
          /\ servers' = [servers EXCEPT ![i].pc = "listening"]
       \/ servers' = [servers EXCEPT ![i] = Gone]
    /\ UNCHANGED <<head, taken, opener>>

Ends(i) ==
    /\ servers[i].pc = "listening"
    /\ servers' = [servers EXCEPT ![i] = Gone]
    /\ UNCHANGED <<head, taken, opener>>

Checkout ==
    /\ head < MaxHead
    /\ head' = head + 1
    /\ UNCHANGED <<taken, servers, opener>>

(* Another program, whose port was taken, ends. *)
OtherEnds ==
    /\ taken # {} /\ taken' = {}
    /\ UNCHANGED <<head, servers, opener>>

OpenerInit ==
    /\ head = 1
    /\ taken = {1}
    /\ servers = <<>>
    /\ opener = [o \in Openers |-> Closed]

OpenerNext ==
    \/ \E o \in Openers :
          \/ \E fresh \in BOOLEAN : Begin(o, fresh)
          \/ Probe(o) \/ FindPort(o)
          \/ \E sandboxed \in BOOLEAN : Start(o, sandboxed)
    \/ \E i \in DOMAIN servers : ReadHead(i) \/ Bind(i) \/ Ends(i)
    \/ Checkout \/ OtherEnds

OpenerSpec == OpenerInit /\ [][OpenerNext]_wvars

-----------------------------------------------------------------------------
(* A second server that tells of the same HEAD as one that was there, and     *)
(* that would share its state file, has a reason.  It was asked for; or the   *)
(* first was not listening yet when its opener began to look, did not answer, *)
(* or answered with another version or manifest (those are not in "there");   *)
(* or the first runs in a sandbox; or the second tells of another HEAD than   *)
(* its opener asked for, since the checkout moved on or Git failed one of     *)
(* the two.                                                                   *)
SecondServerIsExplained ==
    \A a, b \in DOMAIN servers :
        /\ servers[a].pc = "listening" /\ servers[b].pc = "listening"
        /\ servers[a].head = servers[b].head
        /\ a \in servers[b].there
        => servers[a].sandboxed \/ servers[b].wanted # servers[b].head
=============================================================================
