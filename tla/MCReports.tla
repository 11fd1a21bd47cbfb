------------------------------ MODULE MCReports -----------------------------
(* The parts of the report area, from a trigger to the library.  Each keeps   *)
(* its state in files of its own, and what one part takes from another is a   *)
(* free choice in its module, so that a behaviour is one part, chosen at the  *)
(* start.  Two come more than once: builders overlap on a quarterly run, and  *)
(* one builder makes a monthly one; two programs work on the quarters of the  *)
(* library, one on its events, and one on both where nothing goes wrong but   *)
(* an error.  A search's evidence is a few items that differ in what the      *)
(* rules look at.                                                             *)
EXTENDS DiscoveryScan, ReportTrigger, TriggerIssuance, ReportProduction, ReportLibrary,
        ResearchLedger, ShadowBrief, TLC

CONSTANTS Procs, Solo,
          Quarter, Month, Event

VARIABLE part

MonthRun == INSTANCE ReportProduction WITH
                 Triggers <- {Month}, Quarterly <- {}, Builders <- {Solo}, Versions <- {Solo}

(* Versions of the formal files are 0..MaxPublishes; MaxPublishes + 1 is the  *)
(* content of everything else.                                                *)
Item(class, source, chain, claim, hash) ==
    [class |-> class, source |-> source, chain |-> chain, claim |-> claim, hash |-> hash,
     media |-> class = "SECONDARY", event |-> Event, type |-> Event, confirmed |-> TRUE]
Fact(version) == Item("AUTHORITY", Month, Month, Event, version)
Report(source, chain) == Item("SECONDARY", source, chain, Event, MaxPublishes + 1)
Denial == Item("SECONDARY", Quarter, Quarter, Quarter, MaxPublishes + 1)
Rumour == [Report(Event, Event) EXCEPT !.confirmed = FALSE]

MCSupplies ==
    SUBSET {Report(source, chain) : source \in Outlets, chain \in Outlets} \cup
    {{Fact(v)} \cup more : v \in 0..MaxPublishes,
       more \in {{}, {Report(Event, Event)}, {Denial}, {Rumour}}}
MCLeads == {Item("DISCOVERY", Solo, Solo, Event, MaxPublishes + 1)}

(* What a shadow run is given: evidence of a new figure or of a test, packets *)
(* of the plugins that the routes ask for, and what must not get through:     *)
(* evidence told twice, of no field, or under the id of another.              *)
Piece(id, fields, test) ==
    [id |-> id, fields |-> fields, test |-> test, official |-> ~test, neutral |-> TRUE]
Figure == Piece(Event, {"revenue"}, FALSE)
Packet(plugin, signals, evidence, until) ==
    [plugin |-> plugin, types |-> {"daily", "monthly", "event"}, from |-> 1,
     until |-> until, signals |-> signals, evidence |-> evidence]
Searched(evidence, until) ==
    Packet("search", IF evidence = {} THEN {} ELSE {"material"}, evidence, until)

MCDeliveries ==
    <<{Searched({}, LastDay)}, {Searched({Figure}, LastDay)},
      {Searched({Piece(Event, {"EPS"}, FALSE)}, 1)},
      {Searched({Piece(Month, {"EPS"}, TRUE)}, 1)},
      {Searched({Piece(Month, {}, FALSE)}, 1)},
      {Searched({Figure}, LastDay), Packet("analytics", {}, {}, 1)},
      {Searched({Figure}, LastDay), Packet("analytics", {}, {Figure}, 1)},
      {Searched({Figure}, LastDay), Packet("banking", {}, {}, 1)}>>

(* The part chosen says which programs work on the library.  Bound: no claim  *)
(* speaks of what programs make that overlap.                                 *)
LibraryWork ==
    "overlap" \notin spoilt /\ \E p \in Writers :
        /\ part = "shared" <=> p \in Procs
        /\ \/ /\ ~ AtWork(p)
              /\ \/ Bootstrap(p) \/ PeriodicWork(p)
                 \/ part # "event" /\ QuarterlyWork(p)
                 \/ part # "shared" /\ MajorEventWork(p)
           \/ GoOn(p)
        /\ part = "library" => spoilt' = {}

MCInit ==
    /\ part \in {"trigger", "issuance", "quarterly", "monthly", "library", "shared",
                 "event", "ledger", "discovery", "brief"}
    /\ TriggerInit /\ (part # "trigger" => bound)
    /\ IssuanceInit
    /\ IF part = "monthly" THEN MonthRun!ProductionInit ELSE ProductionInit
    /\ LibraryInit
    /\ LedgerInit /\ BriefInit
    /\ Init

MCNext ==
    \/ /\ part = "trigger" /\ TriggerNext
       /\ UNCHANGED <<part, ivars, pvars, lvars, gvars, dvars, bvars>>
    \/ /\ part = "issuance" /\ IssuanceNext
       /\ UNCHANGED <<part, tvars, pvars, lvars, gvars, dvars, bvars>>
    \/ /\ part = "quarterly" /\ ProductionNext
       /\ UNCHANGED <<part, tvars, ivars, lvars, gvars, dvars, bvars>>
    \/ /\ part = "monthly" /\ MonthRun!ProductionNext
       /\ UNCHANGED <<part, tvars, ivars, lvars, gvars, dvars, bvars>>
    \/ /\ part \in {"library", "shared", "event"} /\ LibraryWork
       /\ UNCHANGED <<part, tvars, ivars, pvars, gvars, dvars, bvars>>
    \/ /\ part = "ledger" /\ LedgerNext
       /\ UNCHANGED <<part, tvars, ivars, pvars, lvars, dvars, bvars>>
    \/ /\ part = "discovery" /\ Next
       /\ UNCHANGED <<part, tvars, ivars, pvars, lvars, gvars, bvars>>
    \/ /\ part = "brief" /\ BriefNext
       /\ UNCHANGED <<part, tvars, ivars, pvars, lvars, gvars, dvars>>

MCSpec == MCInit /\ [][MCNext]_<<part, tvars, ivars, pvars, lvars, gvars, dvars, bvars>>

(* Every property below is about states and single steps. *)
Symmetry == Permutations(Procs) \cup Permutations(Versions)

=============================================================================
