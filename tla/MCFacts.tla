------------------------------ MODULE MCFacts ------------------------------
(* The fact database and the programs that the owner runs by hand: the        *)
(* release pipeline, the dry runs that fetch, the releases that change the    *)
(* formal master, and the publishers made for one occasion; the fetching of   *)
(* one metric, the scan of the news sources, the look at the authority's Git, *)
(* and the opening of the war room.  They share nothing while they run, so    *)
(* that interleaving them would only multiply their states: a behaviour is    *)
(* one of the nine, chosen at the start, with the others at rest.             *)
EXTENDS FactDatabase, MetricRoute, ReleasePipeline, ForeignHolding,
        AuthorityGitSync, WarroomOpener, NewsScan, OneOffPublish, StagingRuns

VARIABLE part

(* What may tell of an event: official pages, articles of two media and of an *)
(* unnamed one, unverified ones, and notes of the Owner.                      *)
Article(tier, source, dated, article, vouched) ==
    [tier |-> tier, source |-> source, dated |-> dated, article |-> article,
     vouched |-> vouched]

MCArticles ==
    {Article("OFFICIAL", "ir", dated, FALSE, FALSE) : dated \in BOOLEAN} \cup
    {Article("MEDIA", "a", dated, ~ dated, FALSE) : dated \in BOOLEAN} \cup
    {Article("UNVERIFIED", source, TRUE, TRUE, FALSE) : source \in {"c", "d"}} \cup
    {Article("MEDIA", "b", FALSE, FALSE, FALSE),
     Article("MEDIA", Unnamed, TRUE, FALSE, FALSE),
     Article("OWNER_NOTE", "o", FALSE, TRUE, TRUE),
     Article("OWNER_NOTE", "o", TRUE, FALSE, FALSE)}

(* Two of the files that the manifest lists. *)
MCGoverned == <<"daily", "market">>

MCInit ==
    /\ part \in {"database", "pipeline", "staging", "holding", "oneoff", "route",
                "news", "sync", "opener"}
    /\ Init
    /\ PipelineInit
    /\ StagingInit /\ (part # "staging" => kind = "01")
    /\ HoldingInit
    /\ OneOffInit
    /\ RouteInit /\ (part # "route" => route = Vix)
    /\ NewsInit /\ SyncInit /\ OpenerInit

MCNext ==
    \/ /\ part = "database" /\ Next
       /\ UNCHANGED <<part, rvars, svars, hvars, ovars, rtvars, nvars, gvars, wvars>>
    \/ /\ part = "pipeline" /\ PipelineNext
       /\ UNCHANGED <<part, fvars, svars, hvars, ovars, rtvars, nvars, gvars, wvars>>
    \/ /\ part = "staging" /\ StagingNext
       /\ UNCHANGED <<part, fvars, rvars, hvars, ovars, rtvars, nvars, gvars, wvars>>
    \/ /\ part = "holding" /\ HoldingNext
       /\ UNCHANGED <<part, fvars, rvars, svars, ovars, rtvars, nvars, gvars, wvars>>
    \/ /\ part = "oneoff" /\ OneOffNext
       /\ ~ unseen   \* bound: no claim of that part speaks of what comes after it
       /\ UNCHANGED <<part, fvars, rvars, svars, hvars, rtvars, nvars, gvars, wvars>>
    \/ /\ part = "route" /\ RouteNext
       /\ UNCHANGED <<part, fvars, rvars, svars, hvars, ovars, nvars, gvars, wvars>>
    \/ /\ part = "news" /\ NewsNext
       /\ UNCHANGED <<part, fvars, rvars, svars, hvars, ovars, rtvars, gvars, wvars>>
    \/ /\ part = "sync" /\ SyncNext
       /\ UNCHANGED <<part, fvars, rvars, svars, hvars, ovars, rtvars, nvars, wvars>>
    \/ /\ part = "opener" /\ OpenerNext
       /\ UNCHANGED <<part, fvars, rvars, svars, hvars, ovars, rtvars, nvars, gvars>>

MCSpec == MCInit /\ [][MCNext]_<<part, fvars, rvars, svars, hvars, ovars, rtvars,
                                nvars, gvars, wvars>>
=============================================================================
