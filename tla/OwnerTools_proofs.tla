-------------------------- MODULE OwnerTools_proofs --------------------------
(* What holds of the programs that the owner runs by hand, for every number   *)
(* of files, commits, ports, openers, servers, runs and rows: the look at the *)
(* authority's Git, the opening of the war room, the two releases of the      *)
(* foreign holdings, the release pipeline of the fact database, the scan of   *)
(* the news sources, the route by which the fetcher gets a metric, and the    *)
(* publishers that were written for one occasion.                             *)
EXTENDS AuthorityGitSync, WarroomOpener, ForeignHolding, ReleasePipeline, NewsScan, MetricRoute,
        OneOffPublish, FiniteSetTheorems, SequenceTheorems, TLAPS

-----------------------------------------------------------------------------
(* AuthorityGitSync: SYNCED is only said of an attested tree                  *)

Versions == [Files -> Bytes]
Manifests == [hashes : Versions, eol : LineEnds]
Trees == [file : Versions, manifest : Manifests]

PointsOfALook == {"idle", "validate", "compare", "SYNCED", "PENDING", "BLOCKED"}

Looks == [pc : PointsOfALook, manifest : Versions, next : Nat, valid : BOOLEAN,
          commit : Nat, known : BOOLEAN, same : BOOLEAN, overtaken : BOOLEAN]

SyncTypeOK ==
    /\ tree \in Trees
    /\ writing \in Files \cup {Nowhere}
    /\ branch \in Seq(Trees)
    /\ look \in Looks

(* What the look has behind it: the files hashed against the manifest it read *)
(* and the items compared with the commit, as long as they still are so.      *)
Validated(n) ==
    \A i \in DOMAIN Governed :
        i < n => tree.file[Governed[i]] = look.manifest[Governed[i]]

Compared(n) ==
    \A i \in DOMAIN Items :
        i < n => Clean(Content(tree, Items[i])) = Content(branch[look.commit], Items[i])

(* Unless a publisher overtook it, all that the look found still stands.      *)
LookStands ==
    /\ look.pc # "idle" => tree.manifest.hashes = look.manifest
    /\ look.pc = "validate" /\ look.valid => Validated(look.next)
    /\ look.pc \in {"compare", "SYNCED"} =>
          /\ Validated(Len(Governed) + 1)
          /\ look.commit \in DOMAIN branch
          /\ look.same => Compared(look.next)
    /\ look.pc = "SYNCED" => look.same /\ look.next > Len(Items)

SyncInv == SyncTypeOK /\ (~ look.overtaken => LookStands)

(* The items are the manifest and the governed files.                         *)
LEMMA GovernedFacts ==
    /\ Len(Governed) \in Nat /\ DOMAIN Governed = 1..Len(Governed)
    /\ \A i \in DOMAIN Governed : Governed[i] \in Files
    /\ "manifest" \notin Files /\ Nowhere \notin Files
BY GovernedAreFiles, LenProperties, ElementOfSeq DEF Files

LEMMA ItemsFacts ==
    /\ Len(Items) = Len(Governed) + 1 /\ DOMAIN Items = 1..Len(Items)
    /\ Items[1] = "manifest"
    /\ \A i \in DOMAIN Governed : i + 1 \in DOMAIN Items /\ Items[i + 1] = Governed[i]
    /\ \A i \in DOMAIN Items : Items[i] \in Files \cup {"manifest"}
<1> DEFINE NamedItems == Files \cup {"manifest"}
<1>1. <<"manifest">> \in Seq(NamedItems) /\ Governed \in Seq(NamedItems)
  <2>1. Governed \in Seq(Files)
    BY GovernedAreFiles
  <2> QED BY <2>1, Z3
<1>2. /\ Items \in Seq(NamedItems)
      /\ Len(Items) = Len(<<"manifest">>) + Len(Governed)
      /\ \A i \in 1..(Len(<<"manifest">>) + Len(Governed)) :
             Items[i] = IF i <= Len(<<"manifest">>) THEN <<"manifest">>[i]
                        ELSE Governed[i - Len(<<"manifest">>)]
  BY <1>1, ConcatProperties, Zenon DEF Items
<1>3. Len(<<"manifest">>) = 1 /\ <<"manifest">>[1] = "manifest"
  OBVIOUS
<1>4. DOMAIN Items = 1..Len(Items) /\ \A i \in 1..Len(Items) : Items[i] \in NamedItems
  BY <1>2, LenProperties, ElementOfSeq
<1> QED BY <1>2, <1>3, <1>4, GovernedFacts

LEMMA SyncBegins == SyncInit => SyncInv
<1> SUFFICES ASSUME SyncInit PROVE SyncInv
  OBVIOUS
<1>1. tree \in Trees
  BY DEF SyncInit, First, Trees, Manifests, Versions, Bytes, LineEnds
<1>2. look \in Looks /\ look.pc = "idle"
  BY <1>1 DEF SyncInit, NoLook, Looks, Trees, Manifests, LookAt, PointsOfALook
<1>3. branch \in Seq(Trees)
  BY EmptySeq DEF SyncInit
<1> QED BY <1>1, <1>2, <1>3 DEF SyncInit, SyncInv, SyncTypeOK, LookStands

LEMMA SyncStep == SyncInv /\ [SyncNext]_gvars => SyncInv'
<1> SUFFICES ASSUME SyncInv, [SyncNext]_gvars PROVE SyncInv'
  OBVIOUS
<1> USE GovernedFacts
<1>t. /\ tree \in Trees /\ writing \in Files \cup {Nowhere}
      /\ branch \in Seq(Trees) /\ look \in Looks
      /\ tree.file \in Versions /\ tree.manifest \in Manifests
      /\ tree.manifest.hashes \in Versions
  BY DEF SyncInv, SyncTypeOK, Trees, Manifests
<1>o. Overtake \in Looks /\ (Overtake.overtaken \/ Overtake.pc = "idle")
  <2>1. (look.overtaken \/ look.pc # "idle") \in BOOLEAN
    OBVIOUS
  <2> QED BY <1>t, <2>1 DEF Overtake, Looks
<1>b. /\ Len(branch) \in Nat /\ DOMAIN branch = 1..Len(branch)
      /\ \A n \in DOMAIN branch : branch[n] \in Trees
  BY <1>t, LenProperties, ElementOfSeq
(* A publisher's step: the look is overtaken, or there is none.               *)
<1>1. ASSUME look' = Overtake, tree' \in Trees, writing' \in Files \cup {Nowhere},
             UNCHANGED branch
      PROVE  SyncInv'
  <2>1. look'.overtaken \/ look'.pc = "idle"
    BY <1>1, <1>o
  <2>2. SyncTypeOK'
    BY <1>1, <1>o, <1>t DEF SyncTypeOK
  <2> QED BY <2>1, <2>2 DEF SyncInv, LookStands
<1>2. ASSUME NEW f \in Files, ReplaceFile(f) PROVE SyncInv'
  <2>1. PICK eol \in LineEnds :
          tree' = [tree EXCEPT !.file[f] = [version |-> tree.file[f].version + 1, eol |-> eol]]
    BY <1>2 DEF ReplaceFile
  <2> DEFINE b == [version |-> tree.file[f].version + 1, eol |-> eol]
  <2>2. b \in Bytes
    BY <1>t DEF Versions, Bytes
  <2>3. tree' = [tree EXCEPT !.file[f] = b]
    BY <2>1
  <2> HIDE DEF b
  <2>4. [tree.file EXCEPT ![f] = b] \in Versions
    BY <1>t, <2>2 DEF Versions
  <2>5. tree' \in Trees
    BY <1>t, <2>3, <2>4 DEF Trees
  <2> QED BY <1>1, <1>2, <2>5 DEF ReplaceFile
<1>3. ASSUME Attest PROVE SyncInv'
  <2>0. [tree.manifest.hashes EXCEPT ![writing] = tree.file[writing]] \in Versions
    BY <1>3, <1>t DEF Attest, Versions
  <2>1. tree' \in Trees
    <3>1. PICK eol \in LineEnds :
            tree' = [tree EXCEPT !.manifest =
                       [hashes |-> [tree.manifest.hashes EXCEPT ![writing] = tree.file[writing]],
                        eol |-> eol]]
      BY <1>3 DEF Attest
    <3> QED BY <1>t, <2>0, <3>1 DEF Trees, Manifests
  <2> QED BY <1>1, <1>3, <2>1 DEF Attest
<1>4. ASSUME PutBack PROVE SyncInv'
  <2>0. [tree.file EXCEPT ![writing] = tree.manifest.hashes[writing]] \in Versions
    BY <1>4, <1>t DEF PutBack, Versions
  <2>1. tree' \in Trees
    BY <1>4, <1>t, <2>0 DEF PutBack, Trees
  <2> QED BY <1>1, <1>4, <2>1 DEF PutBack
(* The branch goes on, and keeps what it has.                                 *)
<1>5. ASSUME UNCHANGED <<tree, look>>, writing' \in Files \cup {Nowhere},
             branch' \in Seq(Trees),
             \A n \in DOMAIN branch : n \in DOMAIN branch' /\ branch'[n] = branch[n]
      PROVE  SyncInv'
  <2>1. SyncTypeOK'
    BY <1>5, <1>t DEF SyncTypeOK
  <2>2. ASSUME ~ look'.overtaken, look'.pc \in {"compare", "SYNCED"}
        PROVE  /\ Validated(Len(Governed) + 1)' /\ look'.commit \in DOMAIN branch'
               /\ look'.same => Compared(look.next)'
    BY <1>5, <2>2 DEF SyncInv, LookStands, Validated, Compared, Content
  <2>3. ASSUME ~ look'.overtaken PROVE LookStands'
    BY <1>5, <2>2, <2>3 DEF SyncInv, LookStands, Validated
  <2> QED BY <2>1, <2>3 DEF SyncInv
<1>6. ASSUME NEW t \in Trees, branch' = Append(branch, t)
      PROVE  /\ branch' \in Seq(Trees)
             /\ \A n \in DOMAIN branch : n \in DOMAIN branch' /\ branch'[n] = branch[n]
  BY <1>6, <1>t, <1>b, AppendProperties
<1>7. ASSUME PublisherDies PROVE SyncInv'
  BY <1>5, <1>7, <1>t DEF PublisherDies
<1>8. ASSUME Push PROVE SyncInv'
  <2>1. Committed(tree) \in Trees
    <3>1. ASSUME NEW f \in Files PROVE Clean(tree.file[f]) \in Bytes
      BY <1>t DEF Versions, Bytes, LineEnds, Clean
    <3>2. Clean(tree.manifest) \in Manifests
      BY <1>t DEF Manifests, LineEnds, Clean
    <3> QED BY <3>1, <3>2 DEF Committed, Trees, Versions
  <2> QED BY <1>5, <1>6, <1>8, <1>t, <2>1 DEF Push
<1>9. ASSUME PushElsewhere PROVE SyncInv'
  BY <1>5, <1>6, <1>9, <1>t, <1>b DEF PushElsewhere
<1>10. ASSUME Fetch PROVE SyncInv'
  BY <1>5, <1>10, <1>t DEF Fetch
<1>21. ASSUME NEW f \in Files, ChangeLineEnds(f) PROVE SyncInv'
  <2>1. PICK eol \in LineEnds : tree' = [tree EXCEPT !.file[f] = [tree.file[f] EXCEPT !.eol = eol]]
    BY <1>21 DEF ChangeLineEnds
  <2> DEFINE b == [tree.file[f] EXCEPT !.eol = eol]
  <2>2. b \in Bytes
    BY <1>t DEF Versions, Bytes
  <2>3. tree' = [tree EXCEPT !.file[f] = b]
    BY <2>1
  <2> HIDE DEF b
  <2>4. [tree.file EXCEPT ![f] = b] \in Versions
    BY <1>t, <2>2 DEF Versions
  <2>5. tree' \in Trees
    BY <1>t, <2>3, <2>4 DEF Trees
  <2> QED BY <1>1, <1>21, <1>t, <2>5 DEF ChangeLineEnds
(* The look's own steps change nothing else.                                  *)
<1>11. ASSUME UNCHANGED <<tree, writing, branch>>, look' \in Looks,
              ~ look'.overtaken => LookStands'
       PROVE  SyncInv'
  BY <1>11, <1>t DEF SyncInv, SyncTypeOK
<1>12. ASSUME ReadManifest PROVE SyncInv'
  <2>1. /\ UNCHANGED <<tree, writing, branch>> /\ look' \in Looks
        /\ look'.pc = "validate"
        /\ look'.manifest = tree.manifest.hashes /\ look'.next = 1
    BY <1>12, <1>t DEF ReadManifest, LookAt, Looks, PointsOfALook
  <2>2. Validated(1)'
    BY <2>1 DEF Validated
  <2> QED BY <1>11, <2>1, <2>2 DEF LookStands
<1>13. ASSUME Validate PROVE SyncInv'
  <2> DEFINE f == Governed[look.next]
             right == tree.file[f] = look.manifest[f]
             valid == look.valid /\ right
  <2>0. look.next \in Nat /\ look.next + 1 \in Nat /\ valid \in BOOLEAN
    BY <1>t DEF Looks
  <2>1. look' = [look EXCEPT !.next = look.next + 1, !.valid = valid]
    BY <1>13 DEF Validate
  <2> HIDE DEF valid, right
  <2>2. look' \in Looks /\ look'.valid = valid
    BY <1>t, <2>0, <2>1 DEF Looks
  <2>3. /\ UNCHANGED <<tree, writing, branch>> /\ look.pc = "validate"
        /\ look'.pc = "validate"
        /\ look'.manifest = look.manifest /\ look'.next = look.next + 1
        /\ look'.overtaken = look.overtaken
    BY <1>13, <1>t, <2>1 DEF Validate, Looks
  <2>4. ASSUME ~ look'.overtaken PROVE LookStands'
    <3>1. tree.manifest.hashes = look.manifest /\ (look.valid => Validated(look.next))
      BY <2>3, <2>4 DEF SyncInv, LookStands
    <3>2. ASSUME look'.valid PROVE Validated(look.next)'
      <4>1. look.valid /\ right
        BY <2>2, <3>2, Zenon DEF valid
      <4>2. ASSUME NEW i \in DOMAIN Governed, i < look.next + 1
            PROVE  tree.file[Governed[i]] = look.manifest[Governed[i]]
        <5>1. CASE i = look.next
          BY <4>1, <5>1 DEF right
        <5>2. CASE i < look.next
          BY <3>1, <4>1, <5>2 DEF Validated
        <5> QED BY <2>0, <4>2, <5>1, <5>2
      <4> QED BY <2>3, <4>2 DEF Validated
    <3> QED BY <2>3, <3>1, <3>2 DEF LookStands
  <2> QED BY <1>11, <2>2, <2>3, <2>4
<1>14. ASSUME UNCHANGED <<tree, writing, branch>>,
              look' = [look EXCEPT !.pc = "BLOCKED"], look.pc # "idle"
       PROVE  SyncInv'
  <2>1. /\ look' \in Looks /\ look'.pc = "BLOCKED"
        /\ look'.manifest = look.manifest /\ look'.overtaken = look.overtaken
    BY <1>14, <1>t DEF Looks, PointsOfALook
  <2> QED BY <1>11, <1>14, <2>1 DEF SyncInv, LookStands
<1>15. ASSUME QueryRemote PROVE SyncInv'
  <2>1. CASE look.valid /\ branch # <<>>
    <3>1. /\ UNCHANGED <<tree, writing, branch>> /\ look' \in Looks
          /\ look.pc = "validate" /\ look'.pc = "compare"
          /\ look'.manifest = look.manifest /\ look'.next = 1
          /\ look'.overtaken = look.overtaken
          /\ look'.commit = Len(branch) /\ look.next > Len(Governed)
      BY <1>15, <1>t, <1>b, <2>1 DEF QueryRemote, Looks, PointsOfALook
    <3>2. Len(branch) \in DOMAIN branch
      BY <1>b, <1>t, <2>1, EmptySeq
    <3>3. ASSUME ~ look'.overtaken PROVE LookStands'
      <4>1. Validated(look.next) /\ tree.manifest.hashes = look.manifest
        BY <2>1, <3>1, <3>3 DEF SyncInv, LookStands
      <4>2. look.next \in Nat
        BY <1>t DEF Looks
      <4>3. Validated(Len(Governed) + 1)'
        BY <3>1, <4>1, <4>2 DEF Validated
      <4>4. Compared(1)'
        BY ItemsFacts DEF Compared
      <4> QED BY <3>1, <3>2, <4>1, <4>3, <4>4 DEF LookStands
    <3> QED BY <1>11, <3>1, <3>3
  <2>2. CASE ~ (look.valid /\ branch # <<>>)
    BY <1>14, <1>15, <2>2 DEF QueryRemote
  <2> QED BY <2>1, <2>2
<1>16. ASSUME Compare PROVE SyncInv'
  <2> DEFINE item == Items[look.next]
             equal == Clean(Content(tree, item)) = Content(branch[look.commit], item)
             same == look.same /\ equal
             had == look.known /\ look.commit \in known
  <2>0. /\ look.next \in Nat /\ look.next + 1 \in Nat /\ same \in BOOLEAN
        /\ had \in BOOLEAN
    BY <1>t DEF Looks
  <2>1. look' = [look EXCEPT !.next = look.next + 1, !.known = had, !.same = same]
    BY <1>16 DEF Compare
  <2> HIDE DEF same, equal, had
  <2>2. look' \in Looks /\ look'.same = same
    BY <1>t, <2>0, <2>1 DEF Looks
  <2>3. /\ UNCHANGED <<tree, writing, branch>> /\ look.pc = "compare"
        /\ look'.pc = "compare"
        /\ look'.manifest = look.manifest /\ look'.next = look.next + 1
        /\ look'.overtaken = look.overtaken
        /\ look'.commit = look.commit
    BY <1>16, <1>t, <2>1 DEF Compare, Looks
  <2>4. ASSUME ~ look'.overtaken PROVE LookStands'
    <3>1. /\ tree.manifest.hashes = look.manifest /\ Validated(Len(Governed) + 1)
          /\ look.commit \in DOMAIN branch
          /\ look.same => Compared(look.next)
      BY <2>3, <2>4 DEF SyncInv, LookStands
    <3>2. ASSUME look'.same PROVE Compared(look.next)'
      <4>1. look.same /\ equal
        BY <2>2, <3>2, Zenon DEF same
      <4>2. ASSUME NEW i \in DOMAIN Items, i < look.next + 1
            PROVE  Clean(Content(tree, Items[i])) = Content(branch[look.commit], Items[i])
        <5>1. CASE i = look.next
          BY <4>1, <5>1 DEF equal
        <5>2. CASE i < look.next
          BY <3>1, <4>1, <5>2 DEF Compared
        <5> QED BY <2>0, <4>2, <5>1, <5>2, ItemsFacts
      <4> QED BY <2>3, <4>2 DEF Compared, Content
    <3>3. Validated(Len(Governed) + 1)'
      BY <2>3, <3>1 DEF Validated
    <3> QED BY <2>3, <3>1, <3>2, <3>3 DEF LookStands
  <2> QED BY <1>11, <2>2, <2>3, <2>4
<1>17. ASSUME Conclude PROVE SyncInv'
  <2> DEFINE said == CASE ~ look.known -> "BLOCKED"
                       [] look.known /\ look.same -> "SYNCED"
                       [] OTHER -> "PENDING"
  <2>0. said \in {"BLOCKED", "SYNCED", "PENDING"} /\ (said = "SYNCED" => look.same)
    <3>1. CASE ~ look.known
      BY <3>1
    <3>2. CASE look.known /\ look.same
      BY <3>2
    <3>3. CASE look.known /\ ~ look.same
      BY <3>3
    <3> QED BY <3>1, <3>2, <3>3
  <2>1. look' = [look EXCEPT !.pc = said]
    BY <1>17 DEF Conclude
  <2> HIDE DEF said
  <2>2. /\ UNCHANGED <<tree, writing, branch>> /\ look' \in Looks
        /\ look.pc = "compare" /\ look'.pc = said
        /\ look'.manifest = look.manifest /\ look'.next = look.next
        /\ look'.overtaken = look.overtaken
        /\ look'.commit = look.commit /\ look'.same = look.same
        /\ look.next > Len(Items)
    BY <1>17, <1>t, <2>0, <2>1 DEF Conclude, Looks, PointsOfALook
  <2>3. ASSUME ~ look'.overtaken PROVE LookStands'
    <3>1. /\ tree.manifest.hashes = look.manifest /\ Validated(Len(Governed) + 1)
          /\ look.commit \in DOMAIN branch
          /\ look.same => Compared(look.next)
      BY <2>2, <2>3 DEF SyncInv, LookStands
    <3>2. Validated(Len(Governed) + 1)' /\ (look'.same => Compared(look.next)')
      BY <2>2, <3>1 DEF Validated, Compared, Content
    <3> QED BY <2>0, <2>2, <3>1, <3>2 DEF LookStands
  <2> QED BY <1>11, <2>2, <2>3
<1>18. ASSUME GitFails PROVE SyncInv'
  BY <1>14, <1>18 DEF GitFails
<1>19. ASSUME Leave PROVE SyncInv'
  <2>1. UNCHANGED <<tree, writing, branch>> /\ look' \in Looks /\ look'.pc = "idle"
    BY <1>19 DEF Leave, NoLook, LookAt, First, Looks, PointsOfALook, Versions, Bytes, LineEnds
  <2> QED BY <1>11, <2>1 DEF LookStands
<1>20. ASSUME UNCHANGED gvars PROVE SyncInv'
  BY <1>5, <1>20, <1>t DEF gvars
<1> QED BY <1>2, <1>3, <1>4, <1>7, <1>8, <1>9, <1>10, <1>12, <1>13, <1>15, <1>16,
           <1>17,
           <1>18, <1>19, <1>20, <1>21 DEF SyncNext

(* With every item compared, the commit is what Git makes of the tree; with   *)
(* every file validated before, the manifest attests the files as they lie.   *)
LEMMA SyncedIsThatCommit == SyncInv => SyncedMeansAttested
<1> SUFFICES ASSUME SyncInv, look.pc = "SYNCED", ~ look.overtaken
             PROVE  Attests(tree) /\ branch[look.commit] = Committed(tree)
  BY DEF SyncedMeansAttested
<1> DEFINE b == branch[look.commit]
<1>1. /\ tree \in Trees /\ branch \in Seq(Trees) /\ look.next \in Nat
      /\ tree.manifest.hashes = look.manifest /\ Validated(Len(Governed) + 1)
      /\ look.commit \in DOMAIN branch
      /\ Compared(look.next) /\ look.next > Len(Items)
  BY DEF SyncInv, SyncTypeOK, LookStands, Looks
<1>2. b \in Trees
  BY <1>1, LenProperties, ElementOfSeq
<1>3. \A i \in DOMAIN Items : Clean(Content(tree, Items[i])) = Content(b, Items[i])
  BY <1>1, ItemsFacts, GovernedFacts DEF Compared
<1>4. Clean(tree.manifest) = b.manifest
  <2>1. 1 \in DOMAIN Items /\ Items[1] = "manifest"
    BY ItemsFacts, GovernedFacts
  <2> QED BY <1>3, <2>1 DEF Content
<1> HIDE DEF b
<1>5. ASSUME NEW f \in Files
      PROVE  Clean(tree.file[f]) = b.file[f] /\ tree.file[f] = tree.manifest.hashes[f]
  <2>1. PICK i \in DOMAIN Governed : f = Governed[i]
    BY DEF Files
  <2>2. i + 1 \in DOMAIN Items /\ Items[i + 1] = f /\ f # "manifest"
    BY <2>1, ItemsFacts, GovernedFacts
  <2>3. Clean(Content(tree, f)) = Content(b, f)
    BY <1>3, <2>2
  <2>4. tree.file[f] = tree.manifest.hashes[f]
    BY <1>1, <2>1, GovernedFacts DEF Validated
  <2> QED BY <2>2, <2>3, <2>4 DEF Content
<1>6. tree.file = tree.manifest.hashes
  BY <1>1, <1>5 DEF Trees, Manifests, Versions
<1>7. b = Committed(tree)
  <2>1. b.file = [f \in Files |-> Clean(tree.file[f])]
    BY <1>2, <1>5 DEF Trees, Versions
  <2>2. b = [file |-> b.file, manifest |-> b.manifest]
    BY <1>2 DEF Trees
  <2> QED BY <1>4, <2>1, <2>2 DEF Committed
<1> QED BY <1>6, <1>7 DEF Attests, b

(* Whatever publishers and the Owner's Git commands do in between: SYNCED is  *)
(* only said of an attested working tree, of which the commit is Git's form.  *)
THEOREM SyncedIsAttested == SyncSpec => []SyncedMeansAttested
<1>1. SyncInit => SyncInv
  BY SyncBegins
<1>2. SyncInv /\ [SyncNext]_gvars => SyncInv'
  BY SyncStep
<1>3. SyncInv => SyncedMeansAttested
  BY SyncedIsThatCommit
<1> QED BY <1>1, <1>2, <1>3, PTL DEF SyncSpec

-----------------------------------------------------------------------------
(* WarroomOpener: a second server is there for a reason                       *)

Engaged ==
    [pc : {"probe", "free", "start"}, port : 1..Ports, wanted : Nat, there : SUBSET Nat]

Serving == [pc : {"starting", "binding", "listening"}, port : 1..Ports, head : Nat,
            sandboxed : BOOLEAN, wanted : Nat, there : SUBSET Nat]

Processes == Serving \cup {Gone}

OpenerTypeOK ==
    /\ head \in Nat
    /\ servers \in Seq(Processes)
    /\ opener \in [Openers -> Engaged \cup {Closed}]

(* An opener at work: of the servers it counts on, those that it has looked   *)
(* at and that still listen do not fit; a server started by one takes over    *)
(* what its opener counted on.                                                *)
PassedOver(me, port) == me.pc = "probe" => port < me.port

OpenerCounts(me, s) ==
    /\ me.there \subseteq DOMAIN s
    /\ \A i \in me.there :
          /\ s[i].pc \in {"listening", "gone"}
          /\ s[i].pc = "listening" /\ PassedOver(me, s[i].port) => ~ Fits(s[i], me)

ServerCounts(me, s) ==
    /\ me.there \subseteq DOMAIN s
    /\ \A i \in me.there :
          /\ s[i].pc \in {"listening", "gone"}
          /\ s[i].pc = "listening" => ~ Fits(s[i], me)

OpenerInv ==
    /\ OpenerTypeOK
    /\ \A o \in Openers : opener[o] \in Engaged => OpenerCounts(opener[o], servers)
    /\ \A b \in DOMAIN servers :
          servers[b] \in Serving => ServerCounts(servers[b], servers)

(* What goes on among servers: a listening one stays as it is, or ends.       *)
Onward(s, t) ==
    /\ DOMAIN s \subseteq DOMAIN t
    /\ \A i \in DOMAIN s :
          s[i].pc \in {"listening", "gone"} => t[i] = s[i] \/ t[i] = Gone

LEMMA CountsGoOnward ==
    ASSUME NEW s, NEW t, Onward(s, t), NEW me
    PROVE  /\ OpenerCounts(me, s) => OpenerCounts(me, t)
           /\ ServerCounts(me, s) => ServerCounts(me, t)
<1>1. Gone.pc = "gone"
  BY DEF Gone
<1>2. ASSUME NEW i \in DOMAIN s, s[i].pc \in {"listening", "gone"}
      PROVE  /\ i \in DOMAIN t /\ t[i].pc \in {"listening", "gone"}
             /\ t[i].pc = "listening" => t[i] = s[i]
  BY <1>1, <1>2 DEF Onward
<1>3. OpenerCounts(me, s) => OpenerCounts(me, t)
  BY <1>2 DEF OpenerCounts
<1>4. ServerCounts(me, s) => ServerCounts(me, t)
  BY <1>2 DEF ServerCounts
<1> QED BY <1>3, <1>4

LEMMA OpenerBegins == OpenerInit => OpenerInv
<1> SUFFICES ASSUME OpenerInit PROVE OpenerInv
  OBVIOUS
<1>1. Closed \notin Engaged
  BY DEF Closed, Engaged
<1>2. servers \in Seq(Processes) /\ DOMAIN servers = {}
  BY EmptySeq DEF OpenerInit
<1> QED BY <1>1, <1>2 DEF OpenerInit, OpenerInv, OpenerTypeOK

LEMMA OpenerStep == OpenerInv /\ [OpenerNext]_wvars => OpenerInv'
<1> SUFFICES ASSUME OpenerInv, [OpenerNext]_wvars PROVE OpenerInv'
  OBVIOUS
<1>t. /\ head \in Nat /\ servers \in Seq(Processes)
      /\ opener \in [Openers -> Engaged \cup {Closed}]
  BY DEF OpenerInv, OpenerTypeOK
<1>s. /\ Len(servers) \in Nat /\ DOMAIN servers = 1..Len(servers)
      /\ \A i \in DOMAIN servers : servers[i] \in Processes
  BY <1>t, LenProperties, ElementOfSeq
<1>p. Ports \in Nat \ {0}
  BY PortsAreARange
<1>d. /\ Closed \notin Engaged /\ Closed.pc = "closed" /\ Gone \notin Serving
      /\ Gone.pc = "gone"
  BY DEF Closed, Engaged, Gone, Serving
(* An opener's own step: the servers stay as they are. *)
<1>1. ASSUME UNCHANGED <<head, servers>>, NEW o \in Openers, NEW me,
             opener' = [opener EXCEPT ![o] = me],
             \/ me = Closed
             \/ me \in Engaged /\ OpenerCounts(me, servers)
      PROVE  OpenerInv'
  <2>1. OpenerTypeOK'
    BY <1>1, <1>t DEF OpenerTypeOK
  <2>2. ASSUME NEW p \in Openers, opener'[p] \in Engaged
        PROVE  OpenerCounts(opener'[p], servers')
    <3>1. CASE p = o
      BY <1>1, <1>t, <1>d, <2>2, <3>1
    <3>2. CASE p # o
      BY <1>1, <1>t, <2>2, <3>2 DEF OpenerInv
    <3> QED BY <3>1, <3>2
  <2>3. \A b \in DOMAIN servers' :
            servers'[b] \in Serving => ServerCounts(servers'[b], servers')
    BY <1>1 DEF OpenerInv
  <2> QED BY <2>1, <2>2, <2>3 DEF OpenerInv
(* A server's own step. *)
<1>2. ASSUME UNCHANGED <<head, opener>>, NEW i \in DOMAIN servers, NEW me,
             servers' = [servers EXCEPT ![i] = me],
             servers[i] \in Serving,
             \/ me = Gone
             \/ /\ servers[i].pc # "listening" /\ me \in Serving
                /\ me.there = servers[i].there /\ me.wanted = servers[i].wanted
      PROVE  OpenerInv'
  <2>1. me \in Processes
    BY <1>2 DEF Processes
  <2>2. /\ servers' \in Seq(Processes) /\ DOMAIN servers' = DOMAIN servers
        /\ servers'[i] = me
        /\ \A j \in DOMAIN servers : j # i => servers'[j] = servers[j]
    BY <1>2, <1>t, <1>s, <2>1, ExceptSeq
  <2>3. OpenerTypeOK'
    BY <1>2, <1>t, <2>2 DEF OpenerTypeOK
  <2>4. servers[i].pc # "gone"
    BY <1>2 DEF Serving
  <2>5. Onward(servers, servers')
    BY <1>2, <2>2, <2>4 DEF Onward
  <2>6. ASSUME NEW p \in Openers, opener'[p] \in Engaged
        PROVE  OpenerCounts(opener'[p], servers')
    BY <1>2, <2>5, <2>6, CountsGoOnward DEF OpenerInv
  <2>7. ASSUME NEW b \in DOMAIN servers', servers'[b] \in Serving
        PROVE  ServerCounts(servers'[b], servers')
    <3>1. CASE b # i
      <4>1. servers'[b] = servers[b] /\ ServerCounts(servers[b], servers)
        BY <2>2, <2>7, <3>1 DEF OpenerInv
      <4> QED BY <4>1, <2>5, CountsGoOnward
    <3>2. CASE b = i
      <4>1. me.there = servers[i].there /\ me.wanted = servers[i].wanted
        BY <1>2, <1>d, <2>2, <2>7, <3>2
      <4>2. ServerCounts(servers[i], servers')
        BY <1>2, <2>5, CountsGoOnward DEF OpenerInv
      <4> QED BY <2>2, <3>2, <4>1, <4>2 DEF ServerCounts, Fits
    <3> QED BY <3>1, <3>2
  <2> QED BY <2>3, <2>6, <2>7 DEF OpenerInv
<1>3. ASSUME NEW o \in Openers, NEW fresh \in BOOLEAN, Begin(o, fresh)
      PROVE  OpenerInv'
  <2> DEFINE there == {i \in DOMAIN servers : servers[i].pc = "listening" /\ ~ fresh}
             pc == IF fresh THEN "free" ELSE "probe"
  <2>g. PICK git \in {head, Unknown} :
            opener' = [opener EXCEPT ![o] =
                [pc |-> pc, port |-> 1, wanted |-> git, there |-> there]]
    BY <1>3 DEF Begin
  <2> DEFINE me == [pc |-> pc, port |-> 1, wanted |-> git, there |-> there]
  <2>1. there \in SUBSET Nat /\ pc \in {"probe", "free", "start"} /\ 1 \in 1..Ports
    BY <1>s, <1>p
  <2>2. me \in Engaged
    <3>1. git \in Nat
      BY <1>t, <2>g DEF Unknown
    <3> HIDE DEF there, pc
    <3> QED BY <2>1, <3>1 DEF Engaged
  <2>3. ASSUME NEW i \in there
        PROVE  /\ i \in DOMAIN servers /\ servers[i].pc = "listening"
               /\ pc = "probe" /\ ~ (servers[i].port < 1)
    <3>1. i \in DOMAIN servers /\ servers[i].pc = "listening" /\ pc = "probe"
      OBVIOUS
    <3>2. servers[i] \in Serving
      BY <1>s, <1>d, <3>1 DEF Processes
    <3> QED BY <1>p, <3>1, <3>2 DEF Serving
  <2>4. OpenerCounts(me, servers)
    <3> HIDE DEF there, pc
    <3> QED BY <2>3 DEF OpenerCounts, PassedOver
  <2>5. UNCHANGED <<head, servers>> /\ opener' = [opener EXCEPT ![o] = me]
    BY <1>3, <2>g DEF Begin
  <2> HIDE DEF me
  <2> QED BY <1>1, <2>2, <2>4, <2>5
<1>4. ASSUME NEW o \in Openers, Probe(o) PROVE OpenerInv'
  <2> DEFINE me == opener[o]
             on == PassPort(me)
  <2>1. me \in Engaged /\ me.pc = "probe" /\ OpenerCounts(me, servers)
    BY <1>4, <1>t, <1>d DEF Probe, OpenerInv
  <2>2. /\ on \in Engaged /\ on.there = me.there /\ on.wanted = me.wanted
        /\ \A s : Fits(s, on) <=> Fits(s, me)
        /\ \A port \in 1..Ports : PassedOver(on, port) => port < me.port \/ port = me.port
    <3>1. me.port \in 1..Ports
      BY <2>1 DEF Engaged
    <3>2. CASE me.port < Ports
      <4>1. on = [me EXCEPT !.port = me.port + 1] /\ me.port + 1 \in 1..Ports
        BY <1>p, <3>1, <3>2 DEF PassPort
      <4> HIDE DEF on, me
      <4>2. /\ on \in Engaged /\ on.there = me.there /\ on.wanted = me.wanted
            /\ on.pc = "probe" /\ on.port = me.port + 1
        BY <2>1, <4>1 DEF Engaged
      <4> QED BY <1>p, <3>1, <4>2 DEF PassedOver, Fits
    <3>3. CASE ~ (me.port < Ports)
      <4>1. on = [me EXCEPT !.pc = "free", !.port = 1] /\ 1 \in 1..Ports
        BY <1>p, <3>3 DEF PassPort
      <4> HIDE DEF on, me
      <4>2. on \in Engaged /\ on.there = me.there /\ on.wanted = me.wanted
        BY <2>1, <4>1 DEF Engaged
      <4> QED BY <1>p, <3>1, <3>3, <4>2 DEF Fits
    <3> QED BY <3>2, <3>3
  <2>3. ASSUME NEW i \in me.there
        PROVE  /\ i \in DOMAIN servers /\ servers[i].pc \in {"listening", "gone"}
               /\ servers[i].pc = "listening" => servers[i].port \in 1..Ports
               /\ servers[i].pc = "listening" /\ servers[i].port < me.port
                     => ~ Fits(servers[i], me)
               /\ servers[i].pc = "listening" /\ servers[i].port = me.port
                     => i \in Listening(me.port)
    <3>1. /\ i \in DOMAIN servers /\ servers[i].pc \in {"listening", "gone"}
          /\ servers[i].pc = "listening" /\ servers[i].port < me.port
                => ~ Fits(servers[i], me)
      BY <2>1 DEF OpenerCounts, PassedOver
    <3>2. servers[i].pc = "listening" => servers[i] \in Serving
      BY <1>s, <1>d, <3>1 DEF Processes
    <3> QED BY <3>1, <3>2 DEF Serving, Listening
  <2>4. UNCHANGED <<head, servers>>
    BY <1>4 DEF Probe
  <2>5. CASE opener' = [opener EXCEPT
                  ![o] = IF Suits(me.port, me) THEN Closed ELSE on]
    <3>1. CASE Suits(me.port, me)
      BY <1>1, <2>4, <2>5, <3>1
    <3>2. CASE ~ Suits(me.port, me)
      <4>1. OpenerCounts(on, servers)
        <5> HIDE DEF on, me
        <5> QED BY <2>2, <2>3, <3>2 DEF OpenerCounts, Suits
      <4> QED BY <1>1, <2>2, <2>4, <2>5, <3>2, <4>1
    <3> QED BY <3>1, <3>2
  <2>6. CASE opener' = [opener EXCEPT
                  ![o] = [on EXCEPT !.there = me.there \ Listening(me.port)]]
    <3> DEFINE on2 == [on EXCEPT !.there = me.there \ Listening(me.port)]
    <3>1. me.there \ Listening(me.port) \in SUBSET Nat
      BY <2>1 DEF Engaged
    <3> HIDE DEF on, me
    <3>2. /\ on2 \in Engaged /\ on2.there = me.there \ Listening(me.port)
          /\ on2.wanted = on.wanted
          /\ on2.pc = on.pc /\ on2.port = on.port
      BY <2>2, <3>1 DEF Engaged
    <3>3. UNCHANGED <<head, servers>> /\ opener' = [opener EXCEPT ![o] = on2]
      BY <2>4, <2>6 DEF on, me
    <3> HIDE DEF on2
    <3>4. OpenerCounts(on2, servers)
      BY <2>2, <2>3, <3>2 DEF OpenerCounts, PassedOver, Fits
    <3> QED BY <1>1, <3>2, <3>3, <3>4
  <2>7. CASE opener' = [opener EXCEPT ![o] = IF Free(me.port) THEN on ELSE Closed]
    <3>1. CASE Free(me.port)
      <4>1. OpenerCounts(on, servers)
        <5> HIDE DEF on, me
        <5> QED BY <2>2, <2>3, <3>1 DEF OpenerCounts, Free
      <4> QED BY <1>1, <2>2, <2>4, <2>7, <3>1, <4>1
    <3>2. CASE ~ Free(me.port)
      BY <1>1, <2>4, <2>7, <3>2
    <3> QED BY <3>1, <3>2
  <2> QED BY <1>4, <2>5, <2>6, <2>7 DEF Probe
<1>5. ASSUME NEW o \in Openers, FindPort(o) PROVE OpenerInv'
  <2> DEFINE me == opener[o]
             started == [me EXCEPT !.pc = "start"]
             further == [me EXCEPT !.port = me.port + 1]
  <2>1. /\ me \in Engaged /\ me.pc = "free" /\ OpenerCounts(me, servers)
        /\ me.port \in 1..Ports
    <3>1. me \in Engaged /\ me.pc = "free" /\ OpenerCounts(me, servers)
      BY <1>5, <1>t, <1>d DEF FindPort, OpenerInv
    <3> QED BY <3>1 DEF Engaged
  <2>2. /\ UNCHANGED <<head, servers>>
        /\ \/ opener' = [opener EXCEPT ![o] = started]
           \/ opener' = [opener EXCEPT ![o] = further] /\ me.port < Ports
           \/ opener' = [opener EXCEPT ![o] = Closed]
    <3>1. UNCHANGED <<head, servers>>
      BY <1>5 DEF FindPort
    <3>2. CASE Free(me.port)
      BY <1>5, <3>1, <3>2 DEF FindPort
    <3>3. CASE ~ Free(me.port) /\ me.port < Ports
      BY <1>5, <3>1, <3>3 DEF FindPort
    <3>4. CASE ~ Free(me.port) /\ ~ (me.port < Ports)
      BY <1>5, <3>1, <3>4 DEF FindPort
    <3> QED BY <3>2, <3>3, <3>4
  <2> HIDE DEF me
  <2>3. started \in Engaged /\ OpenerCounts(started, servers)
    BY <2>1 DEF Engaged, OpenerCounts, PassedOver, Fits
  <2>4. me.port < Ports => further \in Engaged /\ OpenerCounts(further, servers)
    <3>1. me.port < Ports => me.port + 1 \in 1..Ports
      BY <1>p, <2>1
    <3> QED BY <2>1, <3>1 DEF Engaged, OpenerCounts, PassedOver, Fits
  <2> HIDE DEF started, further
  <2> QED BY <1>1, <2>2, <2>3, <2>4
<1>6. ASSUME NEW o \in Openers, NEW sandboxed \in BOOLEAN, Start(o, sandboxed)
      PROVE  OpenerInv'
  <2> DEFINE me == opener[o]
             new == [pc |-> "starting", port |-> me.port, head |-> Unknown,
                     sandboxed |-> sandboxed, wanted |-> me.wanted, there |-> me.there]
  <2>1. me \in Engaged /\ me.pc = "start" /\ OpenerCounts(me, servers)
    BY <1>6, <1>t, <1>d DEF Start, OpenerInv
  <2>2. /\ UNCHANGED head /\ servers' = Append(servers, new)
        /\ opener' = [opener EXCEPT ![o] = Closed]
    BY <1>6 DEF Start
  <2> HIDE DEF me
  <2>3. new \in Serving /\ new.there = me.there /\ new.wanted = me.wanted
    BY <2>1 DEF Engaged, Serving, Unknown
  <2>4. ServerCounts(new, servers)
    BY <2>1, <2>3 DEF OpenerCounts, ServerCounts, PassedOver, Fits
  <2> HIDE DEF new
  <2>5. /\ servers' \in Seq(Processes)
        /\ DOMAIN servers' = DOMAIN servers \cup {Len(servers) + 1}
        /\ Len(servers) + 1 \notin DOMAIN servers
        /\ servers'[Len(servers) + 1] = new
        /\ \A i \in DOMAIN servers : servers'[i] = servers[i]
    <3>1. new \in Processes
      BY <2>3 DEF Processes
    <3>2. /\ servers' \in Seq(Processes) /\ Len(servers') = Len(servers) + 1
          /\ servers'[Len(servers) + 1] = new
          /\ \A i \in 1..Len(servers) : servers'[i] = servers[i]
      BY <1>t, <2>2, <3>1, AppendProperties
    <3>3. DOMAIN servers' = 1..Len(servers')
      BY <3>2, LenProperties
    <3> QED BY <1>s, <3>2, <3>3
  <2>6. Onward(servers, servers')
    BY <2>5 DEF Onward
  <2>7. OpenerTypeOK'
    BY <1>t, <2>2, <2>5 DEF OpenerTypeOK
  <2>8. ASSUME NEW p \in Openers, opener'[p] \in Engaged
        PROVE  OpenerCounts(opener'[p], servers')
    <3>1. opener'[p] = opener[p]
      BY <1>t, <1>d, <2>2, <2>8
    <3>2. OpenerCounts(opener[p], servers)
      BY <2>8, <3>1 DEF OpenerInv
    <3> QED BY <2>6, <3>1, <3>2, CountsGoOnward
  <2>9. ASSUME NEW b \in DOMAIN servers', servers'[b] \in Serving
        PROVE  ServerCounts(servers'[b], servers')
    <3>1. ServerCounts(servers'[b], servers)
      BY <2>4, <2>5, <2>9 DEF OpenerInv
    <3> QED BY <2>6, <3>1, CountsGoOnward
  <2> QED BY <2>7, <2>8, <2>9 DEF OpenerInv
<1>7. ASSUME NEW i \in DOMAIN servers, ReadHead(i) \/ Bind(i) \/ Ends(i)
      PROVE  OpenerInv'
  <2> DEFINE was == servers[i]
  <2>1. was \in Serving /\ UNCHANGED <<head, opener>>
    BY <1>7, <1>s, <1>d DEF ReadHead, Bind, Ends, Processes
  <2>2. CASE servers' = [servers EXCEPT ![i] = Gone]
    BY <1>2, <2>1, <2>2
  <2>3. CASE ReadHead(i)
    <3>g. PICK git \in {head, Unknown} :
              servers' = [servers EXCEPT ![i].pc = "binding", ![i].head = git]
      BY <2>3 DEF ReadHead
    <3> DEFINE me == [was EXCEPT !.pc = "binding", !.head = git]
    <3>1. was.pc = "starting" /\ servers' = [servers EXCEPT ![i] = me]
      BY <2>3, <3>g DEF ReadHead
    <3>n. git \in Nat
      BY <1>t, <3>g DEF Unknown
    <3> HIDE DEF was
    <3>2. me \in Serving /\ me.there = was.there /\ me.wanted = was.wanted
      BY <2>1, <3>n DEF Serving
    <3> HIDE DEF me
    <3> QED BY <1>2, <2>1, <3>1, <3>2 DEF was
  <2>4. CASE Bind(i) /\ servers' = [servers EXCEPT ![i].pc = "listening"]
    <3> DEFINE me == [was EXCEPT !.pc = "listening"]
    <3>1. was.pc = "binding" /\ servers' = [servers EXCEPT ![i] = me]
      BY <2>4 DEF Bind
    <3> HIDE DEF was
    <3>2. me \in Serving /\ me.there = was.there /\ me.wanted = was.wanted
      BY <2>1 DEF Serving
    <3> HIDE DEF me
    <3> QED BY <1>2, <2>1, <3>1, <3>2 DEF was
  <2> QED BY <1>7, <2>2, <2>3, <2>4 DEF Bind, Ends
<1>8. ASSUME UNCHANGED <<servers, opener>>, head' \in Nat PROVE OpenerInv'
  BY <1>8, <1>t DEF OpenerInv, OpenerTypeOK
<1>9. ASSUME Checkout PROVE OpenerInv'
  BY <1>8, <1>9, <1>t DEF Checkout
<1>10. ASSUME OtherEnds PROVE OpenerInv'
  BY <1>8, <1>10, <1>t DEF OtherEnds
<1>11. ASSUME UNCHANGED wvars PROVE OpenerInv'
  BY <1>8, <1>11, <1>t DEF wvars
<1> QED BY <1>3, <1>4, <1>5, <1>6, <1>7, <1>9, <1>10, <1>11 DEF OpenerNext

(* However many openers look, and however servers and the checkout change     *)
(* meanwhile: a second server of one HEAD, beside one that its opener could   *)
(* count on, was started for another HEAD or because of a sandbox.            *)
THEOREM SecondServersAreExplained == OpenerSpec => []SecondServerIsExplained
<1>1. OpenerInit => OpenerInv
  BY OpenerBegins
<1>2. OpenerInv /\ [OpenerNext]_wvars => OpenerInv'
  BY OpenerStep
<1>3. OpenerInv => SecondServerIsExplained
  <2> SUFFICES ASSUME OpenerInv,
                      NEW a \in DOMAIN servers, NEW b \in DOMAIN servers,
                      servers[a].pc = "listening", servers[b].pc = "listening",
                      servers[a].head = servers[b].head, a \in servers[b].there
               PROVE  servers[a].sandboxed \/ servers[b].wanted # servers[b].head
    BY DEF SecondServerIsExplained
  <2>1. servers \in Seq(Processes)
    BY DEF OpenerInv, OpenerTypeOK
  <2>2. servers[b] \in Serving
    BY <2>1, LenProperties, ElementOfSeq DEF Processes, Gone
  <2> QED BY <2>2 DEF OpenerInv, ServerCounts, Fits
<1> QED BY <1>1, <1>2, <1>3, PTL DEF OpenerSpec

-----------------------------------------------------------------------------
(* ForeignHolding: torn pairs and the manifest                                *)

Entries == [master : Nat, daily : Nat]
Formals == [master : Nat, daily : Nat, authority : Entries]
Builds == [at : {"idle", "authority", "release", "compare"},
           before : Formals \cup {Nothing}, authority : Entries \cup {Nothing}]
Candidates == [master : Nat, before : Formals, authority : Entries]
Backups == [master : Nat, authority : Entries]

PastBackup == {"master", "authority", "verify", "restore", "restore authority",
               "restore master"}
Points == {"idle", "hash", "backup"} \cup PastBackup

Says(entry, m, d) == entry.master = m /\ entry.daily = d

HoldingTypeOK ==
    /\ master \in Nat /\ daily \in Nat /\ authority \in Entries
    /\ build \in [Releases -> Builds]
    /\ candidate \in [Releases -> Candidates \cup {Nothing}]
    /\ dryRun \in [Releases -> BOOLEAN]
    /\ approved \subseteq Releases
    /\ pub \in [Releases -> Points]
    /\ backup \in [Releases -> Backups \cup {Nothing}]

(* What a builder or publisher is about to use is there; a release that is    *)
(* approved is not built again.                                               *)
ReadsAreThere ==
    \A r \in Releases :
        /\ build[r].at # "idle" => build[r].before \in Formals
        /\ build[r].at = "release" => build[r].authority \in Entries
        /\ build[r].at = "compare" \/ dryRun[r] =>
              candidate[r] \in Candidates /\ candidate[r].master = Target(r)
        /\ r \in approved => dryRun[r] /\ build[r].at = "idle"
        /\ pub[r] # "idle" => r \in approved
        /\ pub[r] \in PastBackup => backup[r] \in Backups

OnePublisher == \A r, s \in Releases : pub[r] # "idle" /\ pub[s] # "idle" => r = s

(* Until the dry run of the series passed, nothing of the master was touched; *)
(* its candidate was made between two looks at the same formal files.         *)
SeriesFirst ==
    ~ dryRun["series"] =>
        /\ master = 0 /\ authority.master = 0 /\ authority.daily <= daily
        /\ "metadata" \notin approved /\ ~ dryRun["metadata"]
        /\ build["metadata"].at = "idle"

SeriesIsBuilt ==
    LET b == build["series"]
        c == candidate["series"]
    IN  /\ b.at # "idle" => ~ dryRun["series"] /\ b.before.authority.master = 0
        /\ b.at = "authority" => b.before.authority.daily <= authority.daily
        /\ b.at = "release" =>
              /\ b.authority.master = 0
              /\ b.before.authority.daily <= b.authority.daily
              /\ b.authority.daily <= authority.daily
        /\ b.at = "compare" =>
              /\ c.before.master = 0 /\ c.before.authority.master = 0
              /\ c.authority.master = 1
              /\ b.before.authority.daily <= c.authority.daily
              /\ c.authority.daily <= c.before.authority.daily
              /\ c.before.authority.daily <= authority.daily
        /\ dryRun["series"] =>
              /\ c.before.master = 0 /\ c.before.authority.master = 0
              /\ Says(c.authority, 1, c.before.authority.daily)

(* The pair that the series found is in its backup before anything changes.   *)
SeriesIsBackedUp ==
    /\ backup["series"] # Nothing =>
          backup["series"].master = 0 /\ backup["series"].authority.master = 0
    /\ \/ master # 0 \/ authority.master # 0
       \/ pub["series"] \in PastBackup \/ pub["metadata"] # "idle"
       => backup["series"] # Nothing
    /\ pub["series"] \in {"hash", "backup"} => master = 0 /\ authority.master = 0

(* While nobody disturbs a publisher, it only takes the files from one pair   *)
(* that belongs together to another.                                          *)
InStep ==
    /\ Publishing => ~ appended
    /\ ~ Publishing => /\ authority.master = master
                       /\ ~ appended => authority.daily = daily
    /\ \A r \in Releases :
          /\ pub[r] # "idle" => Says(candidate[r].authority, candidate[r].master, daily)
          /\ pub[r] \in {"hash", "backup", "master"} => Says(authority, master, daily)
          /\ pub[r] \in PastBackup => Says(backup[r].authority, backup[r].master, daily)
          /\ pub[r] = "restore authority" => master = backup[r].master
          /\ pub[r] = "restore master" => authority = backup[r].authority

HoldingInv ==
    /\ HoldingTypeOK /\ ReadsAreThere /\ OnePublisher
    /\ SeriesFirst /\ SeriesIsBuilt /\ SeriesIsBackedUp
    /\ ~ disturbed => InStep

LEMMA HoldingFacts ==
    ASSUME HoldingInv
    PROVE  /\ master \in Nat /\ daily \in Nat /\ authority \in Entries
           /\ authority.master \in Nat /\ authority.daily \in Nat
           /\ Formal \in Formals /\ Formal.master = master
           /\ Formal.authority = authority
           /\ \A r \in Releases :
                 /\ pub[r] # "idle" => r \in approved
                 /\ r \in approved => /\ dryRun[r] /\ build[r].at = "idle"
                                      /\ candidate[r] \in Candidates
                                      /\ candidate[r].master = Target(r)
                                      /\ candidate[r].master \in Nat
                                      /\ candidate[r].authority \in Entries
                 /\ pub[r] \in PastBackup => /\ backup[r] \in Backups
                                             /\ backup[r].master \in Nat
                                             /\ backup[r].authority \in Entries
<1>1. master \in Nat /\ daily \in Nat /\ authority \in Entries
  BY DEF HoldingInv, HoldingTypeOK
<1>2. authority.master \in Nat /\ authority.daily \in Nat
  BY <1>1 DEF Entries
<1>3. Formal \in Formals /\ Formal.master = master /\ Formal.authority = authority
  BY <1>1 DEF Formal, Formals
<1>4. ASSUME NEW r \in Releases, pub[r] # "idle" PROVE r \in approved
  BY <1>4 DEF HoldingInv, ReadsAreThere
<1>5. ASSUME NEW r \in Releases, r \in approved
      PROVE  /\ dryRun[r] /\ build[r].at = "idle"
             /\ candidate[r] \in Candidates /\ candidate[r].master = Target(r)
             /\ candidate[r].master \in Nat /\ candidate[r].authority \in Entries
  BY <1>5 DEF HoldingInv, ReadsAreThere, Candidates
<1>6. ASSUME NEW r \in Releases, pub[r] \in PastBackup
      PROVE  /\ backup[r] \in Backups /\ backup[r].master \in Nat
             /\ backup[r].authority \in Entries
  BY <1>6 DEF HoldingInv, ReadsAreThere, Backups
<1> QED BY <1>1, <1>2, <1>3, <1>4, <1>5, <1>6

LEMMA HoldingTypeStep == HoldingInv /\ [HoldingNext]_hvars => HoldingTypeOK'
<1> SUFFICES ASSUME HoldingInv, [HoldingNext]_hvars PROVE HoldingTypeOK'
  OBVIOUS
<1> USE HoldingFacts DEF files, building, owning, pubvars, Releases, PublisherGoesTo
<1>1. ASSUME AppendDaily PROVE HoldingTypeOK'
  <2>1. /\ daily' = daily + 1
        /\ UNCHANGED <<master, authority, building, owning, pub, baseline, backup>>
    BY <1>1 DEF AppendDaily
  <2> QED BY <2>1 DEF HoldingTypeOK, HoldingInv
<1>2. ASSUME AttestDaily PROVE HoldingTypeOK'
  <2>1. [authority EXCEPT !.daily = daily] \in Entries
    BY DEF Entries
  <2> QED BY <1>2, <2>1 DEF AttestDaily, HoldingTypeOK, HoldingInv
<1>3. ASSUME NEW r \in Releases, StartBuild(r) PROVE HoldingTypeOK'
  <2>1. [at |-> "authority", before |-> Formal, authority |-> Nothing] \in Builds
    BY DEF Builds
  <2> QED BY <1>3, <2>1 DEF StartBuild, HoldingTypeOK, HoldingInv
<1>4. ASSUME NEW r \in Releases, BuildAuthority(r) PROVE HoldingTypeOK'
  <2>1. [build[r] EXCEPT !.at = "release", !.authority = authority] \in Builds
    <3>1. build[r] \in Builds
      BY DEF HoldingTypeOK, HoldingInv
    <3> QED BY <3>1 DEF Builds
  <2>2. build' = [build EXCEPT
                 ![r] = [build[r] EXCEPT !.at = "release", !.authority = authority]]
    BY <1>4 DEF BuildAuthority, HoldingTypeOK, HoldingInv
  <2> QED BY <1>4, <2>1, <2>2 DEF BuildAuthority, HoldingTypeOK, HoldingInv
<1>5. ASSUME NEW r \in Releases, BuildRelease(r) PROVE HoldingTypeOK'
  <2>1. [build[r] EXCEPT !.at = "compare"] \in Builds
    BY DEF HoldingTypeOK, Builds, HoldingInv
  <2>2. build[r].authority \in Entries /\ Target(r) \in Nat
    BY <1>5 DEF BuildRelease, ReadsAreThere, Target, HoldingInv
  <2>3. [build[r].authority EXCEPT !.master = Target(r)] \in Entries
    BY <2>2 DEF Entries
  <2>4. [master |-> Target(r), before |-> Formal,
         authority |-> [build[r].authority EXCEPT !.master = Target(r)]] \in Candidates
    BY <2>2, <2>3 DEF Candidates
  <2>5. (r = "metadata") \in BOOLEAN
    OBVIOUS
  <2> QED BY <1>5, <2>1, <2>4, <2>5 DEF BuildRelease, HoldingTypeOK, HoldingInv
<1>6. ASSUME NEW r \in Releases, CompareProtected(r) PROVE HoldingTypeOK'
  <2>1. [at |-> "idle", before |-> Nothing, authority |-> Nothing] \in Builds
    BY DEF Builds
  <2>2. (dryRun[r] \/ Formal = build[r].before) \in BOOLEAN
    OBVIOUS
  <2> QED BY <1>6, <2>1, <2>2 DEF CompareProtected, HoldingTypeOK, HoldingInv
<1>7. ASSUME NEW r \in Releases, Approve(r) PROVE HoldingTypeOK'
  BY <1>7 DEF Approve, HoldingInv, HoldingTypeOK, Points, PastBackup
<1>8. ASSUME NEW r \in Releases, VerifyCandidate(r) PROVE HoldingTypeOK'
  BY <1>8 DEF VerifyCandidate, HoldingInv, HoldingTypeOK, Points, PastBackup
<1>9. ASSUME NEW r \in Releases, HashProtected(r) PROVE HoldingTypeOK'
  BY <1>9 DEF HashProtected, HoldingInv, HoldingTypeOK, Points, PastBackup
<1>10. ASSUME NEW r \in Releases, BackUp(r) PROVE HoldingTypeOK'
  <2>1. [master |-> master, authority |-> authority] \in Backups
    BY DEF Backups
  <2> QED BY <1>10, <2>1 DEF BackUp, HoldingTypeOK, HoldingInv, Points, PastBackup
<1>11. ASSUME NEW r \in Releases, WriteMaster(r) PROVE HoldingTypeOK'
  BY <1>11 DEF WriteMaster, HoldingInv, HoldingTypeOK, Points, PastBackup
<1>12. ASSUME NEW r \in Releases, WriteAuthority(r) PROVE HoldingTypeOK'
  BY <1>12 DEF WriteAuthority, HoldingInv, HoldingTypeOK, Points, PastBackup
<1>13. ASSUME NEW r \in Releases, VerifyPublished(r) PROVE HoldingTypeOK'
  <2>1. pub' = [pub EXCEPT ![r] = "idle"] \/ pub' = [pub EXCEPT ![r] = "restore"]
    BY <1>13 DEF VerifyPublished
  <2> QED BY ZenonT(40), <1>13, <2>1 DEF VerifyPublished, HoldingTypeOK, HoldingInv, Points,
             PastBackup
<1>14. ASSUME NEW r \in Releases, PublishFails(r) PROVE HoldingTypeOK'
  BY <1>14 DEF PublishFails, HoldingInv, HoldingTypeOK, Points, PastBackup
<1>15. ASSUME NEW r \in Releases, RestoreFirst(r) PROVE HoldingTypeOK'
  BY ZenonT(40), <1>15 DEF RestoreFirst, HoldingInv, HoldingTypeOK, Points, PastBackup
<1>16. ASSUME NEW r \in Releases, RestoreSecond(r) PROVE HoldingTypeOK'
  BY <1>16 DEF RestoreSecond, HoldingInv, HoldingTypeOK, Points, PastBackup
<1>17. ASSUME NEW r \in Releases, KillPublisher(r) PROVE HoldingTypeOK'
  BY <1>17 DEF KillPublisher, HoldingInv, HoldingTypeOK, Points, PastBackup
<1>18. ASSUME UNCHANGED hvars PROVE HoldingTypeOK'
  BY <1>18 DEF hvars, HoldingInv, HoldingTypeOK, Points, PastBackup
<1> QED BY <1>1, <1>2, <1>3, <1>4, <1>5, <1>6, <1>7, <1>8, <1>9, <1>10, <1>11,
           <1>12, <1>13, <1>14, <1>15, <1>16, <1>17, <1>18 DEF HoldingNext

DayAttested ==
    /\ authority'.daily = daily /\ authority'.master = authority.master
    /\ UNCHANGED <<master, daily, building, owning, pub, baseline, backup>>
    /\ ~ appended' /\ (~ disturbed' => ~ disturbed /\ ~ Publishing)

LEMMA AttestDailyDoes ==
    ASSUME HoldingInv, AttestDaily PROVE DayAttested
BY HoldingFacts DEF AttestDaily, Entries, DayAttested

AuthorityRead(r) ==
    /\ build[r].at = "authority" /\ build'[r].at = "release"
    /\ build'[r].before = build[r].before /\ build'[r].authority = authority
    /\ \A q \in Releases : q # r => build'[q] = build[q]
    /\ UNCHANGED <<files, candidate, dryRun, owning, pubvars>>

LEMMA BuildAuthorityDoes ==
    ASSUME HoldingInv, NEW r \in Releases, BuildAuthority(r) PROVE AuthorityRead(r)
<1>1. build[r] \in Builds /\ build \in [Releases -> Builds]
  BY DEF HoldingInv, HoldingTypeOK
<1>2. build' = [build EXCEPT
                 ![r] = [build[r] EXCEPT !.at = "release", !.authority = authority]]
  BY <1>1 DEF BuildAuthority
<1> QED BY <1>1, <1>2 DEF BuildAuthority, Builds, AuthorityRead

CandidateWritten(r) ==
    /\ build[r].at = "release" /\ build'[r].at = "compare"
    /\ build'[r].before = build[r].before
    /\ candidate'[r] \in Candidates /\ candidate'[r].master = Target(r)
    /\ candidate'[r].before = Formal
    /\ candidate'[r].authority.master = Target(r)
    /\ candidate'[r].authority.daily = build[r].authority.daily
    /\ dryRun'[r] <=> r = "metadata"
    /\ \A q \in Releases : q # r => /\ build'[q] = build[q]
                                   /\ candidate'[q] = candidate[q]
                                   /\ dryRun'[q] = dryRun[q]
    /\ UNCHANGED <<files, owning, pubvars>>

LEMMA BuildReleaseDoes ==
    ASSUME HoldingInv, NEW r \in Releases, BuildRelease(r) PROVE CandidateWritten(r)
<1> DEFINE entry == [build[r].authority EXCEPT !.master = Target(r)]
           c == [master |-> Target(r), before |-> Formal, authority |-> entry]
<1>1. build[r] \in Builds /\ build[r].authority \in Entries /\ Target(r) \in Nat
  BY DEF HoldingInv, HoldingTypeOK, ReadsAreThere, BuildRelease, Target
<1>2. /\ entry \in Entries /\ entry.master = Target(r)
      /\ entry.daily = build[r].authority.daily
  BY <1>1 DEF Entries
<1> HIDE DEF entry
<1>3. /\ c \in Candidates /\ c.master = Target(r) /\ c.before = Formal
      /\ c.authority = entry
  BY <1>1, <1>2, HoldingFacts DEF Candidates
<1> HIDE DEF c
<1>4. candidate' = [candidate EXCEPT ![r] = c]
  BY DEF BuildRelease, c, entry
<1>5. candidate'[r] = c /\ \A q \in Releases : q # r => candidate'[q] = candidate[q]
  BY <1>4 DEF HoldingInv, HoldingTypeOK
<1>6. /\ build[r].at = "release" /\ build'[r].at = "compare"
      /\ build'[r].before = build[r].before
      /\ \A q \in Releases : q # r => build'[q] = build[q]
  <2>1. /\ build \in [Releases -> Builds]
        /\ build' = [build EXCEPT ![r] = [build[r] EXCEPT !.at = "compare"]]
    BY DEF BuildRelease, HoldingInv, HoldingTypeOK
  <2> QED BY <1>1, <2>1 DEF BuildRelease, Builds
<1>7. /\ dryRun' = [dryRun EXCEPT ![r] = r = "metadata"]
      /\ dryRun \in [Releases -> BOOLEAN]
  BY DEF BuildRelease, HoldingInv, HoldingTypeOK
<1> QED BY <1>2, <1>3, <1>5, <1>6, <1>7 DEF BuildRelease, CandidateWritten

BuildCompared(r) ==
    /\ build[r].at = "compare" /\ build'[r].at = "idle"
    /\ dryRun'[r] <=> dryRun[r] \/ Formal = build[r].before
    /\ \A q \in Releases : q # r => build'[q] = build[q] /\ dryRun'[q] = dryRun[q]
    /\ UNCHANGED <<files, candidate, owning, pubvars>>

LEMMA CompareProtectedDoes ==
    ASSUME HoldingInv, NEW r \in Releases, CompareProtected(r)
    PROVE  BuildCompared(r)
<1>1. build \in [Releases -> Builds] /\ dryRun \in [Releases -> BOOLEAN]
  BY DEF HoldingInv, HoldingTypeOK
<1>2. /\ build' = [build EXCEPT
                     ![r] = [at |-> "idle", before |-> Nothing, authority |-> Nothing]]
      /\ dryRun' = [dryRun EXCEPT ![r] = dryRun[r] \/ Formal = build[r].before]
      /\ build[r].at = "compare" /\ UNCHANGED <<files, candidate, owning, pubvars>>
  BY DEF CompareProtected
<1> QED BY <1>1, <1>2 DEF BuildCompared

PairBackedUp(r) ==
    /\ pub[r] = "backup" /\ pub' = [pub EXCEPT ![r] = "master"]
    /\ backup'[r] \in Backups /\ backup'[r] # Nothing
    /\ backup'[r].master = master /\ backup'[r].authority = authority
    /\ \A q \in Releases : q # r => backup'[q] = backup[q]
    /\ UNCHANGED <<files, building, owning, baseline, published, disturbed>>

LEMMA BackUpDoes ==
    ASSUME HoldingInv, NEW r \in Releases, BackUp(r) PROVE PairBackedUp(r)
<1> DEFINE b == [master |-> master, authority |-> authority]
<1>1. b \in Backups /\ b.master = master /\ b.authority = authority
  BY HoldingFacts DEF Backups
<1>2. b # Nothing
  BY <1>1, NothingIsNoBackup DEF Backups, Entries
<1> HIDE DEF b
<1>3. /\ backup' = [backup EXCEPT ![r] = b]
      /\ backup \in [Releases -> Backups \cup {Nothing}]
  BY DEF BackUp, b, HoldingInv, HoldingTypeOK
<1> QED BY <1>1, <1>2, <1>3 DEF BackUp, PublisherGoesTo, PairBackedUp

LEMMA NumbersRead ==
    ASSUME HoldingInv, NEW r \in Releases
    PROVE  /\ build[r].at # "idle" => build[r].before.authority.daily \in Nat
           /\ build[r].at = "release" => build[r].authority.daily \in Nat
           /\ build[r].at = "compare" \/ dryRun[r] =>
                 /\ candidate[r].before.authority.daily \in Nat
                 /\ candidate[r].authority.daily \in Nat
<1>1. build[r].at # "idle" => build[r].before \in Formals
  BY DEF HoldingInv, ReadsAreThere
<1>2. build[r].at = "release" => build[r].authority \in Entries
  BY DEF HoldingInv, ReadsAreThere
<1>3. build[r].at = "compare" \/ dryRun[r] => candidate[r] \in Candidates
  BY DEF HoldingInv, ReadsAreThere
<1> QED BY <1>1, <1>2, <1>3 DEF Formals, Candidates, Entries

LEMMA ReadsStep == HoldingInv /\ [HoldingNext]_hvars => ReadsAreThere'
<1> SUFFICES ASSUME HoldingInv, [HoldingNext]_hvars PROVE ReadsAreThere'
  OBVIOUS
<1> USE HoldingFacts DEF files, building, owning, pubvars, Releases, PublisherGoesTo
<1>1. ASSUME AppendDaily PROVE ReadsAreThere'
  BY <1>1 DEF AppendDaily, HoldingInv, HoldingTypeOK, ReadsAreThere, PastBackup
<1>2. ASSUME AttestDaily PROVE ReadsAreThere'
  BY <1>2 DEF AttestDaily, HoldingInv, HoldingTypeOK, ReadsAreThere, PastBackup
<1>3. ASSUME NEW r \in Releases, StartBuild(r) PROVE ReadsAreThere'
  BY <1>3 DEF StartBuild, HoldingInv, HoldingTypeOK, ReadsAreThere, PastBackup
<1>4. ASSUME NEW r \in Releases, BuildAuthority(r) PROVE ReadsAreThere'
  <2>1. AuthorityRead(r)
    BY <1>4, BuildAuthorityDoes
  <2> QED BY ZenonT(40), <2>1 DEF AuthorityRead, HoldingInv, HoldingTypeOK, ReadsAreThere,
             PastBackup
<1>5. ASSUME NEW r \in Releases, BuildRelease(r) PROVE ReadsAreThere'
  <2>1. CandidateWritten(r)
    BY <1>5, BuildReleaseDoes
  <2>2. r \notin approved /\ pub[r] = "idle" /\ build[r].before \in Formals
    BY <2>1 DEF CandidateWritten, HoldingInv, HoldingTypeOK, ReadsAreThere, Points
  <2>3. ASSUME NEW q \in Releases
        PROVE  /\ build'[q].at # "idle" => build'[q].before \in Formals
               /\ build'[q].at = "release" => build'[q].authority \in Entries
               /\ build'[q].at = "compare" \/ dryRun'[q] =>
                     /\ candidate'[q] \in Candidates
                     /\ candidate'[q].master = Target(q)
               /\ q \in approved' => dryRun'[q] /\ build'[q].at = "idle"
               /\ pub'[q] # "idle" => q \in approved'
               /\ pub'[q] \in PastBackup => backup'[q] \in Backups
    <3>1. CASE q = r
      BY <2>1, <2>2, <3>1 DEF CandidateWritten, PastBackup
    <3>2. CASE q # r
      BY <2>1, <3>2 DEF CandidateWritten, HoldingInv, ReadsAreThere
    <3> QED BY <3>1, <3>2
  <2> QED BY <2>3 DEF ReadsAreThere
<1>6. ASSUME NEW r \in Releases, CompareProtected(r) PROVE ReadsAreThere'
  BY <1>6 DEF CompareProtected, HoldingInv, HoldingTypeOK, ReadsAreThere, PastBackup
<1>7. ASSUME NEW r \in Releases, Approve(r) PROVE ReadsAreThere'
  BY <1>7 DEF Approve, HoldingInv, HoldingTypeOK, ReadsAreThere, PastBackup
<1>8. ASSUME NEW r \in Releases, VerifyCandidate(r) PROVE ReadsAreThere'
  BY <1>8 DEF VerifyCandidate, HoldingInv, HoldingTypeOK, ReadsAreThere, PastBackup
<1>9. ASSUME NEW r \in Releases, HashProtected(r) PROVE ReadsAreThere'
  BY <1>9 DEF HashProtected, HoldingInv, HoldingTypeOK, ReadsAreThere, PastBackup
<1>10. ASSUME NEW r \in Releases, BackUp(r) PROVE ReadsAreThere'
  <2>1. PairBackedUp(r)
    BY <1>10, BackUpDoes
  <2> QED BY <2>1 DEF PairBackedUp, HoldingInv, HoldingTypeOK, ReadsAreThere,
             PastBackup
<1>11. ASSUME NEW r \in Releases, WriteMaster(r) PROVE ReadsAreThere'
  BY <1>11 DEF WriteMaster, HoldingInv, HoldingTypeOK, ReadsAreThere, PastBackup
<1>12. ASSUME NEW r \in Releases, WriteAuthority(r) PROVE ReadsAreThere'
  BY <1>12 DEF WriteAuthority, HoldingInv, HoldingTypeOK, ReadsAreThere, PastBackup
<1>13. ASSUME NEW r \in Releases, VerifyPublished(r) PROVE ReadsAreThere'
  BY ZenonT(40), <1>13 DEF VerifyPublished, HoldingInv, HoldingTypeOK, ReadsAreThere, PastBackup
<1>14. ASSUME NEW r \in Releases, PublishFails(r) PROVE ReadsAreThere'
  BY <1>14 DEF PublishFails, HoldingInv, HoldingTypeOK, ReadsAreThere, PastBackup
<1>15. ASSUME NEW r \in Releases, RestoreFirst(r) PROVE ReadsAreThere'
  BY ZenonT(40), <1>15 DEF RestoreFirst, HoldingInv, HoldingTypeOK, ReadsAreThere, PastBackup
<1>16. ASSUME NEW r \in Releases, RestoreSecond(r) PROVE ReadsAreThere'
  BY <1>16 DEF RestoreSecond, HoldingInv, HoldingTypeOK, ReadsAreThere, PastBackup
<1>17. ASSUME NEW r \in Releases, KillPublisher(r) PROVE ReadsAreThere'
  BY <1>17 DEF KillPublisher, HoldingInv, HoldingTypeOK, ReadsAreThere, PastBackup
<1>18. ASSUME UNCHANGED hvars PROVE ReadsAreThere'
  BY <1>18 DEF hvars, HoldingInv, HoldingTypeOK, ReadsAreThere, PastBackup
<1> QED BY <1>1, <1>2, <1>3, <1>4, <1>5, <1>6, <1>7, <1>8, <1>9, <1>10, <1>11,
           <1>12, <1>13, <1>14, <1>15, <1>16, <1>17, <1>18 DEF HoldingNext

LEMMA OnePublisherStep == HoldingInv /\ [HoldingNext]_hvars => OnePublisher'
<1> SUFFICES ASSUME HoldingInv, [HoldingNext]_hvars PROVE OnePublisher'
  OBVIOUS
<1> USE HoldingFacts DEF files, building, owning, pubvars, Releases, PublisherGoesTo
<1>1. ASSUME AppendDaily PROVE OnePublisher'
  BY <1>1 DEF AppendDaily, HoldingInv, HoldingTypeOK, OnePublisher, Publishing
<1>2. ASSUME AttestDaily PROVE OnePublisher'
  BY <1>2 DEF AttestDaily, HoldingInv, HoldingTypeOK, OnePublisher, Publishing
<1>3. ASSUME NEW r \in Releases, StartBuild(r) PROVE OnePublisher'
  BY <1>3 DEF StartBuild, HoldingInv, HoldingTypeOK, OnePublisher, Publishing
<1>4. ASSUME NEW r \in Releases, BuildAuthority(r) PROVE OnePublisher'
  BY <1>4 DEF BuildAuthority, HoldingInv, HoldingTypeOK, OnePublisher, Publishing
<1>5. ASSUME NEW r \in Releases, BuildRelease(r) PROVE OnePublisher'
  BY <1>5 DEF BuildRelease, HoldingInv, HoldingTypeOK, OnePublisher, Publishing
<1>6. ASSUME NEW r \in Releases, CompareProtected(r) PROVE OnePublisher'
  BY <1>6 DEF CompareProtected, HoldingInv, HoldingTypeOK, OnePublisher, Publishing
<1>7. ASSUME NEW r \in Releases, Approve(r) PROVE OnePublisher'
  BY <1>7 DEF Approve, HoldingInv, HoldingTypeOK, OnePublisher, Publishing
<1>8. ASSUME NEW r \in Releases, VerifyCandidate(r) PROVE OnePublisher'
  BY <1>8 DEF VerifyCandidate, HoldingInv, HoldingTypeOK, OnePublisher, Publishing
<1>9. ASSUME NEW r \in Releases, HashProtected(r) PROVE OnePublisher'
  BY <1>9 DEF HashProtected, HoldingInv, HoldingTypeOK, OnePublisher, Publishing
<1>10. ASSUME NEW r \in Releases, BackUp(r) PROVE OnePublisher'
  BY <1>10 DEF BackUp, HoldingInv, HoldingTypeOK, OnePublisher, Publishing
<1>11. ASSUME NEW r \in Releases, WriteMaster(r) PROVE OnePublisher'
  BY <1>11 DEF WriteMaster, HoldingInv, HoldingTypeOK, OnePublisher, Publishing
<1>12. ASSUME NEW r \in Releases, WriteAuthority(r) PROVE OnePublisher'
  BY <1>12 DEF WriteAuthority, HoldingInv, HoldingTypeOK, OnePublisher, Publishing
<1>13. ASSUME NEW r \in Releases, VerifyPublished(r) PROVE OnePublisher'
  BY <1>13 DEF VerifyPublished, HoldingInv, HoldingTypeOK, OnePublisher, Publishing
<1>14. ASSUME NEW r \in Releases, PublishFails(r) PROVE OnePublisher'
  BY <1>14 DEF PublishFails, HoldingInv, HoldingTypeOK, OnePublisher, Publishing
<1>15. ASSUME NEW r \in Releases, RestoreFirst(r) PROVE OnePublisher'
  BY ZenonT(40), <1>15 DEF RestoreFirst, HoldingInv, HoldingTypeOK, OnePublisher, Publishing
<1>16. ASSUME NEW r \in Releases, RestoreSecond(r) PROVE OnePublisher'
  BY <1>16 DEF RestoreSecond, HoldingInv, HoldingTypeOK, OnePublisher, Publishing
<1>17. ASSUME NEW r \in Releases, KillPublisher(r) PROVE OnePublisher'
  BY <1>17 DEF KillPublisher, HoldingInv, HoldingTypeOK, OnePublisher, Publishing
<1>18. ASSUME UNCHANGED hvars PROVE OnePublisher'
  BY <1>18 DEF hvars, HoldingInv, HoldingTypeOK, OnePublisher, Publishing
<1> QED BY <1>1, <1>2, <1>3, <1>4, <1>5, <1>6, <1>7, <1>8, <1>9, <1>10, <1>11,
           <1>12, <1>13, <1>14, <1>15, <1>16, <1>17, <1>18 DEF HoldingNext

LEMMA SeriesFirstStep == HoldingInv /\ [HoldingNext]_hvars => SeriesFirst'
<1> SUFFICES ASSUME HoldingInv, [HoldingNext]_hvars PROVE SeriesFirst'
  OBVIOUS
<1> USE HoldingFacts DEF files, building, owning, pubvars, Releases, PublisherGoesTo
<1>1. ASSUME AppendDaily PROVE SeriesFirst'
  BY <1>1 DEF AppendDaily, HoldingInv, HoldingTypeOK, SeriesFirst, Target
<1>2. ASSUME AttestDaily PROVE SeriesFirst'
  BY <1>2 DEF AttestDaily, HoldingInv, HoldingTypeOK, SeriesFirst, Target
<1>3. ASSUME NEW r \in Releases, StartBuild(r) PROVE SeriesFirst'
  BY <1>3 DEF StartBuild, HoldingInv, HoldingTypeOK, SeriesFirst, Target
<1>4. ASSUME NEW r \in Releases, BuildAuthority(r) PROVE SeriesFirst'
  BY <1>4 DEF BuildAuthority, HoldingInv, HoldingTypeOK, SeriesFirst, Target
<1>5. ASSUME NEW r \in Releases, BuildRelease(r) PROVE SeriesFirst'
  <2>1. CandidateWritten(r)
    BY <1>5, BuildReleaseDoes
  <2> QED BY <2>1 DEF CandidateWritten, HoldingInv, SeriesFirst, SeriesIsBuilt
<1>6. ASSUME NEW r \in Releases, CompareProtected(r) PROVE SeriesFirst'
  BY <1>6 DEF CompareProtected, HoldingInv, HoldingTypeOK, SeriesFirst, Target
<1>7. ASSUME NEW r \in Releases, Approve(r) PROVE SeriesFirst'
  BY <1>7 DEF Approve, HoldingInv, HoldingTypeOK, SeriesFirst, Target
<1>8. ASSUME NEW r \in Releases, VerifyCandidate(r) PROVE SeriesFirst'
  BY <1>8 DEF VerifyCandidate, HoldingInv, HoldingTypeOK, SeriesFirst, Target
<1>9. ASSUME NEW r \in Releases, HashProtected(r) PROVE SeriesFirst'
  BY <1>9 DEF HashProtected, HoldingInv, HoldingTypeOK, SeriesFirst, Target
<1>10. ASSUME NEW r \in Releases, BackUp(r) PROVE SeriesFirst'
  BY <1>10 DEF BackUp, HoldingInv, HoldingTypeOK, SeriesFirst, Target
<1>11. ASSUME NEW r \in Releases, WriteMaster(r) PROVE SeriesFirst'
  BY <1>11 DEF WriteMaster, HoldingInv, HoldingTypeOK, SeriesFirst, Target
<1>12. ASSUME NEW r \in Releases, WriteAuthority(r) PROVE SeriesFirst'
  BY <1>12 DEF WriteAuthority, HoldingInv, HoldingTypeOK, SeriesFirst, Target
<1>13. ASSUME NEW r \in Releases, VerifyPublished(r) PROVE SeriesFirst'
  BY <1>13 DEF VerifyPublished, HoldingInv, HoldingTypeOK, SeriesFirst, Target
<1>14. ASSUME NEW r \in Releases, PublishFails(r) PROVE SeriesFirst'
  BY <1>14 DEF PublishFails, HoldingInv, HoldingTypeOK, SeriesFirst, Target
<1>15. ASSUME NEW r \in Releases, RestoreFirst(r) PROVE SeriesFirst'
  BY <1>15 DEF RestoreFirst, HoldingInv, HoldingTypeOK, SeriesFirst, Target
<1>16. ASSUME NEW r \in Releases, RestoreSecond(r) PROVE SeriesFirst'
  BY <1>16 DEF RestoreSecond, HoldingInv, HoldingTypeOK, SeriesFirst, Target
<1>17. ASSUME NEW r \in Releases, KillPublisher(r) PROVE SeriesFirst'
  BY <1>17 DEF KillPublisher, HoldingInv, HoldingTypeOK, SeriesFirst, Target
<1>18. ASSUME UNCHANGED hvars PROVE SeriesFirst'
  BY <1>18 DEF hvars, HoldingInv, HoldingTypeOK, SeriesFirst, Target
<1> QED BY <1>1, <1>2, <1>3, <1>4, <1>5, <1>6, <1>7, <1>8, <1>9, <1>10, <1>11,
           <1>12, <1>13, <1>14, <1>15, <1>16, <1>17, <1>18 DEF HoldingNext

LEMMA SeriesIsBuiltStep == HoldingInv /\ [HoldingNext]_hvars => SeriesIsBuilt'
<1> SUFFICES ASSUME HoldingInv, [HoldingNext]_hvars PROVE SeriesIsBuilt'
  OBVIOUS
<1> USE HoldingFacts DEF files, building, owning, pubvars, Releases, PublisherGoesTo
<1>1. ASSUME AppendDaily PROVE SeriesIsBuilt'
  BY <1>1 DEF AppendDaily, HoldingInv, HoldingTypeOK, SeriesFirst, SeriesIsBuilt
<1>2. ASSUME AttestDaily PROVE SeriesIsBuilt'
  <2>1. DayAttested
    BY <1>2, AttestDailyDoes
  <2>2. CASE build["series"].at = "idle"
    BY <2>1, <2>2 DEF DayAttested, HoldingInv, SeriesIsBuilt
  <2>3. CASE build["series"].at # "idle"
    <3>1. authority.daily <= daily
      BY <2>3 DEF HoldingInv, SeriesIsBuilt, SeriesFirst
    <3>2. \A n \in Nat : n <= authority.daily => n <= authority'.daily
      BY <2>1, <3>1 DEF DayAttested
    <3>3. UNCHANGED <<build, candidate, dryRun>>
      BY <2>1 DEF DayAttested
    <3> QED BY <3>2, <3>3, NumbersRead DEF HoldingInv, SeriesIsBuilt
  <2> QED BY <2>2, <2>3
<1>3. ASSUME NEW r \in Releases, StartBuild(r) PROVE SeriesIsBuilt'
  BY <1>3 DEF StartBuild, HoldingInv, HoldingTypeOK, SeriesFirst, SeriesIsBuilt
<1>4. ASSUME NEW r \in Releases, BuildAuthority(r) PROVE SeriesIsBuilt'
  BY <1>4 DEF BuildAuthority, HoldingInv, HoldingTypeOK, SeriesFirst, SeriesIsBuilt
<1>5. ASSUME NEW r \in Releases, BuildRelease(r) PROVE SeriesIsBuilt'
  <2>1. CandidateWritten(r)
    BY <1>5, BuildReleaseDoes
  <2> QED BY <2>1 DEF CandidateWritten, HoldingInv, HoldingTypeOK, SeriesFirst,
             SeriesIsBuilt, Target, Says
<1>6. ASSUME NEW r \in Releases, CompareProtected(r) PROVE SeriesIsBuilt'
  <2>1. BuildCompared(r)
    BY <1>6, CompareProtectedDoes
  <2>2. CASE r # "series"
    BY <2>1, <2>2 DEF BuildCompared, HoldingInv, SeriesIsBuilt
  <2>3. CASE r = "series"
    <3>1. /\ build["series"].at = "compare" /\ ~ dryRun["series"]
          /\ build'["series"].at = "idle"
      BY <2>1, <2>3 DEF BuildCompared, HoldingInv, SeriesIsBuilt
    <3>2. dryRun'["series"] => build["series"].before.authority.daily = authority.daily
      BY <2>1, <2>3, <3>1 DEF BuildCompared
    <3>3. dryRun'["series"] => candidate["series"].authority.daily
                                   = candidate["series"].before.authority.daily
      BY <3>1, <3>2, NumbersRead DEF HoldingInv, SeriesIsBuilt
    <3> QED BY <2>1, <3>1, <3>3 DEF BuildCompared, HoldingInv, SeriesIsBuilt, Says
  <2> QED BY <2>2, <2>3
<1>7. ASSUME NEW r \in Releases, Approve(r) PROVE SeriesIsBuilt'
  BY <1>7 DEF Approve, HoldingInv, HoldingTypeOK, SeriesFirst, SeriesIsBuilt
<1>8. ASSUME NEW r \in Releases, VerifyCandidate(r) PROVE SeriesIsBuilt'
  BY <1>8 DEF VerifyCandidate, HoldingInv, HoldingTypeOK, SeriesFirst, SeriesIsBuilt
<1>9. ASSUME NEW r \in Releases, HashProtected(r) PROVE SeriesIsBuilt'
  BY <1>9 DEF HashProtected, HoldingInv, HoldingTypeOK, SeriesFirst, SeriesIsBuilt
<1>10. ASSUME NEW r \in Releases, BackUp(r) PROVE SeriesIsBuilt'
  BY <1>10 DEF BackUp, HoldingInv, HoldingTypeOK, SeriesFirst, SeriesIsBuilt
<1>11. ASSUME NEW r \in Releases, WriteMaster(r) PROVE SeriesIsBuilt'
  BY <1>11 DEF WriteMaster, HoldingInv, HoldingTypeOK, SeriesFirst, SeriesIsBuilt
<1>12. ASSUME NEW r \in Releases, WriteAuthority(r) PROVE SeriesIsBuilt'
  BY <1>12 DEF WriteAuthority, HoldingInv, HoldingTypeOK, SeriesFirst, SeriesIsBuilt
<1>13. ASSUME NEW r \in Releases, VerifyPublished(r) PROVE SeriesIsBuilt'
  BY <1>13 DEF VerifyPublished, HoldingInv, HoldingTypeOK, SeriesFirst,
     SeriesIsBuilt
<1>14. ASSUME NEW r \in Releases, PublishFails(r) PROVE SeriesIsBuilt'
  BY <1>14 DEF PublishFails, HoldingInv, HoldingTypeOK, SeriesFirst, SeriesIsBuilt
<1>15. ASSUME NEW r \in Releases, RestoreFirst(r) PROVE SeriesIsBuilt'
  BY <1>15 DEF RestoreFirst, HoldingInv, HoldingTypeOK, SeriesFirst, SeriesIsBuilt
<1>16. ASSUME NEW r \in Releases, RestoreSecond(r) PROVE SeriesIsBuilt'
  BY <1>16 DEF RestoreSecond, HoldingInv, HoldingTypeOK, SeriesFirst, SeriesIsBuilt
<1>17. ASSUME NEW r \in Releases, KillPublisher(r) PROVE SeriesIsBuilt'
  BY <1>17 DEF KillPublisher, HoldingInv, HoldingTypeOK, SeriesFirst, SeriesIsBuilt
<1>18. ASSUME UNCHANGED hvars PROVE SeriesIsBuilt'
  BY <1>18 DEF hvars, HoldingInv, HoldingTypeOK, SeriesFirst, SeriesIsBuilt
<1> QED BY <1>1, <1>2, <1>3, <1>4, <1>5, <1>6, <1>7, <1>8, <1>9, <1>10, <1>11,
           <1>12, <1>13, <1>14, <1>15, <1>16, <1>17, <1>18 DEF HoldingNext

LEMMA SeriesIsBackedUpStep == HoldingInv /\ [HoldingNext]_hvars => SeriesIsBackedUp'
<1> SUFFICES ASSUME HoldingInv, [HoldingNext]_hvars PROVE SeriesIsBackedUp'
  OBVIOUS
<1> USE HoldingFacts DEF files, building, owning, pubvars, Releases, PublisherGoesTo
<1>1. ASSUME AppendDaily PROVE SeriesIsBackedUp'
  BY <1>1 DEF AppendDaily, HoldingInv, HoldingTypeOK, SeriesFirst, SeriesIsBuilt,
     SeriesIsBackedUp, OnePublisher, Publishing, PastBackup
<1>2. ASSUME AttestDaily PROVE SeriesIsBackedUp'
  <2>1. DayAttested
    BY <1>2, AttestDailyDoes
  <2> QED BY <2>1 DEF DayAttested, HoldingInv, SeriesIsBackedUp
<1>3. ASSUME NEW r \in Releases, StartBuild(r) PROVE SeriesIsBackedUp'
  BY <1>3 DEF StartBuild, HoldingInv, HoldingTypeOK, SeriesFirst, SeriesIsBuilt,
     SeriesIsBackedUp, OnePublisher, Publishing, PastBackup
<1>4. ASSUME NEW r \in Releases, BuildAuthority(r) PROVE SeriesIsBackedUp'
  BY <1>4 DEF BuildAuthority, HoldingInv, HoldingTypeOK, SeriesFirst, SeriesIsBuilt,
     SeriesIsBackedUp, OnePublisher, Publishing, PastBackup
<1>5. ASSUME NEW r \in Releases, BuildRelease(r) PROVE SeriesIsBackedUp'
  BY <1>5 DEF BuildRelease, HoldingInv, HoldingTypeOK, SeriesFirst, SeriesIsBuilt,
     SeriesIsBackedUp, OnePublisher, Publishing, PastBackup
<1>6. ASSUME NEW r \in Releases, CompareProtected(r) PROVE SeriesIsBackedUp'
  BY <1>6 DEF CompareProtected, HoldingInv, HoldingTypeOK, SeriesFirst,
     SeriesIsBuilt, SeriesIsBackedUp, OnePublisher, Publishing, PastBackup
<1>7. ASSUME NEW r \in Releases, Approve(r) PROVE SeriesIsBackedUp'
  BY <1>7 DEF Approve, HoldingInv, HoldingTypeOK, SeriesFirst, SeriesIsBuilt,
     SeriesIsBackedUp, OnePublisher, Publishing, PastBackup
<1>8. ASSUME NEW r \in Releases, VerifyCandidate(r) PROVE SeriesIsBackedUp'
  <2>1. /\ pub' = [pub EXCEPT ![r] = "hash"] /\ UNCHANGED <<files, backup>>
        /\ r \in approved
        /\ \A q \in Releases : pub[q] = "idle"
    BY <1>8 DEF VerifyCandidate, Publishing
  <2>2. CASE r = "series"
    <3>1. candidate[r].before.master = 0 /\ candidate[r].before.authority.master = 0
      BY <2>1, <2>2 DEF HoldingInv, SeriesIsBuilt
    <3>2. master = 0 /\ authority.master = 0
      BY <1>8, <3>1 DEF VerifyCandidate, OnBaseline
    <3> QED BY <2>1, <2>2, <3>2 DEF HoldingInv, HoldingTypeOK, SeriesIsBackedUp,
               PastBackup
  <2>3. CASE r = "metadata"
    <3>1. candidate[r].master = 2
      BY <2>1, <2>3 DEF Target
    <3>2. master # 0
      BY <1>8, <2>3, <3>1 DEF VerifyCandidate, OnlyTheCommentDiffers
    <3> QED BY <2>1, <2>3, <3>2 DEF HoldingInv, HoldingTypeOK, SeriesIsBackedUp,
               PastBackup
  <2> QED BY <2>2, <2>3
<1>9. ASSUME NEW r \in Releases, HashProtected(r) PROVE SeriesIsBackedUp'
  BY <1>9 DEF HashProtected, HoldingInv, HoldingTypeOK, SeriesFirst, SeriesIsBuilt,
     SeriesIsBackedUp, OnePublisher, Publishing, PastBackup
<1>10. ASSUME NEW r \in Releases, BackUp(r) PROVE SeriesIsBackedUp'
  <2>1. PairBackedUp(r)
    BY <1>10, BackUpDoes
  <2> QED BY <2>1 DEF PairBackedUp, HoldingInv, HoldingTypeOK, SeriesIsBackedUp,
             OnePublisher, PastBackup
<1>11. ASSUME NEW r \in Releases, WriteMaster(r) PROVE SeriesIsBackedUp'
  BY <1>11 DEF WriteMaster, HoldingInv, HoldingTypeOK, SeriesFirst, SeriesIsBuilt,
     SeriesIsBackedUp, OnePublisher, Publishing, PastBackup
<1>12. ASSUME NEW r \in Releases, WriteAuthority(r) PROVE SeriesIsBackedUp'
  BY <1>12 DEF WriteAuthority, HoldingInv, HoldingTypeOK, SeriesFirst,
     SeriesIsBuilt, SeriesIsBackedUp, OnePublisher, Publishing, PastBackup
<1>13. ASSUME NEW r \in Releases, VerifyPublished(r) PROVE SeriesIsBackedUp'
  BY <1>13 DEF VerifyPublished, HoldingInv, HoldingTypeOK, SeriesFirst,
     SeriesIsBuilt, SeriesIsBackedUp, OnePublisher, Publishing, PastBackup
<1>14. ASSUME NEW r \in Releases, PublishFails(r) PROVE SeriesIsBackedUp'
  BY <1>14 DEF PublishFails, HoldingInv, HoldingTypeOK, SeriesFirst, SeriesIsBuilt,
     SeriesIsBackedUp, OnePublisher, Publishing, PastBackup
<1>15. ASSUME NEW r \in Releases, RestoreFirst(r) PROVE SeriesIsBackedUp'
  BY <1>15 DEF RestoreFirst, HoldingInv, HoldingTypeOK, SeriesFirst, SeriesIsBuilt,
     SeriesIsBackedUp, OnePublisher, Publishing, PastBackup
<1>16. ASSUME NEW r \in Releases, RestoreSecond(r) PROVE SeriesIsBackedUp'
  BY <1>16 DEF RestoreSecond, HoldingInv, HoldingTypeOK, SeriesFirst, SeriesIsBuilt,
     SeriesIsBackedUp, OnePublisher, Publishing, PastBackup
<1>17. ASSUME NEW r \in Releases, KillPublisher(r) PROVE SeriesIsBackedUp'
  BY <1>17 DEF KillPublisher, HoldingInv, HoldingTypeOK, SeriesFirst, SeriesIsBuilt,
     SeriesIsBackedUp, OnePublisher, Publishing, PastBackup
<1>18. ASSUME UNCHANGED hvars PROVE SeriesIsBackedUp'
  BY <1>18 DEF hvars, HoldingInv, HoldingTypeOK, SeriesFirst, SeriesIsBuilt,
     SeriesIsBackedUp, OnePublisher, Publishing, PastBackup
<1> QED BY <1>1, <1>2, <1>3, <1>4, <1>5, <1>6, <1>7, <1>8, <1>9, <1>10, <1>11,
           <1>12, <1>13, <1>14, <1>15, <1>16, <1>17, <1>18 DEF HoldingNext

LEMMA InStepStep == HoldingInv /\ [HoldingNext]_hvars => (~ disturbed => InStep)'
<1> SUFFICES ASSUME HoldingInv, [HoldingNext]_hvars PROVE (~ disturbed => InStep)'
  OBVIOUS
<1> USE HoldingFacts DEF files, building, owning, pubvars, Releases, PublisherGoesTo
<1>1. ASSUME AppendDaily PROVE (~ disturbed => InStep)'
  BY <1>1 DEF AppendDaily, HoldingInv, HoldingTypeOK, OnePublisher, InStep,
     Publishing, PastBackup, Says
<1>2. ASSUME AttestDaily PROVE (~ disturbed => InStep)'
  <2>1. DayAttested
    BY <1>2, AttestDailyDoes
  <2> QED BY <2>1 DEF DayAttested, HoldingInv, HoldingTypeOK, OnePublisher, InStep,
             Publishing, PastBackup, Says
<1>3. ASSUME NEW r \in Releases, StartBuild(r) PROVE (~ disturbed => InStep)'
  BY <1>3 DEF StartBuild, HoldingInv, HoldingTypeOK, OnePublisher, InStep,
     Publishing, PastBackup, Says
<1>4. ASSUME NEW r \in Releases, BuildAuthority(r) PROVE (~ disturbed => InStep)'
  BY <1>4 DEF BuildAuthority, HoldingInv, HoldingTypeOK, OnePublisher, InStep,
     Publishing, PastBackup, Says
<1>5. ASSUME NEW r \in Releases, BuildRelease(r) PROVE (~ disturbed => InStep)'
  BY <1>5 DEF BuildRelease, HoldingInv, HoldingTypeOK, OnePublisher, InStep,
     Publishing, PastBackup, Says
<1>6. ASSUME NEW r \in Releases, CompareProtected(r) PROVE (~ disturbed => InStep)'
  BY <1>6 DEF CompareProtected, HoldingInv, HoldingTypeOK, OnePublisher, InStep,
     Publishing, PastBackup, Says
<1>7. ASSUME NEW r \in Releases, Approve(r) PROVE (~ disturbed => InStep)'
  BY <1>7 DEF Approve, HoldingInv, HoldingTypeOK, OnePublisher, InStep, Publishing,
     PastBackup, Says
<1>8. ASSUME NEW r \in Releases, VerifyCandidate(r) PROVE (~ disturbed => InStep)'
  <2>1. /\ pub' = [pub EXCEPT ![r] = "hash"]
        /\ UNCHANGED <<files, building, backup>> /\ r \in approved
        /\ ~ disturbed' => ~ disturbed /\ ~ appended
        /\ ~ Publishing /\ candidate[r].before = Formal
    BY <1>8 DEF VerifyCandidate, OnBaseline
  <2>2. ASSUME ~ disturbed' PROVE InStep'
    <3>1. ~ appended /\ Says(authority, master, daily)
      BY <2>1, <2>2 DEF HoldingInv, InStep, Says
    <3>2. Says(candidate[r].authority, candidate[r].master, daily)
      <4>1. CASE r = "series"
        <5>1. dryRun["series"] /\ candidate["series"].master = 1
          BY <2>1, <4>1 DEF Target
        <5>2. Says(candidate["series"].authority, 1,
                   candidate["series"].before.authority.daily)
          BY <5>1 DEF HoldingInv, SeriesIsBuilt
        <5> QED BY <2>1, <3>1, <4>1, <5>1, <5>2 DEF Says
      <4>2. CASE r = "metadata"
        <5>1. candidate[r].authority = [authority EXCEPT !.master = candidate[r].master]
          BY <1>8, <4>2 DEF VerifyCandidate, OnlyTheMasterEntryDiffers
        <5> QED BY <3>1, <5>1 DEF Says, Entries
      <4> QED BY <4>1, <4>2
    <3> QED BY <2>1, <3>1, <3>2 DEF HoldingInv, HoldingTypeOK, InStep, Publishing,
               PastBackup, Says
  <2> QED BY <2>2
<1>9. ASSUME NEW r \in Releases, HashProtected(r) PROVE (~ disturbed => InStep)'
  BY <1>9 DEF HashProtected, HoldingInv, HoldingTypeOK, OnePublisher, InStep,
     Publishing, PastBackup, Says
<1>10. ASSUME NEW r \in Releases, BackUp(r) PROVE (~ disturbed => InStep)'
  <2>1. PairBackedUp(r)
    BY <1>10, BackUpDoes
  <2> QED BY ZenonT(40), <2>1 DEF PairBackedUp, HoldingInv, HoldingTypeOK, OnePublisher, InStep,
             Publishing, PastBackup, Says
<1>11. ASSUME NEW r \in Releases, WriteMaster(r) PROVE (~ disturbed => InStep)'
  BY ZenonT(40), <1>11 DEF WriteMaster, HoldingInv, HoldingTypeOK, OnePublisher, InStep,
     Publishing, PastBackup, Says
<1>12. ASSUME NEW r \in Releases, WriteAuthority(r) PROVE (~ disturbed => InStep)'
  BY ZenonT(40), <1>12 DEF WriteAuthority, HoldingInv, HoldingTypeOK, OnePublisher, InStep,
     Publishing, PastBackup, Says
<1>13. ASSUME NEW r \in Releases, VerifyPublished(r) PROVE (~ disturbed => InStep)'
  <2>1. \/ pub' = [pub EXCEPT ![r] = "idle"] /\ AsPublished(r)
        \/ pub' = [pub EXCEPT ![r] = "restore"]
    BY <1>13 DEF VerifyPublished
  <2>2. /\ pub[r] = "verify"
        /\ UNCHANGED <<files, building, owning, backup, disturbed>>
    BY <1>13 DEF VerifyPublished
  <2>3. ASSUME ~ disturbed PROVE InStep'
    <3>1. CASE pub' = [pub EXCEPT ![r] = "idle"] /\ AsPublished(r)
      <4>1. \A q \in Releases : pub'[q] = "idle"
        BY <2>2, <3>1 DEF HoldingInv, HoldingTypeOK, OnePublisher
      <4>2. ~ appended /\ Says(candidate[r].authority, candidate[r].master, daily)
        BY <2>2, <2>3 DEF HoldingInv, InStep, Publishing
      <4>3. master = candidate[r].master /\ authority = candidate[r].authority
        BY <3>1 DEF AsPublished
      <4> QED BY <2>2, <4>1, <4>2, <4>3 DEF InStep, Publishing, PastBackup, Says
    <3>2. CASE pub' = [pub EXCEPT ![r] = "restore"]
      BY <2>2, <2>3, <3>2 DEF HoldingInv, HoldingTypeOK, OnePublisher, InStep,
         Publishing, PastBackup
    <3> QED BY <2>1, <3>1, <3>2
  <2> QED BY <2>2, <2>3
<1>14. ASSUME NEW r \in Releases, PublishFails(r) PROVE (~ disturbed => InStep)'
  BY ZenonT(40), <1>14 DEF PublishFails, HoldingInv, HoldingTypeOK, OnePublisher, InStep,
     Publishing, PastBackup, Says
<1>15. ASSUME NEW r \in Releases, RestoreFirst(r) PROVE (~ disturbed => InStep)'
  <2>1. /\ pub[r] = "restore"
        /\ UNCHANGED <<daily, appended, building, owning, backup, disturbed>>
        /\ \/ /\ master' = backup[r].master
              /\ pub' = [pub EXCEPT ![r] = "restore authority"]
           \/ /\ authority' = backup[r].authority
              /\ pub' = [pub EXCEPT ![r] = "restore master"]
    BY <1>15 DEF RestoreFirst
  <2>2. ASSUME ~ disturbed PROVE InStep'
    <3>1. \A q \in Releases : q # r => pub[q] = "idle"
      BY <2>1 DEF HoldingInv, OnePublisher
    <3>2. /\ ~ appended /\ Says(backup[r].authority, backup[r].master, daily)
          /\ Says(candidate[r].authority, candidate[r].master, daily)
      BY <2>1, <2>2 DEF HoldingInv, InStep, Publishing, PastBackup
    <3>3. CASE /\ master' = backup[r].master
               /\ pub' = [pub EXCEPT ![r] = "restore authority"]
      <4>1. /\ pub'[r] = "restore authority"
            /\ \A q \in Releases : q # r => pub'[q] = "idle"
        BY <3>1, <3>3 DEF HoldingInv, HoldingTypeOK
      <4> QED BY <2>1, <3>2, <3>3, <4>1 DEF InStep, Publishing, PastBackup
    <3>4. CASE /\ authority' = backup[r].authority
               /\ pub' = [pub EXCEPT ![r] = "restore master"]
      <4>1. /\ pub'[r] = "restore master"
            /\ \A q \in Releases : q # r => pub'[q] = "idle"
        BY <3>1, <3>4 DEF HoldingInv, HoldingTypeOK
      <4> QED BY <2>1, <3>2, <3>4, <4>1 DEF InStep, Publishing, PastBackup
    <3> QED BY <2>1, <3>3, <3>4
  <2> QED BY <2>1, <2>2
<1>16. ASSUME NEW r \in Releases, RestoreSecond(r) PROVE (~ disturbed => InStep)'
  <2>1. /\ pub[r] \in {"restore authority", "restore master"}
        /\ UNCHANGED <<daily, appended, building, owning, backup, disturbed>>
        /\ pub' = [pub EXCEPT ![r] = "idle"]
        /\ pub[r] = "restore master" =>
              master' = backup[r].master /\ authority' = authority
        /\ pub[r] # "restore master" =>
              authority' = backup[r].authority /\ master' = master
    BY <1>16 DEF RestoreSecond
  <2>2. ASSUME ~ disturbed PROVE InStep'
    <3>1. \A q \in Releases : pub'[q] = "idle"
      BY <2>1 DEF HoldingInv, HoldingTypeOK, OnePublisher
    <3>2. /\ ~ appended /\ Says(backup[r].authority, backup[r].master, daily)
          /\ pub[r] = "restore authority" => master = backup[r].master
          /\ pub[r] = "restore master" => authority = backup[r].authority
      BY <2>1, <2>2 DEF HoldingInv, InStep, Publishing, PastBackup
    <3>3. master' = backup[r].master /\ authority' = backup[r].authority
      BY <2>1, <3>2
    <3> QED BY <2>1, <3>1, <3>2, <3>3 DEF InStep, Publishing, PastBackup, Says
  <2> QED BY <2>1, <2>2
<1>17. ASSUME NEW r \in Releases, KillPublisher(r) PROVE (~ disturbed => InStep)'
  BY <1>17 DEF KillPublisher, HoldingInv, HoldingTypeOK, OnePublisher, InStep,
     Publishing, PastBackup, Says
<1>18. ASSUME UNCHANGED hvars PROVE (~ disturbed => InStep)'
  BY <1>18 DEF hvars, HoldingInv, HoldingTypeOK, OnePublisher, InStep, Publishing,
     PastBackup, Says
<1> QED BY <1>1, <1>2, <1>3, <1>4, <1>5, <1>6, <1>7, <1>8, <1>9, <1>10, <1>11,
           <1>12, <1>13, <1>14, <1>15, <1>16, <1>17, <1>18 DEF HoldingNext

LEMMA HoldingBegins == HoldingInit => HoldingInv
<1> SUFFICES ASSUME HoldingInit PROVE HoldingInv
  OBVIOUS
<1>1. authority \in Entries /\ authority.master = 0 /\ authority.daily = 1
  BY DEF HoldingInit, Entries
<1>2. [at |-> "idle", before |-> Nothing, authority |-> Nothing] \in Builds
  BY DEF Builds
<1>3. HoldingTypeOK
  BY <1>1, <1>2 DEF HoldingInit, HoldingTypeOK, Points
<1>4. \A r \in Releases : /\ build[r].at = "idle" /\ ~ dryRun[r] /\ r \notin approved
                           /\ pub[r] = "idle" /\ backup[r] = Nothing
  BY DEF HoldingInit
<1> QED BY <1>1, <1>3, <1>4 DEF HoldingInit, HoldingInv, ReadsAreThere,
           OnePublisher, SeriesFirst,
               SeriesIsBuilt, SeriesIsBackedUp, InStep, Publishing, PastBackup, Releases

LEMMA HoldingStep == HoldingInv /\ [HoldingNext]_hvars => HoldingInv'
BY HoldingTypeStep, ReadsStep, OnePublisherStep, SeriesFirstStep, SeriesIsBuiltStep,
   SeriesIsBackedUpStep, InStepStep DEF HoldingInv

(* Whichever publisher was killed wherever: if master and manifest are apart, *)
(* a backup holds a pair that belongs together.                               *)
THEOREM TornPairsAreBackedUp == HoldingSpec => []TornPairHasBackup
<1>1. HoldingInit => HoldingInv
  BY HoldingBegins
<1>2. HoldingInv /\ [HoldingNext]_hvars => HoldingInv'
  BY HoldingStep
<1>3. HoldingInv => TornPairHasBackup
  <2> SUFFICES ASSUME HoldingInv, authority.master # master
               PROVE  /\ backup["series"] # Nothing
                      /\ backup["series"].authority.master = backup["series"].master
    BY DEF TornPairHasBackup, Releases
  <2> QED BY DEF HoldingInv, SeriesIsBackedUp
<1> QED BY <1>1, <1>2, <1>3, PTL DEF HoldingSpec

(* As long as no publisher is overlapped or killed, the manifest states the   *)
(* formal files whenever no publish is under way.                             *)
THEOREM AuthorityIsInStep == HoldingSpec => []AuthorityStatesTheFiles
<1>1. HoldingInit => HoldingInv
  BY HoldingBegins
<1>2. HoldingInv /\ [HoldingNext]_hvars => HoldingInv'
  BY HoldingStep
<1>3. HoldingInv => AuthorityStatesTheFiles
  <2> SUFFICES ASSUME HoldingInv, ~ disturbed, ~ appended, ~ Publishing
               PROVE  authority = [master |-> master, daily |-> daily]
    BY DEF AuthorityStatesTheFiles
  <2>1. /\ authority \in Entries /\ authority.master = master
        /\ authority.daily = daily
    BY DEF HoldingInv, HoldingTypeOK, InStep
  <2> QED BY <2>1 DEF Entries
<1> QED BY <1>1, <1>2, <1>3, PTL DEF HoldingSpec

-----------------------------------------------------------------------------
(* ReleasePipeline: what is pointed at, and what a PASS means                 *)

Edited == [sha |-> 1, files |-> 2]
Reissued == [sha |-> 2, files |-> 2]
Directories == {None, Built, Edited, Reissued}

BeforeTheCalls == {"start", "scenarios", "build", "register"}
InACall == {"copy", "verify copy", "pointer", "activate", "attempt"}

RoleAsked == <<"nonpublisher", "PUBLISHER_ROLE_REQUIRED">>
OwnerAsked == <<"unapproved", "OWNER_APPROVAL_REQUIRED">>
EditSeen == <<"unapproved", "CANDIDATE_HASH_MISMATCH">>
CopySeen == <<"tampered", "CANDIDATE_HASH_MISMATCH">>
Passed == <<"active", "PASS">>

PipelineTypeOK ==
    /\ stage \in BeforeTheCalls \cup {"publish", "compare", "done", "failed"}
    /\ call \in 1..4 /\ callStep \in {"verify"} \cup InACall
    /\ rebuild \in Directories
    /\ batch = [status |-> batch.status, sha |-> batch.sha]
    /\ temp \in [Roots -> Directories]
    /\ released \in [Roots -> Directories]
    /\ pointer \in [Roots -> {None, 1}]

(* Wherever the suite stops, a pointer is the fourth call's, with its release. *)
PointersAreGood ==
    /\ \A r \in Roots : pointer[r] # None =>
          r = "active" /\ 1 \in approvals /\ released[r] # None
    /\ \A r \in Roots : released[r] # None => Verifies(released[r])

NotYetApproved ==
    approvals = {} /\ batch.status = "READY_FOR_REVIEW" /\ batch.sha = 1
Approved == approvals = {1} /\ batch.status = "APPROVED" /\ batch.sha = 1

(* What the second call can have recorded, and what the third adds. *)
SecondAnswer(later) ==
    \/ attempts = {RoleAsked, OwnerAsked} \cup later
    \/ attempts = {RoleAsked, EditSeen} \cup later

(* What each call finds.  An edit that the second call recorded as a mismatch *)
(* has been put back when the fourth goes on.                                 *)
CallsGoInOrder ==
    stage = "publish" =>
        /\ rebuild # None
        /\ callStep = "verify" /\ call = 1 => NotYetApproved /\ attempts = {}
        /\ callStep = "verify" /\ call = 2 => NotYetApproved /\ attempts = {RoleAsked}
        /\ callStep = "verify" /\ call = 3 =>
              Approved /\ SecondAnswer({}) /\ ~ Verifies(tampered)
        /\ callStep = "verify" /\ call = 4 => Approved /\ SecondAnswer({CopySeen})
        /\ callStep \in InACall =>
              /\ call = 4 /\ manifest = Built /\ approvals = {1} /\ batch.sha = 1
              /\ SecondAnswer({CopySeen})
        /\ callStep = "verify copy" => temp["active"] # None
        /\ callStep \in {"pointer", "activate", "attempt"} => released["active"] # None
        /\ callStep \in {"activate", "attempt"} => pointer["active"] = 1
        /\ callStep = "attempt" => batch.status = "ACTIVE"

StagesGoInOrder ==
    /\ stage \in BeforeTheCalls =>
          call = 1 /\ callStep = "verify" /\ attempts = {} /\ approvals = {}
    /\ stage = "register" => rebuild # None
    /\ stage \in {"compare", "done"} =>
          /\ SecondAnswer({CopySeen, Passed})
          /\ batch.status = "ACTIVE" /\ batch.sha = 1 /\ pointer["active"] = 1
    /\ summary = "PASS" => stage = "done"

PipelineInv ==
    PipelineTypeOK /\ PointersAreGood /\ CallsGoInOrder /\ StagesGoInOrder

LEMMA DirectoryFacts ==
    /\ Verifies(Built) /\ ~ Verifies(Edited) /\ Verifies(Reissued)
    /\ Built.sha = 1 /\ Edited.sha = 1 /\ Reissued.sha = 2
    /\ Built # Edited /\ Built # Reissued /\ Edited # Reissued
    /\ None # Built /\ None # Edited /\ None # Reissued
<1>1. Built \in [sha : Nat, files : Nat] /\ Edited \in [sha : Nat, files : Nat]
      /\ Reissued \in [sha : Nat, files : Nat]
  BY DEF Built, Edited, Reissued
<1>2. None # Built /\ None # Edited /\ None # Reissued
  BY <1>1, NoneIsNothing
<1> QED BY <1>2 DEF Verifies, Built, Edited, Reissued

LEMMA RootFacts ==
    /\ Roots = {"nonpublisher", "unapproved", "tampered", "active"}
    /\ call = 1 => /\ Root = "nonpublisher" /\ ~ Publisher
                   /\ Expected = "AuthorizationError" /\ Source = rebuild
    /\ call = 2 => /\ Root = "unapproved" /\ Publisher
                   /\ Expected = "ApprovalError" /\ Source = rebuild
    /\ call = 3 => /\ Root = "tampered" /\ Publisher
                   /\ Expected = "ApprovalError" /\ Source = tampered
    /\ call = 4 => /\ Root = "active" /\ Publisher
                   /\ Expected = "none" /\ Source = rebuild
<1>1. Roots = {"nonpublisher", "unapproved", "tampered", "active"}
  <2>1. DOMAIN Calls = {1, 2, 3, 4}
    BY DEF Calls
  <2>2. /\ Calls[1] = "nonpublisher" /\ Calls[2] = "unapproved"
        /\ Calls[3] = "tampered" /\ Calls[4] = "active"
    BY DEF Calls
  <2> QED BY <2>1, <2>2 DEF Roots
<1>2. ASSUME call = 1
      PROVE  /\ Root = "nonpublisher" /\ ~ Publisher
             /\ Expected = "AuthorizationError" /\ Source = rebuild
  <2>1. Root = "nonpublisher"
    BY <1>2 DEF Root, Calls
  <2> QED BY <2>1 DEF Publisher, Expected, Source
<1>3. ASSUME call = 2
      PROVE  /\ Root = "unapproved" /\ Publisher /\ Expected = "ApprovalError"
             /\ Source = rebuild
  <2>1. Root = "unapproved"
    BY <1>3 DEF Root, Calls
  <2> QED BY <2>1 DEF Publisher, Expected, Source
<1>4. ASSUME call = 3
      PROVE  /\ Root = "tampered" /\ Publisher /\ Expected = "ApprovalError"
             /\ Source = tampered
  <2>1. Root = "tampered"
    BY <1>4 DEF Root, Calls
  <2> QED BY <2>1 DEF Publisher, Expected, Source
<1>5. ASSUME call = 4
      PROVE  Root = "active" /\ Publisher /\ Expected = "none" /\ Source = rebuild
  <2>1. Root = "active"
    BY <1>5 DEF Root, Calls
  <2> QED BY <2>1 DEF Publisher, Expected, Source
<1> QED BY <1>1, <1>2, <1>3, <1>4, <1>5

LEMMA PipelineBegins == PipelineInit => PipelineInv
BY RootFacts, NoneIsNothing
   DEF PipelineInit, PipelineInv, PipelineTypeOK, PointersAreGood, CallsGoInOrder,
       StagesGoInOrder,
       BeforeTheCalls, Directories

(* What a verification comes to, for each of the calls.                       *)
CallFails == stage' = "failed" /\ UNCHANGED <<call, callStep, approvals, batch>>

FirstRefuses ==
    /\ call = 1 /\ call' = 2 /\ UNCHANGED <<stage, callStep, approvals, batch>>
    /\ attempts' = attempts \cup {RoleAsked}

SecondRefuses ==
    /\ call = 2 /\ call' = 3 /\ UNCHANGED <<stage, callStep>>
    /\ approvals' = approvals \cup {1} /\ batch' = [batch EXCEPT !.status = "APPROVED"]
    /\ tampered' = [rebuild EXCEPT !.files = 0]
    /\ \/ attempts' = attempts \cup {OwnerAsked}
       \/ attempts' = attempts \cup {EditSeen}

ThirdRefuses ==
    /\ call = 3 /\ call' = 4 /\ UNCHANGED <<stage, callStep, approvals, batch>>
    /\ attempts' = attempts \cup {CopySeen}

FourthGoesOn ==
    /\ call = 4 /\ callStep' = "copy" /\ rebuild = Built /\ manifest' = Built
    /\ UNCHANGED <<stage, call, attempts, batch, approvals>>

LEMMA VerifyingDoes ==
    ASSUME PipelineInv, VerifyAndAuthorize
    PROVE  /\ stage = "publish" /\ callStep = "verify"
           /\ UNCHANGED <<rebuild, temp, released, pointer, summary>>
           /\ CallFails \/ FirstRefuses \/ SecondRefuses \/ ThirdRefuses \/ FourthGoesOn
<1> USE DEF CallFails, FirstRefuses, SecondRefuses, ThirdRefuses, FourthGoesOn
<1>1. /\ stage = "publish" /\ callStep = "verify"
      /\ UNCHANGED <<rebuild, temp, released, pointer, summary>>
  BY DEF VerifyAndAuthorize, At
<1>2. /\ call \in 1..4 /\ rebuild \in {Built, Edited, Reissued}
  BY <1>1 DEF PipelineInv, PipelineTypeOK, CallsGoInOrder, Directories
<1>3. Built.sha = 1
  BY DirectoryFacts
<1>4. CASE call = 1
  <2>1. /\ Root = "nonpublisher" /\ ~ Publisher
        /\ Expected = "AuthorizationError" /\ Source = rebuild
    BY <1>4, RootFacts
  <2>2. CASE Verifies(rebuild)
    <3>1. /\ Refusals(rebuild)[1] = "PUBLISHER_ROLE_REQUIRED"
          /\ Refusals(rebuild)[2] = "AuthorizationError"
      BY <2>1 DEF Refusals
    <3>2. Attempt("PUBLISHER_ROLE_REQUIRED") /\ Returns("AuthorizationError")
      BY <2>1, <2>2, <3>1, NoneIsNothing DEF VerifyAndAuthorize
    <3> QED BY <1>1, <1>4, <2>1, <3>2 DEF Attempt, Returns, RoleAsked
  <2>3. CASE ~ Verifies(rebuild)
    <3>1. Returns("ApprovalError")
      BY <2>1, <2>3 DEF VerifyAndAuthorize
    <3> QED BY <1>1, <2>1, <3>1 DEF Returns
  <2> QED BY <2>2, <2>3
<1>5. CASE call = 2
  <2>1. /\ Root = "unapproved" /\ Publisher /\ Expected = "ApprovalError"
        /\ Source = rebuild
    BY <1>5, RootFacts
  <2>2. CASE Verifies(rebuild)
    <3>1. batch.status # "APPROVED"
      BY <1>1, <1>5 DEF PipelineInv, CallsGoInOrder, NotYetApproved
    <3>2. /\ Refusals(rebuild)[1] = "OWNER_APPROVAL_REQUIRED"
          /\ Refusals(rebuild)[2] = "ApprovalError"
      BY <2>1, <3>1 DEF Refusals
    <3>3. Attempt("OWNER_APPROVAL_REQUIRED") /\ Returns("ApprovalError")
      BY <2>1, <2>2, <3>2, NoneIsNothing DEF VerifyAndAuthorize
    <3> QED BY <1>1, <1>3, <1>5, <2>1, <3>3 DEF Attempt, Returns, OwnerAsked
  <2>3. CASE ~ Verifies(rebuild)
    <3>1. Attempt("CANDIDATE_HASH_MISMATCH") /\ Returns("ApprovalError")
      BY <2>1, <2>3 DEF VerifyAndAuthorize
    <3> QED BY <1>1, <1>3, <1>5, <2>1, <3>1 DEF Attempt, Returns, EditSeen
  <2> QED BY <2>2, <2>3
<1>6. CASE call = 3
  <2>1. /\ Root = "tampered" /\ Publisher /\ Expected = "ApprovalError"
        /\ Source = tampered
    BY <1>6, RootFacts
  <2>2. ~ Verifies(tampered)
    BY <1>1, <1>6 DEF PipelineInv, CallsGoInOrder
  <2>3. Attempt("CANDIDATE_HASH_MISMATCH") /\ Returns("ApprovalError")
    BY <2>1, <2>2 DEF VerifyAndAuthorize
  <2> QED BY <1>1, <1>6, <2>1, <2>3 DEF Attempt, Returns, CopySeen
<1>7. CASE call = 4
  <2>1. Root = "active" /\ Publisher /\ Expected = "none" /\ Source = rebuild
    BY <1>7, RootFacts
  <2>2. Approved
    BY <1>1, <1>7 DEF PipelineInv, CallsGoInOrder
  <2>3. CASE rebuild = Built
    <3>1. Verifies(rebuild) /\ rebuild.sha = 1
      BY <2>3, DirectoryFacts
    <3>2. Refusals(rebuild)[1] = None
      BY <2>1, <2>2, <3>1 DEF Refusals, Approved
    <3>3. /\ manifest' = rebuild /\ CallGoesTo("copy")
          /\ UNCHANGED <<attempts, batch, approvals, tampered>>
      BY <2>1, <3>1, <3>2 DEF VerifyAndAuthorize
    <3> QED BY <1>1, <1>7, <2>3, <3>3 DEF CallGoesTo
  <2>4. CASE rebuild = Edited
    <3>1. Returns("ApprovalError")
      BY <2>1, <2>4, DirectoryFacts DEF VerifyAndAuthorize
    <3> QED BY <1>1, <2>1, <3>1 DEF Returns
  <2>5. CASE rebuild = Reissued
    <3>1. Verifies(rebuild) /\ rebuild.sha = 2
      BY <2>5, DirectoryFacts
    <3>2. /\ Refusals(rebuild)[1] = "MANIFEST_APPROVAL_MISMATCH"
          /\ Refusals(rebuild)[2] = "ApprovalError"
      BY <2>1, <2>2, <3>1 DEF Refusals, Approved
    <3>3. Returns("ApprovalError")
      BY <2>1, <3>1, <3>2, NoneIsNothing DEF VerifyAndAuthorize
    <3> QED BY <1>1, <2>1, <3>3 DEF Returns
  <2> QED BY <1>2, <2>3, <2>4, <2>5
<1> QED BY <1>1, <1>2, <1>4, <1>5, <1>6, <1>7

LEMMA PipelineStep == PipelineInv /\ [PipelineNext]_rvars => PipelineInv'
<1> SUFFICES ASSUME PipelineInv, [PipelineNext]_rvars PROVE PipelineInv'
  OBVIOUS
<1> USE RootFacts, DirectoryFacts DEF PipelineInv
<1>1. CASE StartSuite
  BY <1>1 DEF StartSuite, PipelineTypeOK, PointersAreGood, CallsGoInOrder,
     StagesGoInOrder, BeforeTheCalls
<1>2. CASE EvaluateScenarios
  BY <1>2 DEF EvaluateScenarios, Unchanged, PipelineTypeOK, PointersAreGood,
     CallsGoInOrder, StagesGoInOrder,
              BeforeTheCalls
<1>3. CASE BuildCandidate
  BY <1>3 DEF BuildCandidate, PipelineTypeOK, PointersAreGood, CallsGoInOrder,
     StagesGoInOrder, BeforeTheCalls,
              Directories
<1>4. CASE RegisterRelease
  BY <1>4 DEF RegisterRelease, PipelineTypeOK, PointersAreGood, CallsGoInOrder,
     StagesGoInOrder, BeforeTheCalls,
              NotYetApproved, InACall
<1>5. CASE VerifyAndAuthorize
  <2> USE DEF PipelineTypeOK, PointersAreGood, CallsGoInOrder, StagesGoInOrder,
              BeforeTheCalls,
              NotYetApproved, Approved, InACall
  <2>1. /\ stage = "publish" /\ callStep = "verify"
        /\ UNCHANGED <<rebuild, temp, released, pointer, summary>>
        /\ CallFails \/ FirstRefuses \/ SecondRefuses \/ ThirdRefuses \/ FourthGoesOn
    BY <1>5, VerifyingDoes DEF PipelineInv
  <2>2. CASE CallFails
    BY <2>1, <2>2 DEF CallFails
  <2>3. CASE FirstRefuses
    BY <2>1, <2>3 DEF FirstRefuses
  <2>4. CASE SecondRefuses
    <3>1. /\ rebuild \in {Built, Edited, Reissued} /\ NotYetApproved
          /\ attempts = {RoleAsked}
      BY <2>1, <2>4 DEF SecondRefuses, Directories
    <3>2. ~ Verifies(tampered')
      BY ZenonT(40), <2>4, <3>1 DEF SecondRefuses, Verifies, Built, Edited, Reissued
    <3>3. approvals' = {1} /\ SecondAnswer({})'
      BY <2>1, <2>4, <3>1 DEF SecondRefuses, SecondAnswer
    <3>4. batch'.status = "APPROVED" /\ batch'.sha = 1
      BY <2>4, <3>1 DEF SecondRefuses
    <3> QED BY <2>1, <2>4, <3>1, <3>2, <3>3, <3>4 DEF SecondRefuses
  <2>5. CASE ThirdRefuses
    <3>1. SecondAnswer({})
      BY <2>1, <2>5 DEF ThirdRefuses
    <3>2. SecondAnswer({CopySeen})'
      BY <2>1, <2>5, <3>1 DEF ThirdRefuses, SecondAnswer
    <3> QED BY <2>1, <2>5, <3>2 DEF ThirdRefuses
  <2>6. CASE FourthGoesOn
    <3>1. SecondAnswer({CopySeen}) /\ Approved
      BY <2>1, <2>6 DEF FourthGoesOn
    <3>2. SecondAnswer({CopySeen})'
      BY <2>6, <3>1 DEF FourthGoesOn, SecondAnswer
    <3> QED BY <2>1, <2>6, <3>1, <3>2 DEF FourthGoesOn
  <2> QED BY <2>1, <2>2, <2>3, <2>4, <2>5, <2>6
<1>6. CASE CopyTree
  BY <1>6 DEF CopyTree, At, CallGoesTo, PipelineTypeOK, PointersAreGood,
     CallsGoInOrder, StagesGoInOrder, SecondAnswer,
              BeforeTheCalls, InACall
<1>7. CASE VerifyCopy
  <2> USE DEF PipelineTypeOK, PointersAreGood, CallsGoInOrder, StagesGoInOrder,
              SecondAnswer, BeforeTheCalls, InACall
  <2>1. /\ stage = "publish" /\ callStep = "verify copy" /\ call = 4
        /\ Root = "active"
        /\ temp["active"] \in {Built, Edited, Reissued}
        /\ UNCHANGED <<rebuild, manifest, attempts, pointer, summary>>
    BY <1>7 DEF VerifyCopy, At, Directories
  <2>2. CASE Verifies(temp["active"])
    BY ZenonT(40), <1>7, <2>1, <2>2 DEF VerifyCopy, CallGoesTo, Directories
  <2>3. CASE ~ Verifies(temp["active"])
    <3>1. Returns("ApprovalError") /\ UNCHANGED <<released, temp>>
      BY <1>7, <2>1, <2>3 DEF VerifyCopy
    <3>2. stage' = "failed" /\ UNCHANGED <<call, callStep, approvals, batch>>
      BY <2>1, <3>1 DEF Returns
    <3> QED BY <2>1, <3>1, <3>2
  <2> QED BY <2>2, <2>3
<1>8. CASE ReplacePointer
  BY <1>8 DEF ReplacePointer, At, CallGoesTo, PipelineTypeOK, PointersAreGood,
     CallsGoInOrder, SecondAnswer,
              StagesGoInOrder, BeforeTheCalls, InACall
<1>9. CASE Activate
  BY <1>9 DEF Activate, At, CallGoesTo, PipelineTypeOK, PointersAreGood,
     CallsGoInOrder, SecondAnswer,
              StagesGoInOrder, BeforeTheCalls, InACall
<1>10. CASE RecordPass
  BY <1>10 DEF RecordPass, At, Attempt, Returns, Passed, PipelineTypeOK,
     PointersAreGood, CallsGoInOrder, SecondAnswer,
               StagesGoInOrder, BeforeTheCalls, InACall
<1>11. CASE Summarise
  BY <1>11 DEF Summarise, SecondAnswer, PipelineTypeOK, PointersAreGood, CallsGoInOrder,
     StagesGoInOrder, BeforeTheCalls
<1>12. CASE KillSuite
  BY <1>12 DEF KillSuite, SecondAnswer, Running, Unchanged, PipelineTypeOK, PointersAreGood,
     CallsGoInOrder, StagesGoInOrder,
               BeforeTheCalls
<1>13. CASE EditCandidate
  <2>1. [Built EXCEPT !.files = 2] = Edited
    BY DEF Built, Edited
  <2>2. rebuild # None /\ rebuild' \in {Built, Edited, Reissued}
    BY <1>13, <2>1 DEF EditCandidate, Reissued
  <2> QED BY <1>13, <2>2 DEF EditCandidate, PipelineTypeOK, PointersAreGood,
             CallsGoInOrder, StagesGoInOrder,
               NotYetApproved, Approved, SecondAnswer, Directories
<1>14. CASE FormalPublish
  BY <1>14 DEF FormalPublish, PipelineTypeOK, PointersAreGood, CallsGoInOrder,
     StagesGoInOrder,
               NotYetApproved, Approved, SecondAnswer
<1>15. CASE UNCHANGED rvars
  BY <1>15 DEF rvars, PipelineTypeOK, PointersAreGood, CallsGoInOrder,
     StagesGoInOrder,
               NotYetApproved, Approved, SecondAnswer
<1> QED BY <1>1, <1>2, <1>3, <1>4, <1>5, <1>6, <1>7, <1>8, <1>9, <1>10, <1>11,
           <1>12, <1>13,
           <1>14, <1>15 DEF PipelineNext

(* Wherever the candidate is edited or the process killed: only the fourth    *)
(* call has a pointer, to an approved hash beside a whole release.            *)
THEOREM PointersAreApproved == ReleaseSpec => []OnlyApprovedIsPointedAt
<1>1. PipelineInit => PipelineInv
  BY PipelineBegins
<1>2. PipelineInv /\ [PipelineNext]_rvars => PipelineInv'
  BY PipelineStep
<1>3. PipelineInv => OnlyApprovedIsPointedAt
  BY DEF PipelineInv, PipelineTypeOK, PointersAreGood, OnlyApprovedIsPointedAt
<1> QED BY <1>1, <1>2, <1>3, PTL DEF ReleaseSpec

(* PASS means three refused calls and an active release, wherever the         *)
(* candidate is edited, reissued or put back: no role, tampered copy, and in  *)
(* between no approval or - all an edit can stand in for - a spoilt candidate.*)
THEOREM PassesMeanRefusals == ReleaseSpec => []PassMeansThreeRefusals
<1>1. PipelineInit => PipelineInv
  BY PipelineBegins
<1>2. PipelineInv /\ [PipelineNext]_rvars => PipelineInv'
  BY PipelineStep
<1>3. PipelineInv => PassMeansThreeRefusals
  <2> SUFFICES ASSUME PipelineInv, summary = "PASS" PROVE PassMeansThreeRefusals
    BY DEF PassMeansThreeRefusals
  <2>1. /\ SecondAnswer({CopySeen, Passed})
        /\ batch.status = "ACTIVE" /\ batch.sha = 1 /\ pointer["active"] = 1
    BY DEF PipelineInv, StagesGoInOrder
  <2>2. CASE attempts = {RoleAsked, OwnerAsked} \cup {CopySeen, Passed}
    BY <2>1, <2>2 DEF PassMeansThreeRefusals, RoleAsked, OwnerAsked, CopySeen, Passed
  <2>3. CASE attempts = {RoleAsked, EditSeen} \cup {CopySeen, Passed}
    BY <2>1, <2>3 DEF PassMeansThreeRefusals, RoleAsked, EditSeen, CopySeen, Passed
  <2> QED BY <2>1, <2>2, <2>3 DEF SecondAnswer
<1> QED BY <1>1, <1>2, <1>3, PTL DEF ReleaseSpec

-----------------------------------------------------------------------------
(* NewsScan: sources are left alone, and one medium is not enough             *)

Memories == [read : Nat, until : Nat]

Underway == [pc : {"turn", "asking", "writing"}, source : Sources \cup {"none"},
             now : Nat, held : Memories, online : BOOLEAN, url : Nat,
             read : BOOLEAN, learned : SUBSET Sources, missed : SUBSET Sources]
AfterScan == {Idle, [pc |-> "found"]}
               \cup [pc : {"holding"}, told : Tellings]

NewsTypeOK ==
    /\ time \in Nat /\ time > 0
    /\ memory \in Memories \cup {Torn}
    /\ scan \in [Scanners -> Underway \cup AfterScan]
    /\ due \in [Sources -> Nat]
    /\ forgotten \subseteq Sources

(* An entry of the state file knows of a source's rest until d.               *)
Knows(entry, source, d) ==
    IF source = "weekly" THEN d = 0 \/ (entry.read > 0 /\ d <= entry.read + Week)
    ELSE d <= entry.until

(* The file knows of every rest that any scan saved, or it was overwritten.   *)
FileKnows ==
    memory # Torn => \A source \in Sources :
        source \in forgotten \/ Knows(memory, source, due[source])

(* So does what a scan holds, but for what was saved after it began; what it  *)
(* learned itself counts from its own clock.                                  *)
ScanKnows(me) ==
    /\ me.now > 0
    /\ \A source \in Sources :
          \/ source \in forgotten \cup me.missed
          \/ Knows(me.held, source, due[source])
    /\ \A source \in me.learned : Knows(me.held, source, me.now + Span(source))

Scanning(me) == me.pc \in {"turn", "asking", "writing"}

(* The source being asked need not be left alone by what the scan holds.      *)
AsksTheRested(me) ==
    me.pc = "asking" => /\ me.source \in Sources
                        /\ ~ LeaveAlone(me.source, me.now, me.held)

(* What the rows of an event to be reviewed have to tell.                     *)
Grounded(told) ==
    LET tiers == {row.tier : row \in told}
    IN  /\ tiers # {"UNVERIFIED"}
        /\ \E row \in told : row.dated \/ row.article
        /\ \/ "OFFICIAL" \in tiers \/ \E row \in told : row.vouched
           \/ \E a, b \in told : a # b /\ (a.source # b.source \/ a.source = Unnamed)

ScanInOrder(me) ==
    /\ Scanning(me) => ScanKnows(me)
    /\ AsksTheRested(me)
    /\ me.pc = "holding" => Grounded(me.told)

ScansInOrder == \A s \in Scanners : ScanInOrder(scan[s])

NewsInv == NewsTypeOK /\ FileKnows /\ ScansInOrder

(* What a scan under way is made of.                                          *)
LEMMA UnderwayFields ==
  ASSUME NewsTypeOK, NEW s \in Scanners, Scanning(scan[s])
  PROVE  scan[s] \in Underway
BY DEF NewsTypeOK, Underway, AfterScan, Scanning, Idle

(* Two different names are those of two rows, and so are two rows that name   *)
(* nobody.                                                                    *)
LEMMA TwoOfASet ==
  ASSUME NEW S, ~ \E a, b \in S : a # b
  PROVE  Cardinality(S) \in {0, 1}
<1>1. CASE S = {}
  BY <1>1, FS_EmptySet
<1>2. CASE S # {}
  <2>1. PICK a \in S : TRUE
    BY <1>2
  <2>2. S = {a}
    BY <2>1
  <2> QED
    BY <2>2, FS_Singleton
<1> QED
  BY <1>1, <1>2

(* What is counted twice was told by two sources, or by two that are unnamed. *)
LEMMA CountsSources ==
  ASSUME NEW told, CorroborationCount(told) >= 2
  PROVE  \E a, b \in told : a # b /\ (a.source # b.source \/ a.source = Unnamed)
<1>1. CASE Named(told) # {}
  <2>1. PICK m, n \in Named(told) : m # n
    <3>1. Cardinality(Named(told)) >= 2
      BY <1>1 DEF CorroborationCount
    <3> QED
      BY <3>1, TwoOfASet
  <2>2. PICK a \in told : a.source = m
    BY <2>1 DEF Named
  <2>3. PICK b \in told : b.source = n
    BY <2>1 DEF Named
  <2> QED
    BY <2>1, <2>2, <2>3
<1>2. CASE Named(told) = {}
  <2>1. Cardinality(told) >= 2
    BY <1>2 DEF CorroborationCount
  <2>2. PICK a, b \in told : a # b
    BY <2>1, TwoOfASet
  <2>3. a.source = Unnamed
    BY <1>2 DEF Named
  <2> QED
    BY <2>2, <2>3
<1> QED
  BY <1>1, <1>2

(* An event is to be reviewed only on good grounds.                           *)
LEMMA ReviewIsGrounded ==
  ASSUME NEW told, NEW primary \in told, ReviewRequired(primary, told)
  PROVE  Grounded(told)
<1>1. {row.tier : row \in told} # {"UNVERIFIED"}
  <2>1. primary.tier # "UNVERIFIED"
    BY DEF ReviewRequired
  <2> QED
    BY <2>1
<1>2. \E row \in told : row.dated \/ row.article
  <2>1. primary.dated \/ ArticleEvidence(primary)
    BY DEF ReviewRequired
  <2> QED
    BY <2>1 DEF ArticleEvidence
<1>3. OfficiallyConfirmed(told) \/ CorroborationCount(told) >= 2
  BY DEF ReviewRequired, RawReview
<1>4. \/ "OFFICIAL" \in {row.tier : row \in told} \/ \E row \in told : row.vouched
      \/ \E a, b \in told : a # b /\ (a.source # b.source \/ a.source = Unnamed)
  BY <1>3, CountsSources DEF OfficiallyConfirmed
<1> QED
  BY <1>1, <1>2, <1>4 DEF Grounded

-----------------------------------------------------------------------------
(* All but a save and the clock change one scan, or tear the file.            *)
LEMMA OneScanMoves ==
  ASSUME NewsInv, NEW s \in Scanners, NEW me \in Underway \cup AfterScan,
         ScanInOrder(me), scan' = [scan EXCEPT ![s] = me],
         memory' \in {memory, Torn}, UNCHANGED <<time, due, forgotten>>
  PROVE  NewsInv'
<1>1. NewsTypeOK'
  BY DEF NewsInv, NewsTypeOK
<1>2. FileKnows'
  BY DEF NewsInv, FileKnows
<1>3. ScanInOrder(me)'
  BY DEF ScanInOrder, ScanKnows
<1>4. ASSUME NEW p \in Scanners PROVE ScanInOrder(scan[p])'
  <2>1. ScanInOrder(scan[p])
    BY DEF NewsInv, ScansInOrder
  <2>2. scan'[p] = IF p = s THEN me ELSE scan[p]
    BY DEF NewsInv, NewsTypeOK
  <2> QED
    BY <1>3, <2>1, <2>2 DEF ScanInOrder, ScanKnows
<1> QED
  BY <1>1, <1>2, <1>4 DEF NewsInv, ScansInOrder

LEMMA IdleIsInOrder == Idle \in AfterScan /\ ScanInOrder(Idle)
BY DEF AfterScan, Idle, ScanInOrder, Scanning, AsksTheRested

LEMMA BeginKeeps ==
  ASSUME NewsInv, NEW s \in Scanners, NEW online \in BOOLEAN, BeginScan(s, online)
  PROVE  NewsInv'
<1> DEFINE me == [pc |-> "turn", source |-> "refusing", now |-> time, held |-> memory,
                  online |-> online, url |-> 0, read |-> FALSE, learned |-> {},
                  missed |-> {}]
<1>1. memory \in Memories /\ time \in Nat /\ time > 0
  BY DEF NewsInv, NewsTypeOK, BeginScan
<1>2. me \in Underway
  BY <1>1 DEF Underway, Sources
<1>3. ScanKnows(me)
  BY <1>1 DEF NewsInv, FileKnows, BeginScan, ScanKnows
<1>4. ScanInOrder(me)
  BY <1>3 DEF ScanInOrder, AsksTheRested
<1> QED
  BY <1>2, <1>4, OneScanMoves DEF BeginScan

LEMMA PassOverKeeps ==
  ASSUME NewsInv, NEW s \in Scanners, PassOver(s)
  PROVE  NewsInv'
<1> DEFINE me == [scan[s] EXCEPT !.source = After(scan[s].source)]
<1>1. scan[s] \in Underway /\ scan[s].pc = "turn"
  BY UnderwayFields DEF NewsInv, PassOver, Scanning
<1>2. me \in Underway /\ me.pc = "turn" /\ me.now = scan[s].now
      /\ me.held = scan[s].held /\ me.learned = scan[s].learned
      /\ me.missed = scan[s].missed
  BY <1>1 DEF Underway, After, Sources
<1>3. scan' = [scan EXCEPT ![s] = me]
  BY DEF PassOver, NewsInv, NewsTypeOK
<1>4. ScanKnows(scan[s])
  BY <1>1 DEF NewsInv, ScansInOrder, ScanInOrder, Scanning
<1> HIDE DEF me
<1>5. ScanInOrder(me)
  BY <1>2, <1>4 DEF ScanInOrder, ScanKnows, AsksTheRested
<1> QED
  BY <1>2, <1>3, <1>5, OneScanMoves DEF PassOver

LEMMA TurnKeeps ==
  ASSUME NewsInv, NEW s \in Scanners, Turn(s)
  PROVE  NewsInv'
<1> DEFINE me == [scan[s] EXCEPT !.pc = "asking", !.url = 1, !.read = FALSE]
<1>1. scan[s] \in Underway /\ scan[s].pc = "turn"
  BY UnderwayFields DEF NewsInv, Turn, Scanning
<1>2. me \in Underway /\ me.pc = "asking" /\ me.now = scan[s].now
      /\ me.held = scan[s].held /\ me.learned = scan[s].learned
      /\ me.missed = scan[s].missed /\ me.source = scan[s].source
  BY <1>1 DEF Underway
<1>3. scan' = [scan EXCEPT ![s] = me]
  BY DEF Turn, NewsInv, NewsTypeOK
<1>4. ScanKnows(scan[s])
  BY <1>1 DEF NewsInv, ScansInOrder, ScanInOrder, Scanning
<1>5. AsksTheRested(me)
  BY <1>1, <1>2 DEF Turn, AsksTheRested, Underway
<1> HIDE DEF me
<1>6. ScanInOrder(me)
  BY <1>2, <1>4, <1>5 DEF ScanInOrder, ScanKnows
<1> QED
  BY <1>2, <1>3, <1>6, OneScanMoves DEF Turn

(* A turn that ends notes a success, which only matters for the weekly source.*)
LEMMA TurnCloses ==
  ASSUME NEW me \in Underway, ScanKnows(me), due \in [Sources -> Nat],
         me.source = "weekly" => ~ LeaveAlone(me.source, me.now, me.held)
  PROVE  TurnClosed(me) \in Underway /\ ScanInOrder(TurnClosed(me))
<1> DEFINE kept == [me EXCEPT !.pc = "turn", !.source = After(me.source), !.url = 0,
                              !.read = FALSE]
<1>1. kept \in Underway /\ kept.pc = "turn" /\ kept.now = me.now /\ kept.held = me.held
      /\ kept.learned = me.learned /\ kept.missed = me.missed
  BY DEF Underway, After, Sources
<1>2. ScanKnows(kept)
  BY <1>1 DEF ScanKnows
<1>3. TurnClosed(me) = IF ~ me.read THEN kept
        ELSE [kept EXCEPT !.held = Success(me.source, me.held, me.now),
                          !.learned = IF me.source = "weekly"
                                      THEN kept.learned \cup {me.source}
                                      ELSE kept.learned]
  BY DEF TurnClosed
<1> HIDE DEF kept
<1>4. CASE ~ me.read
  BY <1>1, <1>2, <1>3, <1>4 DEF ScanInOrder, AsksTheRested
<1>5. CASE me.read /\ me.source # "weekly"
  <2> DEFINE new == [kept EXCEPT !.held = me.held, !.learned = kept.learned]
  <2>1. new \in Underway /\ new.pc = "turn" /\ new.now = me.now /\ new.held = me.held
        /\ new.learned = me.learned /\ new.missed = me.missed
    BY <1>1 DEF Underway
  <2>2. TurnClosed(me) = new
    BY <1>3, <1>5 DEF Success
  <2> HIDE DEF new
  <2>3. ScanKnows(new)
    BY <2>1 DEF ScanKnows
  <2> QED
    BY <2>1, <2>2, <2>3 DEF ScanInOrder, AsksTheRested
<1>6. CASE me.read /\ me.source = "weekly"
  <2> DEFINE entry == [me.held EXCEPT !.read = me.now]
             new == [kept EXCEPT !.held = entry, !.learned = kept.learned \cup {"weekly"}]
  <2>1. me.held \in Memories /\ me.now \in Nat /\ me.now > 0
    BY DEF Underway, ScanKnows
  <2>2. entry \in Memories /\ entry.read = me.now /\ entry.until = me.held.until
    BY <2>1 DEF Memories
  <2>3. new \in Underway /\ new.pc = "turn" /\ new.now = me.now /\ new.held = entry
        /\ new.learned = me.learned \cup {"weekly"} /\ new.missed = me.missed
    BY <1>1, <2>2 DEF Underway, Sources
  <2>4. TurnClosed(me) = new
    BY <1>3, <1>6 DEF Success
  <2> HIDE DEF new, entry
  <2>5. ASSUME NEW source \in Sources, Knows(me.held, source, due[source])
        PROVE  Knows(entry, source, due[source])
    <3>1. due[source] \in Nat
      OBVIOUS
    <3>2. CASE source = "weekly"
      <4>1. me.held.read > 0 => me.now >= me.held.read + Week
        BY <1>6, <2>1, SpansAreTimes DEF LeaveAlone, Memories
      <4> QED
        BY <2>1, <2>2, <2>5, <3>1, <3>2, <4>1, SpansAreTimes DEF Knows, Memories
    <3>3. CASE source # "weekly"
      BY <2>2, <2>5, <3>3 DEF Knows
    <3> QED
      BY <3>2, <3>3
  <2>6. ASSUME NEW source \in new.learned
        PROVE  Knows(entry, source, new.now + Span(source))
    <3>1. CASE source = "weekly"
      BY <2>1, <2>2, <2>3, <3>1, SpansAreTimes DEF Knows, Span
    <3>2. CASE source # "weekly"
      <4>1. source \in me.learned
        BY <2>3, <2>6, <3>2
      <4>2. Knows(me.held, source, me.now + Span(source))
        BY <4>1 DEF ScanKnows
      <4> QED
        BY <2>2, <2>3, <3>2, <4>2 DEF Knows
    <3> QED
      BY <3>1, <3>2
  <2>7. ScanKnows(new)
    BY <2>1, <2>3, <2>5, <2>6 DEF ScanKnows
  <2> QED
    BY <2>3, <2>4, <2>7 DEF ScanInOrder, AsksTheRested
<1> QED
  BY <1>4, <1>5, <1>6

(* A refusal ends the turn, with the rest that was asked for.                 *)
LEMMA RefusalIsNoted ==
  ASSUME NEW me \in Underway, ScanKnows(me), due \in [Sources -> Nat],
         me.pc = "asking", me.source = "refusing", AsksTheRested(me),
         NEW asked, asked = [me EXCEPT !.held.until = me.now + Cooldown,
                                       !.learned = @ \cup {me.source}]
  PROVE  asked \in Underway /\ asked.source = "refusing" /\ ScanKnows(asked)
<1> DEFINE entry == [me.held EXCEPT !.until = me.now + Cooldown]
<1>1. me.held \in Memories /\ me.now \in Nat /\ me.now > 0
  BY DEF Underway, ScanKnows
<1>2. entry \in Memories /\ entry.until = me.now + Cooldown /\ entry.read = me.held.read
  BY <1>1, SpansAreTimes DEF Memories
<1> DEFINE new == [me EXCEPT !.held = entry, !.learned = me.learned \cup {"refusing"}]
<1>3. asked = new
  OBVIOUS
<1> HIDE DEF entry
<1>4. new \in Underway /\ new.source = "refusing" /\ new.now = me.now
      /\ new.held = entry /\ new.learned = me.learned \cup {"refusing"}
      /\ new.missed = me.missed
  BY <1>2 DEF Underway, Sources
<1> HIDE DEF new
<1>5. ASSUME NEW source \in Sources, Knows(me.held, source, due[source])
      PROVE  Knows(entry, source, due[source])
  <2>1. due[source] \in Nat
    OBVIOUS
  <2>2. CASE source = "weekly"
    BY <1>2, <1>5, <2>2 DEF Knows
  <2>3. CASE source = "refusing"
    <3>1. me.held.until <= me.now
      BY <1>1 DEF AsksTheRested, LeaveAlone, Memories
    <3> QED
      BY <1>1, <1>2, <1>5, <2>1, <2>3, <3>1, SpansAreTimes DEF Knows, Memories
  <2> QED
    BY <2>2, <2>3 DEF Sources
<1>6. ASSUME NEW source \in new.learned
      PROVE  Knows(entry, source, new.now + Span(source))
  <2>1. CASE source = "refusing"
    BY <1>1, <1>2, <1>4, <2>1, SpansAreTimes DEF Knows, Span
  <2>2. CASE source # "refusing"
    <3>1. source = "weekly" /\ Knows(me.held, source, me.now + Span(source))
      BY <1>4, <1>6, <2>2 DEF ScanKnows, Underway, Sources
    <3> QED
      BY <1>2, <1>4, <3>1 DEF Knows
  <2> QED
    BY <2>1, <2>2
<1> QED
  BY <1>1, <1>3, <1>4, <1>5, <1>6 DEF ScanKnows

LEMMA AskKeeps ==
  ASSUME NewsInv, NEW s \in Scanners, Ask(s)
  PROVE  NewsInv'
<1> DEFINE me == scan[s]
<1>1. me \in Underway /\ me.pc = "asking" /\ due \in [Sources -> Nat]
  BY UnderwayFields DEF NewsInv, NewsTypeOK, Ask, Scanning
<1>2. ScanKnows(me) /\ AsksTheRested(me)
  BY <1>1 DEF NewsInv, ScansInOrder, ScanInOrder, Scanning
<1>3. PICK answer \in Answers : \E enough \in {FALSE, answer = "PAGE"} :
        LET forbidden == me.source = "refusing" /\ answer = "FORBIDDEN"
            page == answer = "PAGE"
            asked == IF forbidden
                     THEN [me EXCEPT !.held.until = me.now + Cooldown,
                                     !.learned = @ \cup {me.source}]
                     ELSE [me EXCEPT !.url = @ + 1, !.read = @ \/ page]
        IN  scan' = [scan EXCEPT ![s] =
                IF forbidden \/ (page /\ enough) \/ me.url = MaxUrls
                THEN TurnClosed(asked) ELSE asked]
  BY DEF Ask
<1>4. UNCHANGED <<time, memory, due, forgotten>>
  BY DEF Ask
<1> HIDE DEF me
<1>5. CASE me.source = "refusing" /\ answer = "FORBIDDEN"
  <2> DEFINE asked == [me EXCEPT !.held.until = me.now + Cooldown,
                                 !.learned = @ \cup {me.source}]
  <2>1. asked \in Underway /\ asked.source = "refusing" /\ ScanKnows(asked)
    BY <1>1, <1>2, <1>5, RefusalIsNoted
  <2>2. scan' = [scan EXCEPT ![s] = TurnClosed(asked)]
    BY <1>3, <1>5
  <2> HIDE DEF asked
  <2>3. TurnClosed(asked) \in Underway /\ ScanInOrder(TurnClosed(asked))
    BY <1>1, <2>1, TurnCloses
  <2> QED
    BY <1>4, <2>2, <2>3, OneScanMoves
<1>6. CASE ~ (me.source = "refusing" /\ answer = "FORBIDDEN")
  <2> DEFINE asked == [me EXCEPT !.url = @ + 1, !.read = @ \/ answer = "PAGE"]
  <2>1. asked \in Underway /\ asked.pc = "asking" /\ asked.source = me.source
        /\ asked.now = me.now /\ asked.held = me.held /\ asked.learned = me.learned
        /\ asked.missed = me.missed
    <3> DEFINE read == me.read \/ answer = "PAGE"
    <3>1. read \in BOOLEAN
      OBVIOUS
    <3> DEFINE url == me.url + 1
    <3> DEFINE new == [me EXCEPT !.url = url, !.read = read]
    <3>2. asked = new
      OBVIOUS
    <3> HIDE DEF read, asked
    <3>4. url \in Nat
      BY <1>1 DEF Underway
    <3> HIDE DEF url
    <3>5. new.pc = "asking" /\ new.source = me.source
          /\ new.now = me.now /\ new.held = me.held /\ new.learned = me.learned
          /\ new.missed = me.missed
      BY <1>1 DEF Underway
    <3>6. new \in Underway
      BY <1>1, <3>1, <3>4 DEF Underway
    <3>3. new \in Underway /\ new.pc = "asking" /\ new.source = me.source
          /\ new.now = me.now /\ new.held = me.held /\ new.learned = me.learned
          /\ new.missed = me.missed
      BY <3>5, <3>6
    <3> QED
      BY <3>2, <3>3
  <2>2. scan' = [scan EXCEPT ![s] = TurnClosed(asked)] \/ scan' = [scan EXCEPT ![s] = asked]
    BY <1>3, <1>6
  <2> HIDE DEF asked
  <2>3. ScanKnows(asked) /\ AsksTheRested(asked)
    BY <1>1, <1>2, <2>1 DEF ScanKnows, AsksTheRested
  <2>4. ScanInOrder(asked)
    BY <2>1, <2>3 DEF ScanInOrder
  <2>5. TurnClosed(asked) \in Underway /\ ScanInOrder(TurnClosed(asked))
    BY <1>1, <2>1, <2>3, TurnCloses DEF AsksTheRested
  <2> QED
    BY <1>4, <2>1, <2>2, <2>4, <2>5, OneScanMoves
<1> QED
  BY <1>5, <1>6

LEMMA TruncateKeeps ==
  ASSUME NewsInv, NEW s \in Scanners, Truncate(s)
  PROVE  NewsInv'
<1> DEFINE me == [scan[s] EXCEPT !.pc = "writing"]
<1>1. scan[s] \in Underway /\ scan[s].pc = "turn"
  BY UnderwayFields DEF NewsInv, Truncate, Scanning
<1>2. me \in Underway /\ me.pc = "writing" /\ me.now = scan[s].now
      /\ me.held = scan[s].held /\ me.learned = scan[s].learned
      /\ me.missed = scan[s].missed
  BY <1>1 DEF Underway
<1>3. scan' = [scan EXCEPT ![s] = me]
  BY DEF Truncate, NewsInv, NewsTypeOK
<1>4. ScanKnows(scan[s])
  BY <1>1 DEF NewsInv, ScansInOrder, ScanInOrder, Scanning
<1> HIDE DEF me
<1>5. ScanInOrder(me)
  BY <1>2, <1>4 DEF ScanInOrder, ScanKnows, AsksTheRested
<1> QED
  BY <1>2, <1>3, <1>5, OneScanMoves DEF Truncate

LEMMA SaveKeeps ==
  ASSUME NewsInv, NEW s \in Scanners, Save(s)
  PROVE  NewsInv'
<1> DEFINE me == scan[s]
           next(source) == me.now + Span(source)
<1>1. me \in Underway /\ me.pc = "writing"
  BY UnderwayFields DEF NewsInv, Save, Scanning
<1>2. ScanKnows(me)
  BY <1>1 DEF NewsInv, ScansInOrder, ScanInOrder, Scanning
<1>3. /\ memory' = me.held
      /\ due' = [source \in Sources |->
                    IF source \in me.learned /\ next(source) > due[source]
                    THEN next(source) ELSE due[source]]
      /\ forgotten' = forgotten \cup me.missed
      /\ scan' = [p \in Scanners |->
            CASE p = s -> [pc |-> "found"]
              [] p # s /\ scan[p].pc \in {"turn", "asking", "writing"} ->
                     [scan[p] EXCEPT !.missed = @ \cup me.learned]
              [] OTHER -> scan[p]]
      /\ time' = time
  BY DEF Save
<1>4. me.held \in Memories /\ me.now \in Nat /\ me.learned \subseteq Sources
      /\ me.missed \subseteq Sources
  BY <1>1 DEF Underway
<1> HIDE DEF me
<1>5. \A source \in Sources :
         due[source] \in Nat /\ next(source) \in Nat
         /\ due'[source] \in {due[source], next(source)}
         /\ (source \notin me.learned => due'[source] = due[source])
  BY <1>3, <1>4, SpansAreTimes DEF NewsInv, NewsTypeOK, Span
<1>6. FileKnows'
  <2>1. ASSUME NEW source \in Sources, source \notin forgotten \cup me.missed
        PROVE  Knows(me.held, source, due'[source])
    <3>1. Knows(me.held, source, due[source])
      BY <1>2, <2>1 DEF ScanKnows
    <3>2. source \in me.learned => Knows(me.held, source, next(source))
      BY <1>2 DEF ScanKnows
    <3> HIDE DEF next
    <3> QED
      BY <1>5, <3>1, <3>2
  <2> QED
    BY <1>3, <2>1 DEF FileKnows, Knows
<1>7. ASSUME NEW p \in Scanners
      PROVE  scan'[p] \in Underway \cup AfterScan /\ ScanInOrder(scan[p])'
  <2>1. scan[p] \in Underway \cup AfterScan /\ ScanInOrder(scan[p])
    BY DEF NewsInv, NewsTypeOK, ScansInOrder
  <2>2. CASE p = s
    <3>1. scan'[p] = [pc |-> "found"]
      BY <1>3, <2>2
    <3> QED
      BY <3>1 DEF AfterScan, ScanInOrder, Scanning, AsksTheRested
  <2>3. CASE p # s /\ Scanning(scan[p])
    <3> DEFINE other == scan[p]
               new == [other EXCEPT !.missed = other.missed \cup me.learned]
    <3>1. scan'[p] = new
      BY <1>3, <2>3 DEF Scanning
    <3>2. other \in Underway /\ Scanning(other)
      BY <2>3, UnderwayFields DEF NewsInv
    <3>3. ScanKnows(other) /\ AsksTheRested(other)
      BY <2>1, <2>3 DEF ScanInOrder
    <3> HIDE DEF other
    <3>4. new \in Underway /\ new.pc = other.pc /\ new.now = other.now
          /\ new.held = other.held /\ new.learned = other.learned
          /\ new.source = other.source /\ new.missed = other.missed \cup me.learned
      BY <1>4, <3>2 DEF Underway
    <3> HIDE DEF new
    <3> DEFINE moved == scan'[p]
    <3>5. /\ moved \in Underway /\ moved.pc = other.pc /\ moved.now = other.now
          /\ moved.held = other.held /\ moved.learned = other.learned
          /\ moved.source = other.source /\ moved.missed = other.missed \cup me.learned
      BY <3>1, <3>4
    <3> HIDE DEF moved
    <3>6. ASSUME NEW source \in Sources
          PROVE  \/ source \in forgotten' \cup moved.missed
                 \/ Knows(moved.held, source, due'[source])
      <4>1. source \in me.learned \/ due'[source] = due[source]
        BY <1>5
      <4>2. source \in forgotten \cup other.missed \/ Knows(other.held, source, due[source])
        BY <3>3 DEF ScanKnows
      <4> QED
        BY <1>3, <3>5, <4>1, <4>2
    <3>7. /\ moved.now > 0
          /\ \A source \in moved.learned :
                Knows(moved.held, source, moved.now + Span(source))
      BY <3>3, <3>5 DEF ScanKnows
    <3>8. ScanKnows(scan[p])'
      BY <3>6, <3>7 DEF ScanKnows, Knows, Span, moved
    <3>9. AsksTheRested(moved)
      BY <3>3, <3>5 DEF AsksTheRested, LeaveAlone
    <3> QED
      BY <3>2, <3>5, <3>8, <3>9 DEF ScanInOrder, Scanning, AsksTheRested, LeaveAlone, moved
  <2>4. CASE p # s /\ ~ Scanning(scan[p])
    <3>1. scan'[p] = scan[p]
      BY <1>3, <2>4 DEF Scanning
    <3> QED
      BY <2>1, <2>4, <3>1 DEF ScanInOrder, Scanning, AsksTheRested
  <2> QED
    BY <2>2, <2>3, <2>4
<1>8. NewsTypeOK'
  <2>1. due' \in [Sources -> Nat]
    <3> HIDE DEF next
    <3> QED
      BY <1>3, <1>5
  <2>2. scan' \in [Scanners -> Underway \cup AfterScan]
    BY <1>3, <1>7
  <2> QED
    BY <1>3, <1>4, <2>1, <2>2 DEF NewsInv, NewsTypeOK
<1> QED
  BY <1>6, <1>7, <1>8 DEF NewsInv, ScansInOrder

LEMMA ClassifyKeeps ==
  ASSUME NewsInv, NEW s \in Scanners, Classify(s)
  PROVE  NewsInv'
<1>1. CASE scan' = [scan EXCEPT ![s] = Idle]
  BY <1>1, IdleIsInOrder, OneScanMoves DEF Classify
<1>2. ASSUME NEW told \in Tellings, NEW primary \in Primaries(told),
             ReviewRequired(primary, told),
             scan' = [scan EXCEPT ![s] = [pc |-> "holding", told |-> told]]
      PROVE  NewsInv'
  <2> DEFINE me == [pc |-> "holding", told |-> told]
  <2>1. me \in AfterScan
    BY DEF AfterScan
  <2>2. Grounded(told)
    BY <1>2, ReviewIsGrounded DEF Primaries
  <2>3. ScanInOrder(me)
    BY <2>2 DEF ScanInOrder, Scanning, AsksTheRested
  <2> QED
    BY <1>2, <2>1, <2>3, OneScanMoves DEF Classify
<1> QED
  BY <1>1, <1>2 DEF Classify

LEMMA NewsInvHolds == NewsSpec => []NewsInv
<1>1. NewsInit => NewsInv
  <2> SUFFICES ASSUME NewsInit PROVE NewsInv
    OBVIOUS
  <2>1. NewsTypeOK
    BY SpansAreTimes, IdleIsInOrder DEF NewsInit, NewsTypeOK, Memories
  <2>2. FileKnows
    BY DEF NewsInit, FileKnows, Knows, Sources
  <2>3. ScansInOrder
    BY IdleIsInOrder DEF NewsInit, ScansInOrder
  <2> QED
    BY <2>1, <2>2, <2>3 DEF NewsInv
<1>2. NewsInv /\ [NewsNext]_nvars => NewsInv'
  <2> SUFFICES ASSUME NewsInv, [NewsNext]_nvars PROVE NewsInv'
    OBVIOUS
  <2>1. ASSUME NEW s \in Scanners, NEW online \in BOOLEAN, BeginScan(s, online)
        PROVE  NewsInv'
    BY <2>1, BeginKeeps
  <2>2. ASSUME NEW s \in Scanners, PassOver(s) \/ Turn(s) \/ Ask(s) \/ Truncate(s)
        PROVE  NewsInv'
    BY <2>2, PassOverKeeps, TurnKeeps, AskKeeps, TruncateKeeps
  <2>3. ASSUME NEW s \in Scanners, Save(s) \/ Classify(s) PROVE NewsInv'
    BY <2>3, SaveKeeps, ClassifyKeeps
  <2>4. ASSUME NEW s \in Scanners, End(s) \/ Killed(s) PROVE NewsInv'
    BY <2>4, IdleIsInOrder, OneScanMoves DEF End, Killed
  <2>5. CASE Tick \/ UNCHANGED nvars
    <3>1. time' \in Nat /\ time' > 0 /\ UNCHANGED <<memory, scan, due, forgotten>>
      BY <2>5 DEF Tick, nvars, NewsInv, NewsTypeOK
    <3> QED
      BY <3>1 DEF NewsInv, NewsTypeOK, FileKnows, ScansInOrder, ScanInOrder, ScanKnows
  <2> QED
    BY <2>1, <2>2, <2>3, <2>4, <2>5 DEF NewsNext
<1> QED
  BY <1>1, <1>2, PTL DEF NewsSpec

(* A source that asked for rest, or was just read, is not asked before its    *)
(* time, however scans of several processes overlap, end early or are killed, *)
(* unless one wrote over what another had recorded.                           *)
THEOREM RestIsRespected == NewsSpec => []SourcesAreLeftAlone
<1>1. NewsInv => SourcesAreLeftAlone
  <2> SUFFICES ASSUME NewsInv, NEW s \in Scanners, scan[s].pc = "asking",
                      scan[s].source \notin forgotten \cup scan[s].missed
               PROVE  scan[s].now >= due[scan[s].source]
    BY DEF SourcesAreLeftAlone
  <2> DEFINE me == scan[s]
  <2>1. me \in Underway /\ due \in [Sources -> Nat]
    BY UnderwayFields DEF NewsInv, NewsTypeOK, Scanning
  <2>2. ScanKnows(me) /\ AsksTheRested(me) /\ me.pc = "asking"
    BY DEF NewsInv, ScansInOrder, ScanInOrder, Scanning
  <2>3. me.source \in Sources /\ ~ LeaveAlone(me.source, me.now, me.held)
    BY <2>2 DEF AsksTheRested
  <2>4. Knows(me.held, me.source, due[me.source])
    BY <2>2, <2>3 DEF ScanKnows
  <2>5. me.held \in Memories /\ me.now \in Nat /\ due[me.source] \in Nat
    BY <2>1, <2>3 DEF Underway
  <2> HIDE DEF me
  <2>6. me.now >= due[me.source]
    BY <2>3, <2>4, <2>5, SpansAreTimes DEF Knows, LeaveAlone, Sources, Memories
  <2> QED
    BY <2>6 DEF me
<1> QED
  BY <1>1, NewsInvHolds, PTL

(* What is held for review was told by two sources or confirmed officially,   *)
(* and something of it can be dated or is an article.                         *)
THEOREM ReviewsAreGrounded == NewsSpec => []OneMediumIsNotEnough
<1>1. NewsInv => OneMediumIsNotEnough
  BY DEF NewsInv, ScansInOrder, ScanInOrder, Grounded, OneMediumIsNotEnough
<1> QED
  BY <1>1, NewsInvHolds, PTL

-----------------------------------------------------------------------------
(* MetricRoute: a route is over in time, and every source keeps its share,    *)
(* for every choice of the times that the code's own check permits.           *)
Transports == {"urllib", "urllib body", "https", "https body", "powershell"}
Asking == at \in Transports
AskingYahoo == Asking /\ Asked.yahoo

RouteTypeOK ==
    /\ route \in Routes /\ at \in Transports \cup {"next", "over"}
    /\ now \in Nat /\ pos \in 1 .. Len(route) + 1
    /\ until \in Nat /\ common \in Nat /\ open \in BOOLEAN /\ left \in Nat
    /\ ceiling \in Nat /\ used \in Nat /\ stalled \in BOOLEAN
    /\ skipped \subseteq 1 .. Len(route)

(* Only a source is asked, and one that is not Yahoo under the common         *)
(* allocation, which runs.                                                    *)
AskedInItsShare ==
    Asking => /\ pos <= Len(route)
              /\ ~ Asked.yahoo => open /\ until = common

(* Before Yahoo's turn only the first source has taken time, within its share *)
(* unless a call came back too late.                                          *)
Beginning ==
    /\ pos = 1 /\ at = "next" => now = 0 /\ ~ open /\ left = Share
    /\ pos = 1 /\ Asking /\ ~ Asked.yahoo => until = Share /\ (now <= Share \/ stalled)
    /\ pos = 2 /\ at = "next" /\ ~ route[1].yahoo => now <= Share \/ stalled

(* What is left of the common allocation accounts for everything the sources  *)
(* other than Yahoo have not used, but for the time after the deadline.       *)
Accounted ==
    ~ Over => IF ~ open \/ AskingYahoo
              THEN used + left >= Share \/ now + left >= RouteTime
              ELSE used + common >= Share + now \/ common >= RouteTime

RouteInv ==
    /\ RouteTypeOK
    /\ RouteInTime
    /\ AskedInItsShare
    /\ Beginning
    /\ Accounted
    /\ SharesAreKept

(* What every step has in common that ends or continues a call.  Time is only *)
(* taken by a call that was begun with some time left, and only up to the     *)
(* deadlines unless the call comes back later than the reserve allows for.    *)
Stays == at' \in Transports /\ UNCHANGED <<pos, open, left>>
Moves == /\ at' = "next" /\ pos' = pos + 1
         /\ open' = (open /\ ~ Asked.yahoo)
         /\ left' = IF Asked.yahoo THEN left ELSE Remaining(until, now')
RouteEnds  == at' = "over" /\ UNCHANGED <<pos, open, left>>

InTime(t, late) ==
    /\ (t = now /\ late = stalled) \/ t + Reserve <= RouteTime + MaxStall
    /\ ~ late => t <= RouteTime /\ (t = now \/ t <= until)

Call ==
    /\ Asking
    /\ now' \in Nat /\ now <= now'
    /\ stalled' \in BOOLEAN /\ (stalled => stalled')
    /\ InTime(now', stalled')
    /\ used' = IF Asked.yahoo THEN used ELSE used + (now' - now)
    /\ Stays \/ Moves \/ RouteEnds
    /\ ceiling' \in Nat
    /\ UNCHANGED <<route, until, common, skipped>>
-----------------------------------------------------------------------------
(* What the proofs need to know of the four routes: Yahoo is asked once, first *)
(* or second, and never for the two ends of the rate.                         *)
LEMMA SourcesAre == ~ Fred.yahoo /\ Yahoo.yahoo /\ \A n : ~ Stooq(n).yahoo
BY DEF Fred, Yahoo, Stooq

LEMMA RoutesAre ==
    ASSUME NEW r \in Routes
    PROVE  /\ Len(r) \in {2, 3}
           /\ \A i \in 3 .. Len(r) : ~ r[i].yahoo
           /\ r[1].yahoo => ~ r[2].yahoo
           /\ r = TwoEnds => ~ r[1].yahoo /\ ~ r[2].yahoo
<1>1. CASE r = <<Fred, Yahoo, Stooq(2)>>
  <2>1. Len(r) = 3 /\ r[1] = Fred /\ r[2] = Yahoo /\ r[3] = Stooq(2)
    BY <1>1
  <2>2. r # TwoEnds
    <3>1. ASSUME r = TwoEnds PROVE r[2] = Fred
      BY <3>1 DEF TwoEnds
    <3> QED  BY <2>1, <3>1, SourcesAre
  <2>3. \A i \in 3 .. 3 : i = 3
    OBVIOUS
  <2>4. \A i \in 3 .. Len(r) : ~ r[i].yahoo
    BY <2>1, <2>3, SourcesAre, Zenon
  <2> QED  BY <2>1, <2>2, <2>4, SourcesAre, Zenon
<1>2. CASE r = <<Fred, Yahoo>>
  <2>1. Len(r) = 2 /\ r[1] = Fred /\ r[2] = Yahoo
    BY <1>2
  <2>2. r # TwoEnds
    <3>1. ASSUME r = TwoEnds PROVE r[2] = Fred
      BY <3>1 DEF TwoEnds
    <3> QED  BY <2>1, <3>1, SourcesAre
  <2>3. 3 .. 2 = {}
    OBVIOUS
  <2> QED  BY <2>1, <2>2, <2>3, SourcesAre, Zenon
<1>3. CASE r = <<Yahoo, Stooq(3)>>
  <2>1. Len(r) = 2 /\ r[1] = Yahoo /\ r[2] = Stooq(3)
    BY <1>3
  <2>2. r # TwoEnds
    <3>1. ASSUME r = TwoEnds PROVE r[1] = Fred
      BY <3>1 DEF TwoEnds
    <3> QED  BY <2>1, <3>1, SourcesAre
  <2>3. 3 .. 2 = {}
    OBVIOUS
  <2> QED  BY <2>1, <2>2, <2>3, SourcesAre, Zenon
<1>4. CASE r = TwoEnds
  <2>1. Len(r) = 2 /\ r[1] = Fred /\ r[2] = Fred
    BY <1>4 DEF TwoEnds
  <2>2. 3 .. 2 = {}
    OBVIOUS
  <2> QED  BY <2>1, <2>2, SourcesAre, Zenon
<1> QED  BY <1>1, <1>2, <1>3, <1>4 DEF Routes, Vix, Us10y, Dxy
LEMMA TimesAreNumbers ==
    /\ RouteTime \in Nat /\ NonYahooTime \in Nat /\ YahooTime \in Nat /\ Reserve \in Nat
    /\ UrllibTime \in Nat /\ HttpsTime \in Nat /\ ShellTime \in Nat /\ MaxStall \in Nat
BY MetricRouteAssumption

(* A call that is started ends before the deadlines, but for its delay.       *)
LEMMA CallsEndInTime ==
    ASSUME RouteTypeOK, NEW d \in Nat, d <= Usable(until, now) + MaxStall,
           Usable(until, now) > 0
    PROVE  /\ now + d + Reserve <= RouteTime + MaxStall
           /\ d <= Usable(until, now) + Reserve => now + d <= until /\ now + d <= RouteTime
BY TimesAreNumbers, MetricRouteAssumption
   DEF RouteTypeOK, Usable, Remaining, Minus, Lesser

LEMMA BoundedTimeouts ==
    ASSUME RouteTypeOK
    PROVE  /\ Usable(until, now) \in Nat
           /\ \A c \in Nat : Timeout(c) \in Nat /\ Timeout(c) <= Usable(until, now)
           /\ Configured \in Nat
           /\ Piece \in Nat /\ Piece <= Usable(until, now)
BY TimesAreNumbers
   DEF RouteTypeOK, Usable, Remaining, Minus, Lesser, Timeout, Configured, Piece

(* However a transport fails or succeeds, the fetcher goes on in one of three *)
(* ways.                                                                      *)
LEMMA OutcomesAre ==
    ASSUME RouteTypeOK, AskedInItsShare, Asking, Fails \/ Breaks \/ Evaluated
    PROVE  Stays \/ Moves \/ RouteEnds
<1>1. ASSUME SourceFails PROVE Stays \/ Moves
  BY <1>1 DEF SourceFails, Stays, Moves, Transports
<1>2. ASSUME Fails PROVE Stays \/ Moves
  BY <1>1, <1>2 DEF Fails, Stays, Transports
<1>3. ASSUME Breaks PROVE RouteEnds
  BY <1>3 DEF Breaks, RouteEnds
<1>4. ASSUME Delivers PROVE Moves \/ RouteEnds
  <2>1. CASE route = TwoEnds
    <3>1. pos \in {1, 2} \/ pos \in 3 .. Len(route)
      BY RoutesAre DEF RouteTypeOK, AskedInItsShare
    <3>2. ~ Asked.yahoo
      BY <2>1, <3>1, RoutesAre DEF RouteTypeOK, Asked
    <3> QED  BY <1>4, <2>1, <3>2 DEF Delivers, Moves, RouteTypeOK
  <2> QED  BY <1>4, <2>1 DEF Delivers, RouteEnds
<1> QED  BY <1>1, <1>2, <1>3, <1>4 DEF Evaluated, Stays, Transports

LEMMA EveryCallIsACall ==
    ASSUME RouteTypeOK, RouteInTime, AskedInItsShare,
           NotStarted \/ Connect \/ ReadTooLate \/ Read \/ RunPowerShell
    PROVE  Call
<1>1. Asking /\ now \in Nat /\ used \in Nat /\ ceiling \in Nat
  BY DEF NotStarted, Connect, ReadTooLate, Read, RunPowerShell, Asking, Transports, Reading,
         RouteTypeOK
<1>b. MaxStall \in Nat /\ Usable(until, now) \in Nat
  BY BoundedTimeouts, TimesAreNumbers
<1>2. ASSUME NEW d \in Nat, NEW t \in Nat, Takes(d, t), t <= Usable(until, now),
             d = 0 \/ (Usable(until, now) > 0 /\ d <= t + MaxStall)
      PROVE  /\ now' \in Nat /\ now <= now'
             /\ stalled' \in BOOLEAN /\ (stalled => stalled')
             /\ InTime(now', stalled')
             /\ used' = IF Asked.yahoo THEN used ELSE used + (now' - now)
  <2>1. now' = now + d /\ now' - now = d
    BY <1>1, <1>2 DEF Takes
  <2>2. used' = IF Asked.yahoo THEN used ELSE used + (now' - now)
    BY <1>2, <2>1 DEF Takes
  <2>s. /\ stalled' = (stalled \/ d > t + Reserve) /\ stalled \in BOOLEAN
        /\ Reserve \in Nat /\ RouteTime \in Nat
    BY <1>2, TimesAreNumbers DEF Takes, RouteTypeOK
  <2>3. CASE d = 0
    <3>1. now' = now /\ stalled' = stalled
      BY <1>1, <1>2, <2>1, <2>s, <2>3
    <3> QED  BY <1>1, <2>2, <2>s, <3>1 DEF RouteInTime, InTime
  <2>4. CASE Usable(until, now) > 0 /\ d <= t + MaxStall
    <3>1. d <= Usable(until, now) + MaxStall
      BY <1>b, <1>2, <2>4
    <3>2. now' + Reserve <= RouteTime + MaxStall
      BY <2>1, <2>4, <3>1, CallsEndInTime
    <3>3. ASSUME ~ stalled' PROVE now' <= until /\ now' <= RouteTime
      <4>0. ~ (d > t + Reserve)
        BY <2>s, <3>3, Zenon
      <4>1. d <= Usable(until, now) + Reserve
        BY <1>b, <1>2, <2>s, <4>0
      <4> QED  BY <2>1, <2>4, <3>1, <4>1, CallsEndInTime
    <3> QED  BY <1>1, <2>1, <2>2, <2>s, <3>2, <3>3 DEF InTime
  <2> QED  BY <1>2, <2>3, <2>4
<1>3. CASE NotStarted
  <2>1. Takes(0, 0) /\ Fails /\ UNCHANGED <<route, until, common, ceiling, skipped>>
    BY <1>3 DEF NotStarted
  <2>2. 0 \in Nat /\ 0 <= Usable(until, now)
    BY <1>b
  <2>3. /\ now' \in Nat /\ now <= now'
        /\ stalled' \in BOOLEAN /\ (stalled => stalled')
        /\ InTime(now', stalled')
        /\ used' = IF Asked.yahoo THEN used ELSE used + (now' - now)
    BY <1>2, <2>1, <2>2
  <2> QED  BY <1>1, <2>1, <2>3, OutcomesAre DEF Call
<1>4. CASE ReadTooLate
  <2>1. Takes(0, 0) /\ Fails /\ UNCHANGED <<route, until, common, ceiling, skipped>>
    BY <1>4 DEF ReadTooLate
  <2>2. 0 \in Nat /\ 0 <= Usable(until, now)
    BY <1>b
  <2>3. /\ now' \in Nat /\ now <= now'
        /\ stalled' \in BOOLEAN /\ (stalled => stalled')
        /\ InTime(now', stalled')
        /\ used' = IF Asked.yahoo THEN used ELSE used + (now' - now)
    BY <1>2, <2>1, <2>2
  <2> QED  BY <1>1, <2>1, <2>3, OutcomesAre DEF Call
<1>5. CASE Connect
  <2>1. Timeout(Configured) \in Nat /\ Timeout(Configured) <= Usable(until, now)
    BY BoundedTimeouts
  <2>2. PICK d \in 0 .. Timeout(Configured) + MaxStall : Takes(d, Timeout(Configured))
    BY <1>5 DEF Connect
  <2>3. d \in Nat /\ Usable(until, now) > 0 /\ d <= Timeout(Configured) + MaxStall
    BY <1>b, <1>5, <2>1, <2>2 DEF Connect
  <2>4. Stays \/ Moves \/ RouteEnds
    BY <1>1, <1>5, OutcomesAre DEF Connect, Stays, BodyOf, Transports
  <2> QED  BY <1>1, <1>2, <1>5, <2>1, <2>2, <2>3, <2>4 DEF Call, Connect
<1>6. CASE Read
  <2>1. PICK d \in 0 .. Piece + MaxStall : Takes(d, Piece)
    BY <1>6 DEF Read
  <2>b. Piece \in Nat /\ Piece <= Usable(until, now)
    BY BoundedTimeouts
  <2>2. d \in Nat /\ Usable(until, now) > 0 /\ d <= Piece + MaxStall
    BY <1>b, <1>6, <2>1, <2>b DEF Read
  <2>3. Stays \/ Moves \/ RouteEnds
    BY <1>1, <1>6, OutcomesAre DEF Read, Stays, Reading, Transports
  <2> QED  BY <1>1, <1>2, <1>6, <2>1, <2>b, <2>2, <2>3 DEF Call, Read
<1>7. CASE RunPowerShell
  <2>t. Timeout(ShellTime) \in Nat /\ Timeout(ShellTime) <= Usable(until, now)
    BY BoundedTimeouts, TimesAreNumbers
  <2>1. PICK t \in {Timeout(ShellTime), Usable(until, now)} :
            \E d \in 0 .. t + MaxStall : Takes(d, t)
    BY <1>7 DEF RunPowerShell
  <2>d. PICK d \in 0 .. t + MaxStall : Takes(d, t)
    BY <2>1
  <2>2. /\ t \in Nat /\ t <= Usable(until, now)
        /\ d \in Nat /\ Usable(until, now) > 0 /\ d <= t + MaxStall
    BY <1>b, <1>7, <2>t, <2>1, <2>d DEF RunPowerShell
  <2>3. Stays \/ Moves \/ RouteEnds
    BY <1>1, <1>7, OutcomesAre DEF RunPowerShell, Evaluated
  <2> QED  BY <1>1, <1>2, <1>7, <2>d, <2>2, <2>3 DEF Call, RunPowerShell
<1> QED  BY <1>3, <1>4, <1>5, <1>6, <1>7

LEMMA ShareIsAShare == Share \in Nat /\ Share <= RouteTime
BY TimesAreNumbers, MetricRouteAssumption DEF Share

LEMMA InitEstablishes == RouteInit => RouteInv
<1> SUFFICES ASSUME RouteInit PROVE RouteInv
  OBVIOUS
<1>1. route \in Routes /\ Len(route) \in {2, 3}
  BY RoutesAre DEF RouteInit
<1>2. pos \in 1 .. Len(route) + 1 /\ ~ Asking /\ pos = 1 /\ ~ Over
  BY <1>1 DEF RouteInit, Asking, Transports, Over
<1>3. RouteTypeOK
  BY <1>1, <1>2, ShareIsAShare DEF RouteInit, RouteTypeOK
<1>4. RouteInTime
  BY TimesAreNumbers DEF RouteInit, RouteInTime
<1>5. AskedInItsShare /\ Beginning
  BY <1>2 DEF RouteInit, AskedInItsShare, Beginning
<1>6. Accounted
  BY <1>2, ShareIsAShare DEF RouteInit, Accounted
<1>7. SharesAreKept
  BY DEF RouteInit, SharesAreKept
<1> QED  BY <1>3, <1>4, <1>5, <1>6, <1>7 DEF RouteInv

LEMMA CallKeeps == RouteInv /\ Call => RouteInv'
<1> SUFFICES ASSUME RouteInv, Call PROVE RouteInv'
  OBVIOUS
<1>1. /\ RouteTypeOK /\ AskedInItsShare /\ Beginning /\ Accounted /\ SharesAreKept
      /\ RouteInTime
  BY DEF RouteInv
<1>2. Share' = Share /\ Share \in Nat /\ Share <= RouteTime
  BY ShareIsAShare DEF Share, Call
<1>3. Asking /\ at \in Transports /\ ~ Over /\ pos <= Len(route)
  BY <1>1 DEF Call, AskedInItsShare, Asking, Transports, Over
<1>4. /\ now \in Nat /\ used \in Nat /\ left \in Nat /\ common \in Nat /\ until \in Nat
      /\ pos \in Nat /\ 1 <= pos /\ open \in BOOLEAN /\ Len(route) \in {2, 3}
      /\ route \in Routes /\ stalled \in BOOLEAN
  BY <1>1, RoutesAre DEF RouteTypeOK
<1>5. /\ now' \in Nat /\ now <= now'
      /\ stalled' \in BOOLEAN /\ (stalled => stalled')
      /\ ~ stalled' => now' <= RouteTime /\ (now' = now \/ now' <= until)
      /\ route' = route /\ until' = until /\ common' = common /\ skipped' = skipped
  BY DEF Call, InTime
<1>i. RouteInTime'
  BY <1>1, <1>5 DEF Call, InTime, RouteInTime
<1>u. used' = IF Asked.yahoo THEN used ELSE used + (now' - now)
  BY DEF Call
<1>p. PICK t \in Nat : now' = t
  BY <1>5
<1>n. /\ now \in Nat /\ used \in Nat /\ left \in Nat /\ common \in Nat
      /\ now <= t /\ RouteTime \in Nat /\ Reserve \in Nat
  BY <1>4, <1>5, <1>p, TimesAreNumbers
<1>6. used' \in Nat
  <2>1. used + (t - now) \in Nat
    BY <1>n
  <2>2. used' = used \/ used' = used + (t - now)
    BY <1>u, <1>p
  <2> QED  BY <1>n, <2>1, <2>2
<1>q. PICK u \in Nat : used' = u
  BY <1>6
<1>r. ~ Asked.yahoo => u = used + (t - now)
  BY <1>p, <1>q, <1>u
<1>s. used <= u
  <2>1. u = used \/ u = used + (t - now)
    BY <1>p, <1>q, <1>u
  <2> QED  BY <1>n, <2>1
<1>k. (skipped # {} => used + Reserve >= Share \/ now + Reserve >= RouteTime)'
  <2>1. CASE skipped = {}
    BY <1>5, <2>1
  <2>2. CASE used + Reserve >= Share \/ now + Reserve >= RouteTime
    <3>1. u + Reserve >= Share \/ t + Reserve >= RouteTime
      BY <1>2, <1>n, <1>s, <2>2
    <3> QED  BY <1>2, <1>p, <1>q, <3>1
  <2> QED  BY <1>1, <2>1, <2>2 DEF SharesAreKept
<1>7. CASE Stays
  <2>1. Asking' /\ AskingYahoo' = AskingYahoo /\ Asked' = Asked /\ ~ Over' /\ at' # "next"
        /\ pos' = pos /\ open' = open /\ left' = left
    BY <1>3, <1>5, <1>7 DEF Stays, Asking, AskingYahoo, Asked, Over, Transports
  <2>2. RouteTypeOK'
    BY <1>1, <1>4, <1>5, <1>6, <1>7, <2>1 DEF RouteTypeOK, Stays, Call
  <2>3. AskedInItsShare'
    BY <1>1, <1>3, <1>5, <2>1 DEF AskedInItsShare
  <2>4. Beginning'
    BY <1>1, <1>2, <1>3, <1>4, <1>5, <2>1 DEF Beginning
  <2>5. Accounted'
    <3>1. CASE ~ open \/ AskingYahoo
      <4>1. used + left >= Share \/ now + left >= RouteTime
        BY <1>1, <1>3, <3>1 DEF Accounted
      <4>2. u + left >= Share \/ t + left >= RouteTime
        BY <1>2, <1>n, <1>s, <4>1
      <4> QED  BY <1>2, <1>5, <1>p, <1>q, <2>1, <3>1, <4>2 DEF Accounted
    <3>2. CASE open /\ ~ AskingYahoo
      <4>1. used + common >= Share + now \/ common >= RouteTime
        BY <1>1, <1>3, <3>2 DEF Accounted
      <4>2. u = used + (t - now)
        BY <1>3, <1>r, <3>2 DEF AskingYahoo
      <4>3. u + common >= Share + t \/ common >= RouteTime
        BY <1>2, <1>n, <4>1, <4>2
      <4> QED  BY <1>2, <1>5, <1>p, <1>q, <2>1, <3>2, <4>3 DEF Accounted
    <3> QED  BY <1>4, <3>1, <3>2
  <2>6. SharesAreKept'
    <3>1. (~ stalled /\ ~ Over /\ at # "next" /\ Asked.yahoo => until <= RouteTime)'
      BY <1>1, <1>3, <1>5, <2>1 DEF SharesAreKept, Asking, Transports
    <3>2. (~ stalled => \A i \in skipped : ~ route[i].yahoo)'
      BY <1>1, <1>5 DEF SharesAreKept
    <3> QED  BY <1>k, <3>1, <3>2 DEF SharesAreKept
  <2> QED  BY <1>i, <2>2, <2>3, <2>4, <2>5, <2>6 DEF RouteInv
<1>8. CASE Moves \/ RouteEnds
  <2>1. ~ Asking' /\ at' \in {"next", "over"}
    BY <1>8 DEF Moves, RouteEnds, Asking, Transports
  <2>2. RouteTypeOK'
    <3>1. left' \in Nat
      BY <1>4, <1>5, <1>8, TimesAreNumbers DEF Moves, RouteEnds, Remaining, Minus, Lesser
    <3>2. pos' \in 1 .. Len(route) + 1 /\ open' \in BOOLEAN
      <4>1. pos' = pos \/ pos' = pos + 1
        BY <1>8 DEF Moves, RouteEnds
      <4>2. open' \in BOOLEAN
        BY <1>4, <1>8 DEF Moves, RouteEnds
      <4> QED  BY <1>3, <1>4, <4>1, <4>2
    <3> QED  BY <1>1, <1>4, <1>5, <1>6, <2>1, <3>1, <3>2 DEF RouteTypeOK, Call
  <2>3. AskedInItsShare'
    BY <2>1 DEF AskedInItsShare
  <2>4. Beginning'
    <3>1. CASE Moves
      BY <1>1, <1>2, <1>3, <1>4, <1>5, <2>1, <3>1 DEF Beginning, Moves, Asked
    <3>2. CASE RouteEnds
      BY <2>1, <3>2 DEF Beginning, RouteEnds
    <3> QED  BY <1>8, <3>1, <3>2
  <2>5. Accounted'
    <3>1. CASE Moves /\ Asked.yahoo
      <4>1. AskingYahoo /\ open' = FALSE /\ left' = left
        BY <1>3, <3>1 DEF AskingYahoo, Moves
      <4>2. used + left >= Share \/ now + left >= RouteTime
        BY <1>1, <1>3, <4>1 DEF Accounted
      <4>3. u + left >= Share \/ t + left >= RouteTime
        BY <1>2, <1>n, <1>s, <4>2
      <4> QED  BY <1>2, <1>p, <1>q, <4>1, <4>3 DEF Accounted
    <3>2. CASE Moves /\ ~ Asked.yahoo
      <4>1. open /\ open' = TRUE /\ until = common /\ ~ AskingYahoo /\ ~ AskingYahoo'
        BY <1>1, <1>3, <2>1, <3>2 DEF AskedInItsShare, Moves, AskingYahoo
      <4>2. used + common >= Share + now \/ common >= RouteTime
        BY <1>1, <1>3, <4>1 DEF Accounted
      <4>3. u = used + (t - now)
        BY <1>r, <3>2
      <4>4. u + common >= Share + t \/ common >= RouteTime
        BY <1>2, <1>n, <4>2, <4>3
      <4> QED  BY <1>2, <1>5, <1>p, <1>q, <4>1, <4>4 DEF Accounted
    <3>3. CASE RouteEnds
      BY <3>3 DEF RouteEnds, Accounted, Over
    <3> QED  BY <1>8, <3>1, <3>2, <3>3
  <2>6. SharesAreKept'
    <3>1. (~ stalled /\ ~ Over /\ at # "next" /\ Asked.yahoo => until <= RouteTime)'
      BY <2>1 DEF Over
    <3>2. (~ stalled => \A i \in skipped : ~ route[i].yahoo)'
      BY <1>1, <1>5 DEF SharesAreKept
    <3> QED  BY <1>k, <3>1, <3>2 DEF SharesAreKept
  <2> QED  BY <1>i, <2>2, <2>3, <2>4, <2>5, <2>6 DEF RouteInv
<1> QED  BY <1>7, <1>8 DEF Call

(* Before Yahoo there was at most one source, and it kept to its share unless *)
(* a call came back too late: what Yahoo is promised is left of the route.    *)
LEMMA YahooHasItsTime ==
    ASSUME RouteInv, ~ stalled, at = "next", pos <= Len(route), Asked.yahoo
    PROVE  /\ Allocation = now + YahooTime /\ Allocation \in Nat /\ Allocation <= RouteTime
           /\ Usable(Allocation, now) # 0
<1>1. RouteTypeOK /\ Beginning /\ now \in Nat
  BY DEF RouteInv, RouteTypeOK
<1>2. pos = 1 \/ pos = 2
  <2>1. pos \in {1, 2} \/ pos \in 3 .. Len(route)
    BY <1>1, RoutesAre DEF RouteTypeOK
  <2> QED  BY <1>1, <2>1, RoutesAre DEF RouteTypeOK, Asked
<1>3. route # TwoEnds /\ (pos = 2 => ~ route[1].yahoo)
  BY <1>1, <1>2, RoutesAre DEF RouteTypeOK, Asked
<1>4. Share = NonYahooTime
  BY <1>3 DEF Share
<1>5. now <= NonYahooTime
  BY <1>1, <1>2, <1>3, <1>4, TimesAreNumbers DEF Beginning
<1>6. Allocation = now + YahooTime
  BY DEF Allocation
<1>7. now + YahooTime \in Nat /\ now + YahooTime <= RouteTime
  BY <1>1, <1>5, TimesAreNumbers, MetricRouteAssumption
<1>8. Usable(now + YahooTime, now) # 0
  BY <1>1, <1>7, TimesAreNumbers, MetricRouteAssumption
     DEF Usable, Remaining, Minus, Lesser
<1> QED  BY <1>6, <1>7, <1>8

LEMMA AskNextKeeps == RouteInv /\ AskNext => RouteInv'
<1> SUFFICES ASSUME RouteInv, AskNext PROVE RouteInv'
  OBVIOUS
<1>1. /\ RouteTypeOK /\ AskedInItsShare /\ Beginning /\ Accounted /\ SharesAreKept
      /\ RouteInTime
  BY DEF RouteInv
<1>2. Share' = Share /\ Share \in Nat /\ Share <= RouteTime
  BY ShareIsAShare DEF Share, AskNext
<1>3. /\ at = "next" /\ ~ Asking /\ ~ AskingYahoo /\ ~ Over /\ pos <= Len(route)
      /\ now' = now /\ used' = used /\ route' = route /\ ceiling' = ceiling
      /\ stalled' = stalled /\ until' = Allocation
  BY DEF AskNext, Asking, AskingYahoo, Transports, Over
<1>4. /\ now \in Nat /\ used \in Nat /\ left \in Nat /\ common \in Nat /\ now < RouteTime
      /\ RouteTime \in Nat /\ Reserve \in Nat /\ YahooTime \in Nat
  BY <1>1, TimesAreNumbers DEF RouteTypeOK, AskNext
<1>5. pos \in Nat /\ 1 <= pos /\ open \in BOOLEAN /\ Len(route) \in {2, 3}
  BY <1>1, RoutesAre DEF RouteTypeOK
<1>6. RouteInTime'
  BY <1>1, <1>3 DEF RouteInTime
<1>7. CASE Asked.yahoo
  <2>1. /\ Allocation = now + YahooTime /\ Allocation \in Nat
        /\ ~ stalled => Allocation <= RouteTime /\ Usable(Allocation, now) # 0
    BY <1>3, <1>4, <1>7, YahooHasItsTime DEF Allocation
  <2>2. /\ common' = common /\ open' = open
        /\ left' = IF open THEN Remaining(common, now) ELSE left
    BY <1>7, <2>1 DEF AskNext
  <2>a. \/ /\ pos' = pos /\ at' = "urllib" /\ skipped' = skipped
        \/ /\ pos' = pos + 1 /\ at' = "next" /\ skipped' = skipped \cup {pos}
           /\ Usable(Allocation, now) = 0 /\ stalled
    BY <1>3, <1>7, <2>1 DEF AskNext
  <2>4. PICK l \in Nat : left' = l /\ l = IF open THEN Remaining(common, now) ELSE left
    BY <1>4, <2>2 DEF Remaining, Minus, Lesser
  <2>p. pos \in 1 .. Len(route) /\ pos' \in 1 .. Len(route) + 1 /\ ~ Over'
    BY <1>3, <1>5, <2>a DEF Over
  <2>5. RouteTypeOK'
    BY <1>1, <1>3, <2>1, <2>2, <2>a, <2>4, <2>p DEF RouteTypeOK, Transports
  <2>3. Asking' => pos' = pos /\ Asked' = Asked /\ AskingYahoo'
    BY <1>3, <1>7, <2>a DEF Asking, AskingYahoo, Asked, Transports
  <2>o. ~ Asking' => at' = "next" /\ pos' = pos + 1 /\ stalled
    BY <2>a DEF Asking, Transports
  <2>6. AskedInItsShare'
    BY <1>3, <1>7, <2>3 DEF AskedInItsShare
  <2>7. Beginning'
    <3>1. CASE Asking'
      BY <1>7, <2>3, <3>1 DEF Beginning, Asking, Transports
    <3>2. CASE ~ Asking'
      <4>1. pos' # 1 /\ stalled'
        BY <1>3, <1>5, <2>o, <3>2
      <4> QED  BY <3>2, <4>1 DEF Beginning
    <3> QED  BY <3>1, <3>2
  <2>8. Accounted'
    <3>1. used + l >= Share \/ now + l >= RouteTime
      <4>1. CASE open
        <5>1. l = Remaining(common, now)
          BY <2>4, <4>1
        <5>2. used + common >= Share + now \/ common >= RouteTime
          BY <1>1, <1>3, <4>1 DEF Accounted
        <5> QED
          BY <1>2, <1>4, <5>1, <5>2 DEF Remaining, Minus, Lesser
      <4>2. CASE ~ open
        <5>1. l = left
          BY <2>4, <4>2
        <5> QED  BY <1>1, <1>3, <4>2, <5>1 DEF Accounted
      <4> QED  BY <4>1, <4>2
    <3>2. CASE ~ open \/ Asking'
      BY <1>2, <1>3, <2>2, <2>3, <2>4, <3>1, <3>2 DEF Accounted
    <3>3. CASE open /\ ~ Asking'
      <4>1. used + common >= Share + now \/ common >= RouteTime
        BY <1>1, <1>3, <3>3 DEF Accounted
      <4>2. open' /\ ~ AskingYahoo'
        BY <2>2, <3>3 DEF AskingYahoo
      <4> QED  BY <1>2, <1>3, <2>2, <4>1, <4>2 DEF Accounted
    <3> QED  BY <1>5, <3>2, <3>3
  <2>9. SharesAreKept'
    <3>1. (~ stalled /\ ~ Over /\ at # "next" /\ Asked.yahoo => until <= RouteTime)'
      BY <1>3, <2>1
    <3>2. (~ stalled => \A i \in skipped : ~ route[i].yahoo)'
      BY <1>1, <1>3, <2>a DEF SharesAreKept
    <3>3. (skipped # {} => used + Reserve >= Share \/ now + Reserve >= RouteTime)'
      <4>1. ASSUME Usable(Allocation, now) = 0 PROVE now + Reserve >= RouteTime
        <5>1. Usable(now + YahooTime, now) = 0 /\ Reserve < YahooTime
          BY <2>1, <4>1, MetricRouteAssumption
        <5> QED  BY <1>4, <5>1 DEF Usable, Remaining, Minus, Lesser
      <4> QED  BY <1>1, <1>2, <1>3, <2>a, <4>1 DEF SharesAreKept
    <3> QED  BY <3>1, <3>2, <3>3 DEF SharesAreKept
  <2> QED  BY <1>6, <2>5, <2>6, <2>7, <2>8, <2>9 DEF RouteInv
<1>8. CASE ~ Asked.yahoo
  <2>1. /\ Allocation = (IF open THEN common ELSE now + left) /\ Allocation \in Nat
        /\ used + Allocation >= Share + now \/ Allocation >= RouteTime
    <3>1. CASE open
      BY <1>1, <1>3, <1>4, <1>8, <3>1 DEF Allocation, Accounted
    <3>2. CASE ~ open
      <4>1. Allocation = now + left
        BY <1>8, <3>2 DEF Allocation
      <4>2. used + left >= Share \/ now + left >= RouteTime
        BY <1>1, <1>3, <3>2 DEF Accounted
      <4> QED  BY <1>2, <1>4, <3>2, <4>1, <4>2
    <3> QED  BY <3>1, <3>2
  <2>2. PICK a \in Nat : a = Allocation
    BY <2>1
  <2>3. common' = a /\ until' = a /\ open' = TRUE /\ left' = left
    BY <1>8, <2>2 DEF AskNext
  <2>4. ASSUME Asking' PROVE pos' = pos /\ skipped' = skipped /\ Asked' = Asked
    BY <1>3, <2>4 DEF AskNext, Asking, Asked, Transports
  <2>5. /\ ~ Asking' => at' = "next" /\ pos' = pos + 1 /\ skipped' = skipped \cup {pos}
                        /\ Usable(a, now) = 0
        /\ at' \in Transports \cup {"next"}
    BY <1>3, <2>2 DEF AskNext, Asking, Transports
  <2>6. ~ AskingYahoo' /\ ~ Over'
    BY <1>8, <2>4, <2>5 DEF AskingYahoo, Over, Transports
  <2>7. RouteTypeOK'
    <3>1. pos' \in 1 .. Len(route) + 1 /\ skipped' \subseteq 1 .. Len(route)
      <4>1. /\ pos \in 1 .. Len(route) /\ pos \in 1 .. Len(route) + 1
            /\ pos + 1 \in 1 .. Len(route) + 1
        BY <1>3, <1>5
      <4> QED  BY <1>1, <2>4, <2>5, <4>1 DEF RouteTypeOK
    <3> QED  BY <1>1, <1>3, <2>1, <2>3, <2>5, <3>1 DEF RouteTypeOK
  <2>8. AskedInItsShare'
    BY <1>3, <2>3, <2>4 DEF AskedInItsShare
  <2>9. Beginning'
    <3>1. CASE pos = 1
      <4>1. now = 0 /\ a = Share
        BY <1>1, <1>2, <1>3, <1>4, <2>1, <2>2, <3>1 DEF Beginning
      <4>2. now <= Share
        BY <1>2, <4>1
      <4>3. CASE Asking'
        BY <1>2, <1>3, <2>3, <2>4, <3>1, <4>1, <4>2, <4>3
           DEF Beginning, Asking, Transports
      <4>4. CASE ~ Asking'
        <5>1. pos' = 2
          BY <2>5, <3>1, <4>4
        <5> QED  BY <1>2, <1>3, <4>2, <4>4, <5>1 DEF Beginning
      <4> QED  BY <4>3, <4>4
    <3>2. CASE pos # 1
      <4>1. pos' # 1 /\ (pos' = 2 => Asking')
        BY <1>5, <2>4, <2>5, <3>2
      <4> QED  BY <4>1 DEF Beginning, Asking, Transports
    <3> QED  BY <3>1, <3>2
  <2>10. Accounted'
    <3>1. used + a >= Share + now \/ a >= RouteTime
      BY <2>1, <2>2
    <3> QED  BY <1>2, <1>3, <2>3, <2>6, <3>1 DEF Accounted
  <2>11. SharesAreKept'
    <3>1. (~ stalled /\ ~ Over /\ at # "next" /\ Asked.yahoo => until <= RouteTime)'
      BY <1>8, <2>4, <2>5 DEF Over
    <3>2. (~ stalled => \A i \in skipped : ~ route[i].yahoo)'
      BY <1>1, <1>3, <1>8, <2>4, <2>5 DEF SharesAreKept, Asked
    <3>3. (skipped # {} => used + Reserve >= Share \/ now + Reserve >= RouteTime)'
      <4>1. ASSUME Usable(a, now) = 0
            PROVE  used + Reserve >= Share \/ now + Reserve >= RouteTime
        <5>1. used + a >= Share + now \/ a >= RouteTime
          BY <2>1, <2>2
        <5> QED  BY <1>2, <1>4, <4>1, <5>1 DEF Usable, Remaining, Minus, Lesser
      <4> QED  BY <1>1, <1>2, <1>3, <2>4, <2>5, <4>1 DEF SharesAreKept
    <3> QED  BY <3>1, <3>2, <3>3 DEF SharesAreKept
  <2> QED  BY <1>6, <2>7, <2>8, <2>9, <2>10, <2>11 DEF RouteInv
<1> QED  BY <1>7, <1>8

LEMMA GiveUpKeeps == RouteInv /\ GiveUp => RouteInv'
<1> SUFFICES ASSUME RouteInv, GiveUp PROVE RouteInv'
  OBVIOUS
<1> QED
  BY DEF GiveUp, RouteInv, RouteTypeOK, RouteInTime, AskedInItsShare, Beginning, Accounted,
         SharesAreKept, Share, Asking, AskingYahoo, Asked, Over, Transports

LEMMA RestKeeps == RouteInv /\ UNCHANGED rtvars => RouteInv'
BY DEF rtvars, RouteInv, RouteTypeOK, RouteInTime, AskedInItsShare, Beginning, Accounted,
       SharesAreKept, Share, Asking, AskingYahoo, Asked, Over

LEMMA NextKeeps == RouteInv /\ [RouteNext]_rtvars => RouteInv'
<1>1. ASSUME RouteInv, NotStarted \/ Connect \/ ReadTooLate \/ Read \/ RunPowerShell
      PROVE  RouteInv'
  BY <1>1, EveryCallIsACall, CallKeeps DEF RouteInv
<1> QED
  BY <1>1, AskNextKeeps, GiveUpKeeps, RestKeeps DEF RouteNext

(* Lateness does not add up: in every state, for all choices of the times     *)
(* with which the allocations fit into the route, and for any delay of a      *)
(* call.                                                                      *)
THEOREM MetricRouteInTime == RouteSpec => []RouteInTime
<1>1. RouteInv => RouteInTime
  BY DEF RouteInv
<1> QED  BY InitEstablishes, NextKeeps, <1>1, PTL DEF RouteSpec

(* Yahoo is asked with its whole allocation unless a call came back too late, *)
(* and no other source is passed over while the others' share is not used up. *)
THEOREM MetricRouteKeepsShares == RouteSpec => []SharesAreKept
<1>1. RouteInv => SharesAreKept
  BY DEF RouteInv
<1> QED  BY InitEstablishes, NextKeeps, <1>1, PTL DEF RouteSpec
-----------------------------------------------------------------------------
(* OneOffPublish: what is torn can be taken back, and nothing is lost         *)
Changes  == {"Sunday", "absent", "row", "rebuilt"} \cup Modes
Contents == SUBSET Changes
Stateds  == [Data -> Contents]
Snapshots == [file : Stateds, manifest : Stateds, db : Contents]

(* What a mode replaces.                                                      *)
Touches(k, f) ==
    f \in {TargetOf(k), "manifest"} \/ (k \in {"remediation", "activity"} /\ f = "db")
Touched(k) == {f \in Data \cup {"manifest", "db"} : Touches(k, f)}

Publishes == {o \in
    [kind : Modes \cup {NoMode}, at : Nat, new : Contents, stated : Stateds \cup {NoMode},
     db : Contents, pre : Snapshots \cup {NoMode},
     undo : Seq(Data \cup {"manifest", "db"}), back : {"no", "clean", "errors"}] :
    o.back = "no" => o.undo = <<>>}

OneOffTypeOK ==
    /\ file \in Stateds /\ stated \in Stateds /\ runtime \in Contents
    /\ DOMAIN review = Modes /\ DOMAIN rehearsed = Modes
    /\ rows \subseteq Data \cup {"db"} /\ op \in Publishes
    /\ InProgress => op.pre \in Snapshots
    /\ Forward => op.stated \in Stateds /\ op.at \in DOMAIN Program[op.kind] /\ op.at > 1
    /\ InProgress /\ op.back # "no" => op.undo \in Seq(Touched(op.kind))

(* Others add a row once, so that nothing has it before.                      *)
SnapshotIsOlder(s) ==
    /\ \A t \in Data \ rows : "row" \notin s.file[t] /\ "row" \notin s.manifest[t]
    /\ "db" \notin rows => "row" \notin s.db
RowsAreNew ==
    /\ SnapshotIsOlder(State)
    /\ InProgress => SnapshotIsOlder(op.pre)
    /\ Forward => /\ \A t \in Data \ rows : "row" \notin op.stated[t]
                  /\ TargetFile \notin rows => "row" \notin op.new
                  /\ "db" \notin rows => "row" \notin op.db

(* What others may yet bring to the files, from the log or by taking back, has*)
(* their rows only where they added them.                                     *)
OutsideIsNew ==
    /\ wal \in Contents /\ ("db" \notin rows => wal = {})
    /\ everyday # NoMode =>
          /\ everyday.file \in rows /\ everyday.before \in Contents
          /\ everyday.manifest \in Stateds
          /\ \A t \in Data \ rows : "row" \notin everyday.manifest[t]

(* The remediation was rehearsed, and works, on what was reviewed.            *)
RehearsedAsReviewed ==
    rehearsed["remediation"] # NoMode =>
        /\ review["remediation"] # NoMode
        /\ rehearsed["remediation"][1] = review["remediation"].file

NewOf(k, content) == CASE k = "removal"  -> content \ {"Sunday"}
                       [] k = "activity" -> {"activity"}
                       [] OTHER          -> content \cup {k}

(* Until a mode has compared for the last time: what it is going to write     *)
(* fits, or the comparison is going to find what others added.                *)
EarlySteps(k) == IF k = "reconcile" THEN {"hash", "rehearsed", "rebuild", "backup"}
                                    ELSE {"hash", "rehearsed", "rebuild", "backup", "state"}
Early == Forward /\ Step \in EarlySteps(op.kind)
Late  == Forward /\ Step \notin EarlySteps(op.kind)
Back  == InProgress /\ ~ Forward

Seen == \E t \in Data : "row" \in stated[t] /\ "row" \notin op.pre.manifest[t]
StatesNow == \A t \in Data : op.stated[t] = IF t = TargetFile THEN op.new ELSE stated[t]

EarlyInv ==
    Early =>
        /\ ~ (op.kind = "remediation" /\ Step = "rehearsed") =>
              op.new = NewOf(op.kind, op.pre.file[TargetFile])
        /\ op.kind = "remediation" =>
              /\ review["remediation"] # NoMode
              /\ op.new = review["remediation"].file \cup {"remediation"}
        /\ op.kind = "activity" => file["market"] = Absent
        /\ op.kind \in {"removal", "gaps"} /\ Step \in {"state", "hash"} =>
              file["price"] = op.pre.file["price"]
        /\ op.kind # "remediation" /\ Step = "hash" => StatesNow
        /\ Step \in {"rebuild", "backup"} \/ op.kind = "macro" => Seen \/ StatesNow
        /\ op.kind = "remediation" /\ Step = "backup" =>
              ("row" \in op.pre.db => "row" \in op.db)

(* From then on, only its own file and entry differ from what it compared.    *)
OthersStay == \A t \in Data \ {TargetFile} : stated[t] = op.pre.manifest[t]
PreHasRows ==
    /\ TargetFile \in rows => "row" \in op.pre.file[TargetFile]
    /\ op.kind \in {"remediation", "activity"} =>
          wal = {} /\ ("db" \in rows => "row" \in op.pre.db)
LateInv ==
    Late =>
        /\ OthersStay /\ StatesNow /\ PreHasRows
        /\ TargetFile \in rows => "row" \in op.new
        /\ op.kind = "remediation" /\ "db" \in rows => "row" \in op.db
        /\ Step \in {"state", "journal"} =>
              /\ file[TargetFile] = op.pre.file[TargetFile]
              /\ stated[TargetFile] = op.pre.manifest[TargetFile]
BackInv == Back => OthersStay /\ PreHasRows

(* A file is what is stated of it, or a journal has both as they were; the    *)
(* one under way has its journal from before it replaces anything.            *)
IsBackupOf(j, t) ==
    /\ TargetOf(j.kind) = t /\ j.status \in {"BACKUP_VERIFIED", "ROLLBACK_FAILED"}
    /\ j.file = j.stated
Logged(t) == \E j \in journals : IsBackupOf(j, t)
MayBeTorn(t) == InProgress /\ t = TargetFile /\ (Late => Step \notin {"state", "journal"}) /\ ~ Early
FilesAreBacked ==
    \A t \in Data \ {"master"} :
        /\ ~ MayBeTorn(t) => ~ Unattested(t) \/ Logged(t)
        /\ MayBeTorn(t) => Logged(t)

OneOffInv ==
    /\ OneOffTypeOK /\ RowsAreNew /\ RehearsedAsReviewed
    /\ ~ unseen => EarlyInv /\ LateInv /\ BackInv /\ FilesAreBacked /\ NothingIsLost
-----------------------------------------------------------------------------
(* The programs, step by step.                                                *)
LEMMA ModesAre ==
  Modes = {"remediation", "activity", "removal", "gaps", "reconcile", "macro", "promotion"}
BY DEF Modes, Program

NextStep(k, s) ==
    CASE s = "hash"      -> IF k = "remediation" THEN "rehearsed" ELSE "backup"
      [] s = "rehearsed" -> IF k = "remediation" THEN "state" ELSE "backup"
      [] s = "state"     -> IF k = "remediation" THEN "rebuild"
                            ELSE IF k = "reconcile" THEN "journal" ELSE "hash"
      [] s = "rebuild"   -> "backup"
      [] s = "backup"    -> IF k = "reconcile" THEN "state" ELSE "journal"
      [] s = "journal"   -> TargetOf(k)
      [] s \in Data      -> "manifest"
      [] s = "manifest"  -> IF k = "remediation" THEN "db"
                            ELSE IF k = "promotion" THEN "receipt" ELSE "verify"
      [] OTHER           -> "verify"

LEMMA NextStepsAre ==
  ASSUME NEW k
  PROVE  /\ NextStep(k, "hash") = IF k = "remediation" THEN "rehearsed" ELSE "backup"
         /\ NextStep(k, "rehearsed") = IF k = "remediation" THEN "state" ELSE "backup"
         /\ NextStep(k, "state") = IF k = "remediation" THEN "rebuild"
                                  ELSE IF k = "reconcile" THEN "journal" ELSE "hash"
         /\ NextStep(k, "rebuild") = "backup"
         /\ NextStep(k, "backup") = IF k = "reconcile" THEN "state" ELSE "journal"
         /\ NextStep(k, "journal") = TargetOf(k)
         /\ \A t \in Data : NextStep(k, t) = "manifest"
         /\ NextStep(k, "manifest") = IF k = "remediation" THEN "db"
                                     ELSE IF k = "promotion" THEN "receipt" ELSE "verify"
         /\ NextStep(k, "db") = "verify"
BY DEF NextStep, Data

(* Which mode has which step.                                                 *)
HasStep(k, s) ==
    \/ s \in {"state", "hash"} /\ k \in {"remediation", "activity", "removal", "gaps"}
    \/ s = "state" /\ k = "reconcile"
    \/ s = "rehearsed" /\ k \in {"remediation", "macro"}
    \/ s \in {"rebuild", "db"} /\ k = "remediation"
    \/ s \in {"backup", "journal", "verify"} /\ k # "promotion"
    \/ s = "receipt" /\ k = "promotion"
    \/ s \in {TargetOf(k), "manifest"}
    \/ s = "read"

GoesOn(k, i) ==
    /\ HasStep(k, Program[k][i])
    /\ i > 1 => Program[k][i] # "read"
    /\ i > 1 /\ Program[k][i] \notin {"verify", "receipt"} =>
          /\ i + 1 \in DOMAIN Program[k]
          /\ Program[k][i + 1] = NextStep(k, Program[k][i])

LEMMA RemediationGoesOn == \A i \in DOMAIN Program["remediation"] : GoesOn("remediation", i)
BY DEF GoesOn, Program, Remediation, HasStep, NextStep, TargetOf, Data
LEMMA ActivityGoesOn == \A i \in DOMAIN Program["activity"] : GoesOn("activity", i)
BY DEF GoesOn, Program, Activity, HasStep, NextStep, TargetOf, Data
LEMMA RemovalGoesOn == \A i \in DOMAIN Program["removal"] : GoesOn("removal", i)
BY DEF GoesOn, Program, Removal, HasStep, NextStep, TargetOf, Data
LEMMA GapsGoOn == \A i \in DOMAIN Program["gaps"] : GoesOn("gaps", i)
BY DEF GoesOn, Program, Gaps, HasStep, NextStep, TargetOf, Data
LEMMA ReconcileGoesOn == \A i \in DOMAIN Program["reconcile"] : GoesOn("reconcile", i)
BY DEF GoesOn, Program, Reconcile, HasStep, NextStep, TargetOf, Data
LEMMA MacroGoesOn == \A i \in DOMAIN Program["macro"] : GoesOn("macro", i)
BY DEF GoesOn, Program, Macro, HasStep, NextStep, TargetOf, Data
LEMMA PromotionGoesOn == \A i \in DOMAIN Program["promotion"] : GoesOn("promotion", i)
BY DEF GoesOn, Program, Promotion, HasStep, NextStep, TargetOf, Data

LEMMA ProgramsGoOn ==
  ASSUME NEW k \in Modes, NEW i \in DOMAIN Program[k]
  PROVE  GoesOn(k, i)
BY ModesAre, RemediationGoesOn, ActivityGoesOn, RemovalGoesOn, GapsGoOn, ReconcileGoesOn,
   MacroGoesOn, PromotionGoesOn

FirstStep(k) ==
    CASE k = "remediation" -> "hash" [] k = "macro" -> "rehearsed" [] k = "reconcile" -> "backup"
      [] k = "promotion" -> "master" [] OTHER -> "state"

LEMMA ProgramsBegin ==
  ASSUME NEW k \in Modes
  PROVE  2 \in DOMAIN Program[k] /\ Program[k][2] = FirstStep(k)
<1>1. CASE k = "remediation" BY <1>1 DEF Program, Remediation, FirstStep
<1>2. CASE k = "activity" BY <1>2 DEF Program, Activity, FirstStep
<1>3. CASE k = "removal" BY <1>3 DEF Program, Removal, FirstStep
<1>4. CASE k = "gaps" BY <1>4 DEF Program, Gaps, FirstStep
<1>5. CASE k = "reconcile" BY <1>5 DEF Program, Reconcile, FirstStep
<1>6. CASE k = "macro" BY <1>6 DEF Program, Macro, FirstStep
<1>7. CASE k = "promotion" BY <1>7 DEF Program, Promotion, FirstStep
<1> QED
    BY <1>1, <1>2, <1>3, <1>4, <1>5, <1>6, <1>7, ModesAre

LEMMA TargetsAre ==
  ASSUME NEW k \in Modes
  PROVE  /\ TargetOf(k) \in Data
         /\ (TargetOf(k) = "master" <=> k = "promotion")
         /\ TargetOf(k) \notin {"manifest", "db"}
         /\ (k = "activity" => TargetOf(k) = "market")
         /\ (k \in {"removal", "gaps", "remediation"} => TargetOf(k) = "price")
BY ModesAre DEF TargetOf, Data
-----------------------------------------------------------------------------
(* What the run under way has in its hands.                                   *)
LEMMA AtWork ==
  ASSUME OneOffTypeOK, InProgress
  PROVE  /\ op.kind \in Modes /\ TargetFile \in Data /\ TargetFile \notin {"manifest", "db"}
         /\ (TargetFile = "master" <=> op.kind = "promotion")
         /\ (op.kind = "activity" => TargetFile = "market")
         /\ (op.kind \in {"removal", "gaps", "remediation"} => TargetFile = "price")
         /\ op.pre \in Snapshots
         /\ \A t \in Data : op.pre.file[t] \in Contents /\ op.pre.manifest[t] \in Contents
<1>1. op.kind \in Modes
    BY DEF OneOffTypeOK, Publishes, InProgress
<1> QED
    BY <1>1, TargetsAre DEF OneOffTypeOK, TargetFile, Snapshots, Stateds

LEMMA AtAStep ==
  ASSUME OneOffTypeOK, Forward
  PROVE  /\ InProgress /\ op.kind \in Modes /\ HasStep(op.kind, Step) /\ Step # "read"
         /\ (Step \notin {"verify", "receipt"} =>
                /\ op.at + 1 \in DOMAIN Program[op.kind] /\ op.at + 1 > 1
                /\ Program[op.kind][op.at + 1] = NextStep(op.kind, Step))
         /\ op.at \in Nat /\ op.stated \in Stateds /\ op.back = "no"
         /\ op.new \in Contents /\ op.db \in Contents
<1>1. InProgress /\ op.kind \in Modes /\ op.at \in DOMAIN Program[op.kind] /\ op.at > 1
    BY AtWork DEF Forward, OneOffTypeOK
<1>2. GoesOn(op.kind, op.at)
    BY <1>1, ProgramsGoOn
<1>3. op.at \in Nat /\ op.new \in Contents /\ op.db \in Contents
    BY DEF OneOffTypeOK, Publishes
<1> QED
    BY <1>1, <1>2, <1>3 DEF GoesOn, Step, Forward, OneOffTypeOK

LEMMA ProceedEffect ==
  ASSUME OneOffTypeOK, Forward, Step \notin {"verify", "receipt"},
         NEW o \in Publishes, o.kind = op.kind, o.at = op.at, o.back = "no", o.stated \in Stateds,
         o.pre \in Snapshots, Proceed(o)
  PROVE  /\ op' \in Publishes /\ op'.kind = op.kind /\ op'.new = o.new /\ op'.db = o.db
         /\ op'.stated = o.stated /\ op'.pre = o.pre /\ op'.back = "no"
         /\ InProgress' /\ Forward' /\ TargetFile' = TargetFile
         /\ op'.at \in DOMAIN Program[op'.kind] /\ op'.at > 1
         /\ Step' = NextStep(op.kind, Step)
<1>1. /\ op.kind \in Modes /\ op.at \in Nat /\ op.at + 1 > 1
      /\ op.at + 1 \in DOMAIN Program[op.kind]
      /\ Program[op.kind][op.at + 1] = NextStep(op.kind, Step)
    BY AtAStep
<1>2. /\ op' \in Publishes /\ op'.kind = o.kind /\ op'.new = o.new /\ op'.db = o.db
      /\ op'.stated = o.stated /\ op'.pre = o.pre /\ op'.back = o.back /\ op'.at = o.at + 1
    BY <1>1 DEF Proceed, Publishes
<1> QED
    BY <1>1, <1>2 DEF InProgress, Forward, TargetFile, Step

(* A step before the first replacement that only changes what the run has in  *)
(* its hands.                                                                 *)
LEMMA QuietStep ==
  ASSUME OneOffInv, Early \/ (Late /\ Step \in {"state", "journal"}), UnchangedFiles,
         UNCHANGED <<review, rehearsed, rows, journals>>, unseen => unseen',
         op' \in Publishes, op'.kind = op.kind, op'.back = "no", Forward',
         op'.pre \in Snapshots, op'.stated \in Stateds,
         op'.at \in DOMAIN Program[op'.kind], op'.at > 1,
         RowsAreNew', ~ unseen' => EarlyInv' /\ LateInv',
         Late' => Step' \in {"state", "journal"}
  PROVE  OneOffInv'
<1>1. OneOffTypeOK'
    BY DEF OneOffInv, OneOffTypeOK, UnchangedFiles
<1>2. RehearsedAsReviewed'
    BY DEF OneOffInv, RehearsedAsReviewed
<1>3. Early' \/ (Late' /\ Step' \in {"state", "journal"})
    BY DEF Early, Late
<1>4. BackInv' /\ file' = file /\ stated' = stated /\ rows' = rows
      /\ runtime' = runtime /\ wal' = wal
    BY DEF BackInv, Back, UnchangedFiles
<1>5. ASSUME ~ unseen'
      PROVE  NothingIsLost' /\ FilesAreBacked'
  <2>1. NothingIsLost'
      BY <1>4, <1>5 DEF OneOffInv, NothingIsLost, InDatabase
  <2>2. ASSUME NEW t \in Data \ {"master"}
        PROVE  (~ Unattested(t) \/ Logged(t))' /\ ~ MayBeTorn(t)'
    <3>1. ~ MayBeTorn(t) /\ ~ MayBeTorn(t)'
        BY <1>3 DEF MayBeTorn
    <3>2. ~ Unattested(t) \/ Logged(t)
        BY <1>5, <3>1 DEF OneOffInv, FilesAreBacked
    <3> QED
        BY <1>4, <3>1, <3>2 DEF Unattested, Logged
  <2> QED
      BY <2>1, <2>2 DEF FilesAreBacked
<1> QED
    BY <1>1, <1>2, <1>4, <1>5 DEF OneOffInv

(* The end of a run that leaves no file torn without a journal.               *)
LEMMA StopKeeps ==
  ASSUME OneOffInv, InProgress, Stop, UnchangedFiles, UnchangedOther,
         ~ unseen => \A t \in Data \ {"master"} : ~ Unattested(t) \/ Logged(t)'
  PROVE  OneOffInv'
<1>1. op' = NoPublish /\ NoPublish \in Publishes /\ NoPublish.kind = NoMode
  <2>1. <<>> \in Seq(Data \cup {"manifest", "db"})
      BY EmptySeq
  <2> QED
      BY <2>1 DEF Stop, NoPublish, Publishes, Contents
<1>2. ~ InProgress' /\ ~ Forward' /\ ~ Early' /\ ~ Late' /\ ~ Back'
    BY <1>1 DEF InProgress, Forward, Early, Late, Back
<1>3. /\ unseen' = unseen /\ file' = file /\ stated' = stated /\ rows' = rows
      /\ runtime' = runtime /\ wal' = wal /\ review' = review /\ rehearsed' = rehearsed
    BY DEF UnchangedOther, UnchangedFiles
<1>4. OneOffTypeOK'
    BY <1>1, <1>2, <1>3 DEF OneOffInv, OneOffTypeOK
<1>5. RowsAreNew' /\ RehearsedAsReviewed'
    BY <1>2, <1>3 DEF OneOffInv, RowsAreNew, SnapshotIsOlder, State, RehearsedAsReviewed
<1>6. EarlyInv' /\ LateInv' /\ BackInv'
    BY <1>2 DEF EarlyInv, LateInv, BackInv
<1>7. ASSUME ~ unseen
      PROVE  NothingIsLost' /\ FilesAreBacked'
  <2>1. NothingIsLost'
      BY <1>3, <1>7 DEF OneOffInv, NothingIsLost, InDatabase
  <2>2. ASSUME NEW t \in Data \ {"master"}
        PROVE  (~ Unattested(t) \/ Logged(t))' /\ ~ MayBeTorn(t)'
      BY <1>2, <1>3, <1>7 DEF MayBeTorn, Unattested
  <2> QED
      BY <2>1, <2>2 DEF FilesAreBacked
<1> QED
    BY <1>3, <1>4, <1>5, <1>6, <1>7 DEF OneOffInv

(* An error, or a kill, before anything was replaced, or with a journal.      *)
LEMMA StopEarly ==
  ASSUME OneOffInv, InProgress, Stop, UnchangedFiles, UnchangedOther, UNCHANGED journals
  PROVE  OneOffInv'
<1>1. ASSUME ~ unseen, NEW t \in Data \ {"master"}
      PROVE  ~ Unattested(t) \/ Logged(t)'
  <2>1. ~ Unattested(t) \/ Logged(t)
      BY <1>1 DEF OneOffInv, FilesAreBacked
  <2> QED
      BY <2>1 DEF Logged
<1> QED
    BY <1>1, StopKeeps

(* From the first replacement on, a run that fails takes everything back.     *)
LEMMA TakeBackKeeps ==
  ASSUME OneOffInv, Late, Step \notin {"state", "journal"}, TakeBack, UnchangedFiles,
         UnchangedOther, UNCHANGED journals
  PROVE  OneOffInv'
<1>1. /\ InProgress /\ op.kind \in Modes /\ op.pre \in Snapshots /\ TargetFile \in Data
      /\ TargetFile \notin {"manifest", "db"} /\ ~ Early
    BY AtWork DEF OneOffInv, Late, Forward, Early
<1>2. Undo(op.kind) \in Seq(Touched(op.kind)) /\ Undo(op.kind) \in Seq(Data \cup {"manifest", "db"})
  <2>1. /\ TargetFile \in Touched(op.kind) /\ "manifest" \in Touched(op.kind)
        /\ op.kind \in {"remediation", "activity"} => "db" \in Touched(op.kind)
        /\ Touched(op.kind) \subseteq Data \cup {"manifest", "db"}
      BY <1>1 DEF Touched, Touches, TargetFile
  <2>2. \/ Undo(op.kind) = <<TargetFile, "manifest", "db">> /\ "db" \in Touched(op.kind)
        \/ Undo(op.kind) = <<TargetFile, "manifest">>
      BY <1>1, <2>1, ModesAre, AtWork DEF Undo, TargetFile, OneOffInv
  <2>3. ASSUME NEW S, TargetFile \in S, "manifest" \in S
        PROVE  /\ <<TargetFile, "manifest">> \in Seq(S)
               /\ "db" \in S => <<TargetFile, "manifest", "db">> \in Seq(S)
      BY <2>3
  <2>4. /\ <<TargetFile, "manifest">> \in Seq(Touched(op.kind))
        /\ "db" \in Touched(op.kind) =>
              <<TargetFile, "manifest", "db">> \in Seq(Touched(op.kind))
      BY <2>1, <2>3
  <2>5. /\ <<TargetFile, "manifest">> \in Seq(Data \cup {"manifest", "db"})
        /\ <<TargetFile, "manifest", "db">> \in Seq(Data \cup {"manifest", "db"})
      BY <1>1, <2>3
  <2> QED
      BY ONLY <2>2, <2>4, <2>5
<1>3. /\ op' \in Publishes /\ op'.kind = op.kind /\ op'.pre = op.pre /\ op'.back = "clean"
      /\ op'.undo = Undo(op.kind)
  <2>1. /\ NoPublish = [kind |-> NoMode, at |-> 0, new |-> {}, stated |-> NoMode, db |-> {},
                        pre |-> NoMode, undo |-> <<>>, back |-> "no"]
      BY DEF NoPublish
  <2> QED
      BY <1>1, <1>2, <2>1 DEF TakeBack, Publishes, Contents
<1>4. /\ InProgress' /\ ~ Forward' /\ ~ Early' /\ ~ Late' /\ Back' /\ TargetFile' = TargetFile
    BY <1>1, <1>3 DEF InProgress, Forward, Early, Late, Back, TargetFile
<1>5. /\ unseen' = unseen /\ file' = file /\ stated' = stated /\ rows' = rows
      /\ runtime' = runtime /\ wal' = wal /\ review' = review /\ rehearsed' = rehearsed
    BY DEF UnchangedOther, UnchangedFiles
<1>6. OneOffTypeOK'
    BY <1>1, <1>2, <1>3, <1>4, <1>5 DEF OneOffInv, OneOffTypeOK
<1>7. RowsAreNew' /\ RehearsedAsReviewed'
    BY <1>1, <1>3, <1>4, <1>5
       DEF OneOffInv, RowsAreNew, SnapshotIsOlder, State, RehearsedAsReviewed
<1>8. ASSUME ~ unseen
      PROVE  EarlyInv' /\ LateInv' /\ BackInv' /\ NothingIsLost' /\ FilesAreBacked'
  <2>1. EarlyInv' /\ LateInv'
      BY <1>4 DEF EarlyInv, LateInv
  <2>2. OthersStay /\ PreHasRows
      BY <1>8 DEF OneOffInv, LateInv
  <2>3. BackInv'
      BY <1>3, <1>4, <1>5, <2>2 DEF BackInv, OthersStay, PreHasRows
  <2>4. NothingIsLost'
      BY <1>5, <1>8 DEF OneOffInv, NothingIsLost, InDatabase
  <2>5. ASSUME NEW t \in Data \ {"master"}
        PROVE  (MayBeTorn(t)' <=> MayBeTorn(t)) /\ (Unattested(t)' <=> Unattested(t))
               /\ (Logged(t)' <=> Logged(t))
      BY <1>1, <1>4, <1>5 DEF MayBeTorn, Unattested, Logged
  <2>6. FilesAreBacked'
      BY <1>8, <2>5 DEF OneOffInv, FilesAreBacked
  <2> QED
      BY <2>1, <2>3, <2>4, <2>6
<1> QED
    BY <1>5, <1>6, <1>7, <1>8 DEF OneOffInv
-----------------------------------------------------------------------------
(* Every action keeps the invariant.                                          *)
LEMMA OneOffStart ==
  OneOffInit => OneOffInv
<1> SUFFICES ASSUME OneOffInit PROVE OneOffInv
    OBVIOUS
<1>1. /\ file \in Stateds /\ stated = file /\ runtime = {} /\ rows = {}
      /\ \A t \in Data : "row" \notin file[t]
  <2>1. file = [t \in Data |-> IF t = "price" THEN {"Sunday"}
                              ELSE IF t = "market" THEN {"absent"} ELSE {}]
      BY DEF OneOffInit, Absent
  <2> QED
      BY <2>1 DEF OneOffInit, Stateds, Contents, Changes
<1>2. op = NoPublish /\ NoPublish \in Publishes /\ NoPublish.kind = NoMode
  <2>1. <<>> \in Seq(Data \cup {"manifest", "db"})
      BY EmptySeq
  <2> QED
      BY <2>1 DEF OneOffInit, NoPublish, Publishes, Contents
<1>3. ~ InProgress /\ ~ Forward /\ ~ Early /\ ~ Late /\ ~ Back
    BY <1>2 DEF InProgress, Forward, Early, Late, Back
<1>4. OneOffTypeOK
    BY <1>1, <1>2, <1>3 DEF OneOffTypeOK, OneOffInit, Contents
<1>5. RowsAreNew /\ RehearsedAsReviewed
  <2>1. RowsAreNew
      BY <1>1, <1>3 DEF RowsAreNew, SnapshotIsOlder, State
  <2>2. rehearsed["remediation"] = NoMode
      BY ModesAre DEF OneOffInit
  <2> QED
      BY <2>1, <2>2 DEF RehearsedAsReviewed
<1>6. EarlyInv /\ LateInv /\ BackInv
    BY <1>3 DEF EarlyInv, LateInv, BackInv
<1>7. FilesAreBacked /\ NothingIsLost
    BY <1>1, <1>3 DEF FilesAreBacked, MayBeTorn, Unattested, NothingIsLost, InDatabase
<1> QED
    BY <1>4, <1>5, <1>6, <1>7 DEF OneOffInv

(* A step between two runs that changes neither files nor journals.           *)
LEMMA AtRestKeeps ==
  ASSUME OneOffInv, ~ InProgress, UnchangedFiles, UNCHANGED <<op, journals, rows, unseen>>,
         DOMAIN review' = Modes, DOMAIN rehearsed' = Modes, RehearsedAsReviewed'
  PROVE  OneOffInv'
<1>1. ~ InProgress' /\ ~ Forward' /\ ~ Early' /\ ~ Late' /\ ~ Back'
    BY DEF InProgress, Forward, Early, Late, Back
<1>2. OneOffTypeOK'
    BY <1>1 DEF OneOffInv, OneOffTypeOK, UnchangedFiles
<1>3. RowsAreNew'
    BY <1>1 DEF OneOffInv, RowsAreNew, SnapshotIsOlder, State, UnchangedFiles
<1>4. EarlyInv' /\ LateInv' /\ BackInv'
    BY <1>1 DEF EarlyInv, LateInv, BackInv
<1>5. ASSUME ~ unseen
      PROVE  FilesAreBacked' /\ NothingIsLost'
    BY <1>1, <1>5
       DEF OneOffInv, FilesAreBacked, MayBeTorn, Unattested, Logged, NothingIsLost, InDatabase,
           UnchangedFiles
<1> QED
    BY <1>2, <1>3, <1>4, <1>5 DEF OneOffInv

LEMMA ReviewKeeps ==
  ASSUME OneOffInv, NEW k \in Modes, Review(k)
  PROVE  OneOffInv'
<1>1. ~ InProgress /\ DOMAIN review' = Modes /\ rehearsed' = rehearsed /\ review[k] = NoMode
    BY DEF Review, MayBegin, OneOffInv, OneOffTypeOK
<1>2. \A m \in Modes \ {k} : review'[m] = review[m]
    BY DEF Review, OneOffInv, OneOffTypeOK
<1>3. RehearsedAsReviewed'
    BY <1>1, <1>2, ModesAre DEF OneOffInv, RehearsedAsReviewed
<1>4. DOMAIN rehearsed' = Modes
    BY <1>1 DEF OneOffInv, OneOffTypeOK
<1> QED
    BY <1>1, <1>3, <1>4, AtRestKeeps DEF Review

LEMMA RehearseKeeps ==
  ASSUME OneOffInv, NEW k \in Modes, Rehearse(k)
  PROVE  OneOffInv'
<1>1. ~ InProgress /\ DOMAIN rehearsed' = Modes /\ review' = review
    BY DEF Rehearse, MayBegin, OneOffInv, OneOffTypeOK
<1>2. RehearsedAsReviewed'
  <2>1. CASE k = "remediation"
    <3>1. Reviewed("remediation")
        BY <2>1 DEF Rehearse, May, MayRemediate
    <3>2. review["remediation"] # NoMode /\ file["price"] = review["remediation"].file
        BY <3>1 DEF Reviewed, SourceOf, TargetOf
    <3>3. rehearsed'["remediation"] = Hashed("remediation", State)
        BY <2>1, ModesAre DEF Rehearse, OneOffInv, OneOffTypeOK
    <3>4. Hashed("remediation", State)[1] = file["price"]
        BY DEF Hashed, State, TargetOf
    <3> QED
        BY <1>1, <3>2, <3>3, <3>4 DEF RehearsedAsReviewed
  <2>2. CASE k # "remediation"
    <3>1. rehearsed'["remediation"] = rehearsed["remediation"]
        BY <2>2, ModesAre DEF Rehearse, OneOffInv, OneOffTypeOK
    <3> QED
        BY <1>1, <3>1 DEF OneOffInv, RehearsedAsReviewed
  <2> QED
      BY <2>1, <2>2
<1>3. DOMAIN review' = Modes
    BY <1>1 DEF OneOffInv, OneOffTypeOK
<1> QED
    BY <1>1, <1>2, <1>3, AtRestKeeps DEF Rehearse

(* A run begins.                                                              *)
LEMMA ReadEffect ==
  ASSUME OneOffInv, NEW k \in Modes, ReadFormal(k)
  PROVE  /\ op' \in Publishes /\ op'.kind = k /\ op'.at = 2 /\ op'.new = NewContent(k)
         /\ op'.stated = Stated(k, NewContent(k)) /\ op'.db = {} /\ op'.pre = State
         /\ op'.back = "no" /\ State \in Snapshots /\ op'.stated \in Stateds
         /\ State.file = file /\ State.manifest = stated /\ State.db = runtime
         /\ TargetOf(k) \in Data
         /\ NewContent(k) = NewOf(k, file[TargetOf(k)]) /\ NewContent(k) \in Contents
<1>1. /\ file \in Stateds /\ stated \in Stateds /\ runtime \in Contents
    BY DEF OneOffInv, OneOffTypeOK
<1>2. TargetOf(k) \in Data /\ (k \in {"removal", "gaps", "remediation"} => TargetOf(k) = "price")
    BY TargetsAre
<1>3. NewContent(k) = NewOf(k, file[TargetOf(k)])
    BY <1>2 DEF NewContent, NewOf
<1>4. NewOf(k, file[TargetOf(k)]) \in Contents
    BY <1>1, <1>2, ModesAre DEF NewOf, Contents, Changes, Stateds
<1>5. State \in Snapshots /\ State.file = file /\ State.manifest = stated /\ State.db = runtime
    BY <1>1 DEF State, Snapshots
<1>6. Stated(k, NewContent(k)) \in Stateds
    BY <1>1, <1>3, <1>4 DEF Stated, Stateds
<1>7. <<>> \in Seq(Data \cup {"manifest", "db"})
    BY EmptySeq
<1>8. /\ op' \in Publishes /\ op'.kind = k /\ op'.at = 2 /\ op'.new = NewContent(k)
      /\ op'.stated = Stated(k, NewContent(k)) /\ op'.db = {} /\ op'.pre = State
      /\ op'.back = "no"
  <2>1. NoPublish = [kind |-> NoMode, at |-> 0, new |-> {}, stated |-> NoMode, db |-> {},
                     pre |-> NoMode, undo |-> <<>>, back |-> "no"]
      BY DEF NoPublish
  <2>2. {} \in Contents
      BY DEF Contents
  <2> QED
      BY <1>3, <1>4, <1>5, <1>6, <1>7, <2>1, <2>2 DEF ReadFormal, Publishes
<1> QED
    BY <1>2, <1>3, <1>4, <1>5, <1>6, <1>8

LEMMA ReadKeeps ==
  ASSUME OneOffInv, NEW k \in Modes, ReadFormal(k)
  PROVE  OneOffInv'
<1>1. /\ op' \in Publishes /\ op'.kind = k /\ op'.at = 2 /\ op'.new = NewContent(k)
      /\ op'.stated = Stated(k, NewContent(k)) /\ op'.db = {} /\ op'.pre = State
      /\ op'.back = "no" /\ State \in Snapshots /\ op'.stated \in Stateds
      /\ State.file = file /\ State.manifest = stated /\ State.db = runtime
      /\ TargetOf(k) \in Data
      /\ NewContent(k) = NewOf(k, file[TargetOf(k)]) /\ NewContent(k) \in Contents
    BY ReadEffect
<1>2. k # NoMode
    BY NoModeIsNone, ModesAre
<1>3. /\ InProgress' /\ Forward' /\ ~ Back' /\ TargetFile' = TargetOf(k)
      /\ 2 \in DOMAIN Program[k] /\ Step' = FirstStep(k)
    BY <1>1, <1>2, ProgramsBegin DEF InProgress, Forward, Back, TargetFile, Step
<1>4. /\ ~ InProgress /\ May(k) /\ unseen' = unseen /\ file' = file /\ stated' = stated
      /\ rows' = rows /\ runtime' = runtime /\ wal' = wal /\ review' = review /\ rehearsed' = rehearsed
      /\ journals' = journals
    BY DEF ReadFormal, MayBegin, UnchangedFiles
<1>5. OneOffTypeOK'
    BY <1>1, <1>3, <1>4 DEF OneOffInv, OneOffTypeOK
<1>6. /\ \A t \in Data : op'.stated[t] = IF t = TargetOf(k) THEN NewContent(k) ELSE stated[t]
      /\ stated \in Stateds
    BY <1>1 DEF Stated, OneOffInv, OneOffTypeOK, Stateds
<1>7. RowsAreNew'
  <2>1. SnapshotIsOlder(State)
      BY DEF OneOffInv, RowsAreNew
  <2>2. TargetOf(k) \notin rows => "row" \notin file[TargetOf(k)]
      BY <1>1, <2>1 DEF SnapshotIsOlder
  <2>3. TargetOf(k) \notin rows => "row" \notin NewContent(k)
      BY <1>1, <2>2, ModesAre DEF NewOf
  <2>4. \A t \in Data \ rows : "row" \notin op'.stated[t]
      BY <1>1, <1>6, <2>1, <2>3 DEF SnapshotIsOlder
  <2>5. SnapshotIsOlder(State)' /\ SnapshotIsOlder(op.pre)'
      BY <1>1, <1>4, <2>1 DEF SnapshotIsOlder, State
  <2> QED
      BY <1>1, <1>3, <1>4, <2>3, <2>4, <2>5 DEF RowsAreNew
<1>8. RehearsedAsReviewed'
    BY <1>4 DEF OneOffInv, RehearsedAsReviewed
<1>9. ASSUME ~ unseen
      PROVE  EarlyInv' /\ LateInv' /\ BackInv' /\ FilesAreBacked' /\ NothingIsLost'
  <2>1. BackInv'
      BY <1>3 DEF BackInv
  <2>2. NothingIsLost' /\ NothingIsLost
      BY <1>4, <1>9 DEF OneOffInv, NothingIsLost, InDatabase
  <2>3. StatesNow' /\ OthersStay'
      BY <1>1, <1>3, <1>4, <1>6 DEF StatesNow, OthersStay
  <2>4. (Early' <=> k # "promotion") /\ (Late' <=> k = "promotion")
      BY <1>1, <1>3, ModesAre DEF Early, Late, EarlySteps, FirstStep
  <2>5. EarlyInv'
    <3>1. k = "remediation" =>
             /\ review["remediation"] # NoMode
             /\ NewContent(k) = review["remediation"].file \cup {"remediation"}
        BY <1>1, <1>4 DEF May, MayRemediate, Reviewed, SourceOf, NewOf, TargetOf
    <3>2. k = "activity" => file["market"] = Absent
        BY <1>4 DEF May, MayCreateActivity
    <3>3. k \in {"removal", "gaps"} => TargetOf(k) = "price"
        BY TargetsAre
    <3>4. Step' = "backup" => k # "remediation"
        BY <1>3 DEF FirstStep
    <3> QED
        BY <1>1, <1>3, <1>4, <2>3, <3>1, <3>2, <3>3, <3>4 DEF EarlyInv
  <2>6. LateInv'
    <3> SUFFICES ASSUME k = "promotion" PROVE LateInv'
        BY <2>4 DEF LateInv
    <3>1. TargetOf(k) \in rows => "row" \in file[TargetOf(k)]
        BY <1>1, <1>9, <2>2 DEF NothingIsLost, InDatabase, Data
    <3>2. PreHasRows'
        BY <1>1, <1>3, <1>4, <3>1 DEF PreHasRows
    <3>3. TargetFile' \in rows' => "row" \in op'.new
        BY <1>1, <1>3, <1>4, <3>1 DEF NewOf
    <3>4. Step' = "master"
        BY <1>3 DEF FirstStep
    <3> QED
        BY <1>1, <2>3, <3>2, <3>3, <3>4 DEF LateInv
  <2>7. FilesAreBacked'
    <3>1. ASSUME NEW t \in Data \ {"master"}
          PROVE  ~ MayBeTorn(t)' /\ (~ Unattested(t) \/ Logged(t))'
      <4>1. ~ MayBeTorn(t)
          BY <1>4 DEF MayBeTorn
      <4>2. ~ Unattested(t) \/ Logged(t)
          BY <1>9, <4>1 DEF OneOffInv, FilesAreBacked
      <4>3. ~ MayBeTorn(t)'
          BY <1>3, <2>4, TargetsAre DEF MayBeTorn
      <4> QED
          BY <1>4, <4>2, <4>3 DEF Unattested, Logged
    <3> QED
        BY <3>1 DEF FilesAreBacked
  <2> QED
      BY <2>1, <2>2, <2>5, <2>6, <2>7
<1> QED
    BY <1>4, <1>5, <1>7, <1>8, <1>9 DEF OneOffInv

LEMMA HashKeeps ==
  ASSUME OneOffInv, Hash
  PROVE  OneOffInv'
<1>1. /\ Forward /\ Step = "hash" /\ OneOffTypeOK /\ Proceed([op EXCEPT !.pre = State])
      /\ UnchangedFiles /\ UnchangedOther /\ UNCHANGED journals
    BY DEF Hash, AtStep, OneOffInv
<1>2. /\ InProgress /\ op.kind \in Modes /\ HasStep(op.kind, "hash") /\ op.stated \in Stateds
      /\ op.back = "no"
    BY <1>1, AtAStep
<1>3. op.kind \in {"remediation", "activity", "removal", "gaps"}
    BY <1>2, ModesAre DEF HasStep, TargetOf
<1>4. State \in Snapshots /\ State.file = file /\ State.manifest = stated /\ State.db = runtime
    BY <1>1 DEF State, Snapshots, OneOffTypeOK
<1>5. PICK o : o = [op EXCEPT !.pre = State]
    OBVIOUS
<1>6. /\ o \in Publishes /\ o.kind = op.kind /\ o.at = op.at /\ o.new = op.new
      /\ o.stated = op.stated /\ o.db = op.db /\ o.pre = State /\ o.back = op.back
    BY <1>1, <1>4, <1>5 DEF OneOffTypeOK, Publishes
<1>7. /\ op' \in Publishes /\ op'.kind = op.kind /\ op'.new = op.new /\ op'.db = op.db
      /\ op'.stated = op.stated /\ op'.pre = State /\ op'.back = "no"
      /\ InProgress' /\ Forward' /\ TargetFile' = TargetFile
      /\ op'.at \in DOMAIN Program[op'.kind] /\ op'.at > 1
      /\ Step' = NextStep(op.kind, Step)
  <2>1. Proceed(o)
      BY <1>1, <1>5
  <2> QED
      BY <1>1, <1>2, <1>4, <1>6, <2>1, ProceedEffect
<1>8. /\ Early /\ Step' = IF op.kind = "remediation" THEN "rehearsed" ELSE "backup"
    BY <1>1, <1>7, NextStepsAre DEF Early, EarlySteps
<1>9. Early' /\ ~ Late'
    BY <1>3, <1>7, <1>8 DEF Early, Late, EarlySteps
<1>10. unseen' = unseen /\ file' = file /\ stated' = stated /\ rows' = rows
       /\ runtime' = runtime /\ wal' = wal /\ review' = review
    BY <1>1 DEF UnchangedFiles, UnchangedOther
<1>11. RowsAreNew'
    BY <1>1, <1>2, <1>4, <1>7, <1>10 DEF OneOffInv, RowsAreNew, SnapshotIsOlder, State
<1>12. ASSUME ~ unseen
       PROVE  EarlyInv' /\ LateInv'
  <2>1. EarlyInv
      BY <1>12 DEF OneOffInv
  <2>2. op.kind \in {"removal", "gaps"} => TargetFile = "price"
      BY <1>1, <1>2, AtWork
  <2>3. op.new = NewOf(op.kind, op.pre.file[TargetFile])
      BY <1>1, <1>8, <2>1 DEF EarlyInv
  <2>4. op.kind # "remediation" => op.new = NewOf(op.kind, file[TargetFile])
      BY <1>1, <1>3, <1>8, <2>1, <2>2, <2>3 DEF EarlyInv, NewOf
  <2>5. op.kind # "remediation" => StatesNow /\ StatesNow'
      BY <1>1, <1>7, <1>8, <1>10, <2>1 DEF EarlyInv, StatesNow
  <2> QED
      BY <1>1, <1>3, <1>4, <1>7, <1>8, <1>9, <1>10, <2>1, <2>4, <2>5 DEF EarlyInv, LateInv
<1> QED
    BY <1>1, <1>2, <1>4, <1>7, <1>8, <1>9, <1>11, <1>12, QuietStep DEF UnchangedOther

LEMMA RehearsalKeeps ==
  ASSUME OneOffInv, AskRehearsal
  PROVE  OneOffInv'
<1>1. /\ Forward /\ Step = "rehearsed" /\ OneOffTypeOK
      /\ UnchangedFiles /\ UnchangedOther /\ UNCHANGED journals
    BY DEF AskRehearsal, AtStep, OneOffInv
<1>2. /\ InProgress /\ op.kind \in Modes /\ HasStep(op.kind, "rehearsed")
      /\ op.stated \in Stateds /\ op.back = "no"
    BY <1>1, AtAStep
<1>3. op.kind \in {"remediation", "macro"} /\ op.pre \in Snapshots /\ op \in Publishes
      /\ (op.kind = "remediation" => TargetFile = "price")
    BY <1>1, <1>2, AtWork, TargetsAre DEF HasStep, Data, OneOffTypeOK
<1>4. CASE Stop
    BY <1>1, <1>2, <1>4, StopEarly
<1>5. CASE ~ Stop
  <2>1. /\ Proceed(op) /\ rehearsed[op.kind] # NoMode
        /\ op.kind = "remediation" => rehearsed[op.kind] = Hashed(op.kind, op.pre)
      BY <1>5 DEF AskRehearsal
  <2>2. /\ op' \in Publishes /\ op'.kind = op.kind /\ op'.new = op.new /\ op'.db = op.db
        /\ op'.stated = op.stated /\ op'.pre = op.pre /\ op'.back = "no"
        /\ InProgress' /\ Forward' /\ TargetFile' = TargetFile
        /\ op'.at \in DOMAIN Program[op'.kind] /\ op'.at > 1
        /\ Step' = NextStep(op.kind, Step)
      BY <1>1, <1>2, <1>3, <2>1, ProceedEffect
  <2>3. /\ Early /\ Step' = IF op.kind = "remediation" THEN "state" ELSE "backup"
      BY <1>1, <2>2, NextStepsAre DEF Early, EarlySteps
  <2>4. Early' /\ ~ Late'
      BY <1>3, <2>2, <2>3 DEF Early, Late, EarlySteps
  <2>5. unseen' = unseen /\ file' = file /\ stated' = stated /\ rows' = rows
        /\ runtime' = runtime /\ wal' = wal /\ review' = review
      BY <1>1 DEF UnchangedFiles, UnchangedOther
  <2>6. RowsAreNew'
      BY <1>1, <1>2, <2>2, <2>5 DEF OneOffInv, RowsAreNew, SnapshotIsOlder, State
  <2>7. ASSUME ~ unseen
        PROVE  EarlyInv' /\ LateInv'
    <3>1. EarlyInv
        BY <2>7 DEF OneOffInv
    <3>2. op.new = NewOf(op.kind, op.pre.file[TargetFile])
      <4>1. CASE op.kind = "remediation"
        <5>1. Hashed("remediation", op.pre)[1] = op.pre.file["price"]
            BY DEF Hashed, TargetOf
        <5>2. rehearsed["remediation"][1] = review["remediation"].file
            BY <2>1, <4>1 DEF OneOffInv, RehearsedAsReviewed
        <5>3. op.new = review["remediation"].file \cup {"remediation"}
            BY <2>3, <3>1, <4>1 DEF EarlyInv
        <5> QED
            BY <1>3, <2>1, <4>1, <5>1, <5>2, <5>3 DEF NewOf
      <4>2. CASE op.kind = "macro"
          BY <2>3, <3>1, <4>2 DEF EarlyInv
      <4> QED
          BY <1>3, <4>1, <4>2
    <3>3. op.kind = "macro" => (Seen \/ StatesNow) /\ (Seen \/ StatesNow)'
        BY <2>2, <2>3, <2>5, <3>1 DEF EarlyInv, Seen, StatesNow
    <3> QED
        BY <1>3, <2>2, <2>3, <2>4, <2>5, <3>1, <3>2, <3>3 DEF EarlyInv, LateInv
  <2> QED
      BY <1>1, <1>2, <1>3, <2>2, <2>3, <2>4, <2>6, <2>7, QuietStep DEF UnchangedOther
<1> QED
    BY <1>4, <1>5

LEMMA StateKeeps ==
  ASSUME OneOffInv, StateManifest
  PROVE  OneOffInv'
<1>1. /\ Forward /\ Step = "state" /\ OneOffTypeOK
      /\ UnchangedFiles /\ UnchangedOther /\ UNCHANGED journals
    BY DEF StateManifest, AtStep, OneOffInv
<1>2. /\ InProgress /\ op.kind \in Modes /\ HasStep(op.kind, "state")
      /\ op.back = "no" /\ op.new \in Contents
    BY <1>1, AtAStep
<1>3. /\ op.kind \in {"remediation", "activity", "removal", "gaps", "reconcile"}
      /\ op.pre \in Snapshots /\ TargetFile \in Data /\ stated \in Stateds
      /\ (op.kind \in {"removal", "gaps"} => TargetFile = "price")
    BY <1>1, <1>2, AtWork, TargetsAre, ModesAre DEF HasStep, Data, OneOffTypeOK
<1>4. CASE Stop
    BY <1>1, <1>2, <1>4, StopEarly
<1>5. CASE ~ Stop
  <2>1. PICK o : o = [op EXCEPT !.stated = Stated(op.kind, op.new)]
      OBVIOUS
  <2>2. /\ Stated(op.kind, op.new) \in Stateds
        /\ \A t \in Data : Stated(op.kind, op.new)[t] = IF t = TargetFile THEN op.new ELSE stated[t]
      BY <1>2, <1>3 DEF Stated, Stateds, TargetFile
  <2>3. /\ o \in Publishes /\ o.kind = op.kind /\ o.at = op.at /\ o.new = op.new
        /\ o.stated = Stated(op.kind, op.new) /\ o.db = op.db /\ o.pre = op.pre /\ o.back = op.back
    <3> QED
        BY <1>1, <2>1, <2>2 DEF OneOffTypeOK, Publishes
  <2>4. /\ op' \in Publishes /\ op'.kind = op.kind /\ op'.new = op.new /\ op'.db = op.db
        /\ op'.stated = Stated(op.kind, op.new) /\ op'.pre = op.pre /\ op'.back = "no"
        /\ InProgress' /\ Forward' /\ TargetFile' = TargetFile
        /\ op'.at \in DOMAIN Program[op'.kind] /\ op'.at > 1
        /\ Step' = NextStep(op.kind, Step)
    <3>1. Proceed(o)
        BY <1>5, <2>1 DEF StateManifest
    <3> QED
        BY <1>1, <1>2, <1>3, <2>2, <2>3, <3>1, ProceedEffect
  <2>5. Step' = IF op.kind = "remediation" THEN "rebuild"
                ELSE IF op.kind = "reconcile" THEN "journal" ELSE "hash"
      BY <1>1, <2>4, NextStepsAre
  <2>6. IF op.kind = "reconcile" THEN Late /\ Late' /\ ~ Early' ELSE Early /\ Early' /\ ~ Late'
      BY <1>1, <1>3, <2>4, <2>5 DEF Early, Late, EarlySteps
  <2>7. unseen' = unseen /\ file' = file /\ stated' = stated /\ rows' = rows
        /\ runtime' = runtime /\ wal' = wal /\ review' = review
      BY <1>1 DEF UnchangedFiles, UnchangedOther
  <2>8. StatesNow'
      BY <2>2, <2>4, <2>7 DEF StatesNow
  <2>9. RowsAreNew'
    <3>1. \A t \in Data \ rows : "row" \notin op'.stated[t]
        BY <1>1, <2>2, <2>4 DEF OneOffInv, RowsAreNew, SnapshotIsOlder, State
    <3>2. SnapshotIsOlder(State)' /\ SnapshotIsOlder(op.pre)'
        BY <1>2, <2>4, <2>7 DEF OneOffInv, RowsAreNew, SnapshotIsOlder, State
    <3> QED
        BY <1>1, <2>4, <2>7, <3>1, <3>2 DEF OneOffInv, RowsAreNew
  <2>10. ASSUME ~ unseen
         PROVE  EarlyInv' /\ LateInv'
    <3>1. EarlyInv /\ LateInv
        BY <2>10 DEF OneOffInv
    <3>2. CASE op.kind = "reconcile"
      <4>1. Late
          BY <2>6, <3>2
      <4>2. OthersStay' /\ PreHasRows'
          BY <2>4, <2>7, <3>1, <4>1 DEF LateInv, OthersStay, PreHasRows
      <4>3. /\ TargetFile \in rows => "row" \in op.new
            /\ file[TargetFile] = op.pre.file[TargetFile]
            /\ stated[TargetFile] = op.pre.manifest[TargetFile]
          BY <1>1, <3>1, <4>1 DEF LateInv
      <4> QED
          BY <2>4, <2>6, <2>7, <2>8, <3>2, <4>2, <4>3 DEF LateInv, EarlyInv
    <3>3. CASE op.kind # "reconcile"
      <4>1. Early
          BY <2>6, <3>3
      <4>2. op.new = NewOf(op.kind, op.pre.file[TargetFile])
          BY <1>1, <3>1, <4>1 DEF EarlyInv
      <4> QED
          BY <1>1, <1>3, <2>4, <2>5, <2>6, <2>7, <2>8, <3>1, <3>3, <4>1, <4>2 DEF EarlyInv, LateInv
    <3> QED
        BY <3>2, <3>3
  <2>11. (Early \/ (Late /\ Step \in {"state", "journal"}))
         /\ (Late' => Step' \in {"state", "journal"})
      BY <1>1, <2>5, <2>6
  <2> QED
      BY <1>1, <1>3, <2>2, <2>4, <2>9, <2>10, <2>11, QuietStep DEF UnchangedOther
<1> QED
    BY <1>4, <1>5

LEMMA RebuildKeeps ==
  ASSUME OneOffInv, OutsideIsNew, RebuildDatabase
  PROVE  OneOffInv'
<1>1. /\ Forward /\ Step = "rebuild" /\ OneOffTypeOK
      /\ UnchangedFiles /\ UnchangedOther /\ UNCHANGED journals
    BY DEF RebuildDatabase, AtStep, OneOffInv
<1>2. /\ InProgress /\ op.kind \in Modes /\ HasStep(op.kind, "rebuild")
      /\ op.stated \in Stateds /\ op.back = "no"
    BY <1>1, AtAStep
<1>3. op.kind = "remediation" /\ op.pre \in Snapshots /\ op \in Publishes
    BY <1>1, <1>2, AtWork, TargetsAre DEF HasStep, Data, OneOffTypeOK
<1>4. CASE Stop
    BY <1>1, <1>2, <1>4, StopEarly
<1>5. CASE ~ Stop
  <2>1. PICK o : o = [op EXCEPT !.db = InDatabase \cup {"rebuilt"}]
      OBVIOUS
  <2>2. InDatabase \cup {"rebuilt"} \in Contents
      BY <1>1 DEF OneOffTypeOK, OutsideIsNew, InDatabase, Contents, Changes
  <2>3. /\ o \in Publishes /\ o.kind = op.kind /\ o.at = op.at /\ o.new = op.new
        /\ o.stated = op.stated /\ o.db = InDatabase \cup {"rebuilt"} /\ o.pre = op.pre
        /\ o.back = op.back
      BY <1>3, <2>1, <2>2 DEF Publishes
  <2>4. /\ op' \in Publishes /\ op'.kind = op.kind /\ op'.new = op.new
        /\ op'.db = InDatabase \cup {"rebuilt"} /\ op'.stated = op.stated /\ op'.pre = op.pre
        /\ op'.back = "no" /\ InProgress' /\ Forward' /\ TargetFile' = TargetFile
        /\ op'.at \in DOMAIN Program[op'.kind] /\ op'.at > 1
        /\ Step' = NextStep(op.kind, Step)
    <3>1. Proceed(o)
        BY <1>5, <2>1 DEF RebuildDatabase
    <3> QED
        BY <1>1, <1>2, <1>3, <2>3, <3>1, ProceedEffect
  <2>5. /\ Early /\ Step' = "backup"
      BY <1>1, <2>4, NextStepsAre DEF Early, EarlySteps
  <2>6. Early' /\ ~ Late'
      BY <1>3, <2>4, <2>5 DEF Early, Late, EarlySteps
  <2>7. unseen' = unseen /\ file' = file /\ stated' = stated /\ rows' = rows
        /\ runtime' = runtime /\ wal' = wal /\ review' = review
      BY <1>1 DEF UnchangedFiles, UnchangedOther
  <2>8. RowsAreNew'
    <3>1. "db" \notin rows => "row" \notin InDatabase
        BY DEF OneOffInv, RowsAreNew, SnapshotIsOlder, State, OutsideIsNew, InDatabase
    <3>2. SnapshotIsOlder(State)' /\ SnapshotIsOlder(op.pre)'
        BY <1>2, <2>4, <2>7 DEF OneOffInv, RowsAreNew, SnapshotIsOlder, State
    <3> QED
        BY <1>1, <2>4, <2>7, <3>1, <3>2 DEF OneOffInv, RowsAreNew
  <2>9. ASSUME ~ unseen
        PROVE  EarlyInv' /\ LateInv'
    <3>1. EarlyInv
        BY <2>9 DEF OneOffInv
    <3>2. (Seen \/ StatesNow)'
      <4>1. Seen \/ StatesNow
          BY <1>1, <2>5, <3>1 DEF EarlyInv
      <4> QED
          BY <2>4, <2>7, <4>1 DEF Seen, StatesNow
    <3>3. "row" \in op'.pre.db => "row" \in op'.db
      <4>1. "row" \in op.pre.db => "db" \in rows
          BY <1>2 DEF OneOffInv, RowsAreNew, SnapshotIsOlder
      <4>2. "db" \in rows => "row" \in InDatabase
          BY <2>9 DEF OneOffInv, NothingIsLost
      <4> QED
          BY <2>4, <4>1, <4>2
    <3> QED
        BY <1>1, <1>3, <2>4, <2>5, <2>6, <2>7, <3>1, <3>2, <3>3 DEF EarlyInv, LateInv
  <2> QED
      BY <1>1, <1>2, <1>3, <2>4, <2>5, <2>6, <2>8, <2>9, QuietStep DEF UnchangedOther
<1> QED
    BY <1>4, <1>5

(* The last comparison: from here on the run has all that others added.       *)
LEMMA CopyKeeps ==
  ASSUME OneOffInv, CopyFiles
  PROVE  OneOffInv'
<1>1. /\ Forward /\ Step = "backup" /\ OneOffTypeOK
      /\ UnchangedFiles /\ UNCHANGED <<everyday, review, rehearsed, journals, runs, rows>>
      /\ (unseen => unseen') /\ (~ AsHashed => Stop /\ unseen' = unseen)
    BY DEF CopyFiles, AtStep, OneOffInv, LeftOut
<1>2. /\ InProgress /\ op.kind \in Modes /\ HasStep(op.kind, "backup")
      /\ op.stated \in Stateds /\ op.back = "no"
    BY <1>1, AtAStep
<1>3. /\ op \in Publishes /\ op.pre \in Snapshots /\ TargetFile \in Data
      /\ op.kind # "promotion" /\ TargetFile # "master" /\ TargetFile # "db"
      /\ (op.kind = "activity" => TargetFile = "market")
      /\ file \in Stateds /\ stated \in Stateds /\ runtime \in Contents
    BY <1>1, <1>2, AtWork, TargetsAre DEF HasStep, Data, OneOffTypeOK
<1>4. CASE ~ AsHashed
    BY <1>1, <1>2, <1>4, StopEarly DEF UnchangedOther
<1>5. CASE AsHashed
  <2>1. State \in Snapshots /\ State.file = file /\ State.manifest = stated /\ State.db = runtime
      BY <1>3 DEF State, Snapshots
  <2>2. PICK o : o = [op EXCEPT !.pre = State]
      OBVIOUS
  <2>3. /\ o \in Publishes /\ o.kind = op.kind /\ o.at = op.at /\ o.new = op.new
        /\ o.stated = op.stated /\ o.db = op.db /\ o.pre = State /\ o.back = op.back
      BY <1>3, <2>1, <2>2 DEF Publishes
  <2>4. /\ op' \in Publishes /\ op'.kind = op.kind /\ op'.new = op.new /\ op'.db = op.db
        /\ op'.stated = op.stated /\ op'.pre = State /\ op'.back = "no"
        /\ InProgress' /\ Forward' /\ TargetFile' = TargetFile
        /\ op'.at \in DOMAIN Program[op'.kind] /\ op'.at > 1
        /\ Step' = NextStep(op.kind, Step)
    <3>1. Proceed(o)
        BY <1>5, <2>2 DEF CopyFiles
    <3> QED
        BY <1>1, <1>2, <2>1, <2>3, <3>1, ProceedEffect
  <2>5. /\ Early /\ Step' = IF op.kind = "reconcile" THEN "state" ELSE "journal"
      BY <1>1, <2>4, NextStepsAre DEF Early, EarlySteps
  <2>6. Late' /\ ~ Early' /\ Step' \in {"state", "journal"}
      BY <1>3, <2>4, <2>5 DEF Early, Late, EarlySteps
  <2>7. file' = file /\ stated' = stated /\ rows' = rows
        /\ runtime' = runtime /\ wal' = wal /\ review' = review
      BY <1>1 DEF UnchangedFiles
  <2>8. RowsAreNew'
      BY <1>1, <1>2, <2>1, <2>4, <2>7 DEF OneOffInv, RowsAreNew, SnapshotIsOlder, State
  <2>9. /\ file[TargetFile] = op.pre.file[TargetFile] /\ stated = op.pre.manifest
        /\ op.kind \in {"remediation", "activity"} => runtime = op.pre.db
    <3>1. Hashed(op.kind, State) = Hashed(op.kind, op.pre)
        BY <1>5 DEF CopyFiles, AsHashed
    <3> QED
        BY <2>1, <3>1 DEF Hashed, TargetFile
  <2>10. ASSUME ~ unseen'
         PROVE  EarlyInv' /\ LateInv'
    <3>1. EarlyInv /\ NothingIsLost /\ ~ unseen
        BY <1>1, <2>10 DEF OneOffInv
    <3>2. StatesNow
        BY <1>1, <2>5, <2>9, <3>1 DEF EarlyInv, Seen
    <3>3. op.new = NewOf(op.kind, file[TargetFile])
        BY <1>1, <2>5, <2>9, <3>1 DEF EarlyInv
    <3>4. TargetFile \in rows => "row" \in file[TargetFile]
        BY <1>3, <3>1 DEF NothingIsLost
    <3>5. op.kind = "activity" => "row" \notin file[TargetFile]
        BY <1>3, <2>5, <3>1 DEF EarlyInv, Absent
    <3>6. TargetFile \in rows => "row" \in op.new
        BY <3>3, <3>4, <3>5, <1>2, ModesAre DEF NewOf
    <3>7. op.kind \in {"remediation", "activity"} =>
             wal = {} /\ ("db" \in rows => "row" \in runtime)
      <4>1. op.kind \in {"remediation", "activity"} => wal = {}
          BY <1>5, <2>10 DEF CopyFiles, LeftOut
      <4> QED
          BY <3>1, <4>1 DEF NothingIsLost, InDatabase
    <3>8. op.kind = "remediation" /\ "db" \in rows => "row" \in op.db
        BY <1>1, <2>5, <2>9, <3>1, <3>7 DEF EarlyInv
    <3>9. OthersStay' /\ StatesNow' /\ PreHasRows'
      <4>1. OthersStay'
          BY <2>1, <2>4, <2>7 DEF OthersStay
      <4>2. StatesNow'
          BY <2>4, <2>7, <3>2 DEF StatesNow
      <4>3. PreHasRows'
          BY <2>1, <2>4, <2>7, <3>4, <3>7 DEF PreHasRows
      <4> QED
          BY <4>1, <4>2, <4>3
    <3> QED
        BY <2>1, <2>4, <2>6, <2>7, <3>6, <3>8, <3>9 DEF EarlyInv, LateInv
  <2> QED
      BY <1>1, <1>2, <2>1, <2>4, <2>5, <2>6, <2>8, <2>10, QuietStep
<1> QED
    BY <1>4, <1>5

LEMMA OwnJournal ==
  ASSUME NEW status
  PROVE  /\ Journal(status).kind = op.kind /\ Journal(status).status = status
         /\ Journal(status).file = op.pre.file[TargetFile]
         /\ Journal(status).stated = op.pre.manifest[TargetFile]
         /\ \A t : IsBackupOf(Journal(status), t) =>
                t = TargetFile /\ op.pre.file[t] = op.pre.manifest[t]
         /\ status \in {"BACKUP_VERIFIED", "ROLLBACK_FAILED"}
               /\ op.pre.file[TargetFile] = op.pre.manifest[TargetFile] =>
                  IsBackupOf(Journal(status), TargetFile)
BY DEF Journal, IsBackupOf, TargetFile

LEMMA JournalKeeps ==
  ASSUME OneOffInv, WriteJournal
  PROVE  OneOffInv'
<1>1. /\ Forward /\ Step = "journal" /\ OneOffTypeOK /\ Proceed(op)
      /\ UnchangedFiles /\ UnchangedOther /\ journals' = journals \cup {Journal("BACKUP_VERIFIED")}
    BY DEF WriteJournal, AtStep, OneOffInv
<1>2. /\ InProgress /\ op.kind \in Modes /\ HasStep(op.kind, "journal")
      /\ op.stated \in Stateds /\ op.back = "no"
    BY <1>1, AtAStep
<1>3. /\ op \in Publishes /\ op.pre \in Snapshots /\ TargetFile \in Data
      /\ op.kind # "promotion" /\ TargetFile # "master" /\ TargetFile # "db"
    BY <1>1, <1>2, AtWork, TargetsAre DEF HasStep, Data, OneOffTypeOK
<1>4. /\ op' \in Publishes /\ op'.kind = op.kind /\ op'.new = op.new /\ op'.db = op.db
      /\ op'.stated = op.stated /\ op'.pre = op.pre /\ op'.back = "no"
      /\ InProgress' /\ Forward' /\ TargetFile' = TargetFile
      /\ op'.at \in DOMAIN Program[op'.kind] /\ op'.at > 1
      /\ Step' = NextStep(op.kind, Step)
    BY <1>1, <1>2, <1>3, ProceedEffect
<1>5. /\ Late /\ ~ Early /\ Step' = TargetFile
    BY <1>1, <1>4, NextStepsAre DEF Early, Late, EarlySteps, TargetFile
<1>6. /\ Late' /\ ~ Early' /\ ~ Back' /\ Step' \notin {"state", "journal"}
    BY <1>3, <1>4, <1>5 DEF Early, Late, Back, EarlySteps, Data
<1>7. unseen' = unseen /\ file' = file /\ stated' = stated /\ rows' = rows
      /\ runtime' = runtime /\ wal' = wal /\ review' = review /\ rehearsed' = rehearsed
    BY <1>1 DEF UnchangedFiles, UnchangedOther
<1>8. OneOffTypeOK'
    BY <1>1, <1>2, <1>3, <1>4, <1>7 DEF OneOffTypeOK
<1>9. RowsAreNew' /\ RehearsedAsReviewed'
    BY <1>1, <1>2, <1>4, <1>7
       DEF OneOffInv, RowsAreNew, SnapshotIsOlder, State, RehearsedAsReviewed
<1>10. ASSUME ~ unseen
       PROVE  EarlyInv' /\ LateInv' /\ BackInv' /\ FilesAreBacked' /\ NothingIsLost'
  <2>1. EarlyInv' /\ BackInv' /\ LateInv
      BY <1>6, <1>10 DEF EarlyInv, BackInv, OneOffInv
  <2>2. NothingIsLost'
      BY <1>7, <1>10 DEF OneOffInv, NothingIsLost, InDatabase
  <2>3. OthersStay' /\ StatesNow' /\ PreHasRows'
      BY <1>4, <1>5, <1>7, <2>1 DEF LateInv, OthersStay, StatesNow, PreHasRows
  <2>4. LateInv'
      BY <1>4, <1>5, <1>6, <1>7, <2>1, <2>3 DEF LateInv
  <2>5. ASSUME NEW t \in Data \ {"master"}
        PROVE  /\ ~ MayBeTorn(t)' => (~ Unattested(t) \/ Logged(t))'
               /\ MayBeTorn(t)' => Logged(t)'
    <3>1. ~ MayBeTorn(t)
        BY <1>1, <1>5 DEF MayBeTorn
    <3>2. ~ Unattested(t) \/ Logged(t)
        BY <1>10, <3>1 DEF OneOffInv, FilesAreBacked
    <3>3. Logged(t) => Logged(t)'
        BY <1>1 DEF Logged
    <3>4. MayBeTorn(t)' => t = TargetFile
        BY <1>4 DEF MayBeTorn
    <3>5. ASSUME t = TargetFile, ~ Unattested(t)
          PROVE  Logged(t)'
      <4>1. op.pre.file[t] = op.pre.manifest[t]
          BY <1>1, <1>5, <2>1, <3>5 DEF LateInv, Unattested
      <4> QED
          BY <1>1, <3>5, <4>1, OwnJournal DEF Logged
    <3>6. Unattested(t)' <=> Unattested(t)
        BY <1>7 DEF Unattested
    <3> QED
        BY <3>2, <3>3, <3>4, <3>5, <3>6
  <2>6. FilesAreBacked'
      BY <2>5 DEF FilesAreBacked
  <2> QED
      BY <2>1, <2>2, <2>4, <2>6
<1> QED
    BY <1>7, <1>8, <1>9, <1>10 DEF OneOffInv

(* One file is replaced: each step writes what the run holds for it.          *)
LEMMA ReplaceEffect ==
  ASSUME OneOffInv, Replace
  PROVE  /\ Forward /\ InProgress /\ OneOffTypeOK /\ Late /\ ~ Early /\ op.kind \in Modes
         /\ Step \in {TargetFile, "manifest", "db"}
         /\ (Step = "db" => op.kind = "remediation")
         /\ (file' = IF Step = TargetFile THEN [file EXCEPT ![TargetFile] = op.new] ELSE file)
         /\ (stated' = IF Step = "manifest" THEN op.stated ELSE stated)
         /\ (runtime' = IF Step = "db" THEN op.db ELSE runtime)
         /\ op' \in Publishes /\ op'.kind = op.kind /\ op'.new = op.new /\ op'.db = op.db
         /\ op'.stated = op.stated /\ op'.pre = op.pre /\ op'.back = "no"
         /\ InProgress' /\ Forward' /\ TargetFile' = TargetFile
         /\ op'.at \in DOMAIN Program[op'.kind] /\ op'.at > 1
         /\ Late' /\ ~ Early' /\ ~ Back' /\ Step' \notin {"state", "journal"}
         /\ op.stated \in Stateds /\ op.new \in Contents /\ op.db \in Contents
         /\ op.pre \in Snapshots /\ TargetFile \in Data
         /\ unseen' = unseen /\ rows' = rows /\ review' = review /\ rehearsed' = rehearsed
         /\ journals' = journals /\ wal' = wal
<1>1. /\ Forward /\ Step \in Data \cup {"manifest", "db"} /\ OneOffTypeOK /\ Proceed(op)
      /\ unseen' = unseen /\ rows' = rows /\ review' = review /\ rehearsed' = rehearsed
      /\ journals' = journals /\ wal' = wal
    BY DEF Replace, OneOffInv, UnchangedOther
<1>2. /\ InProgress /\ op.kind \in Modes /\ HasStep(op.kind, Step)
      /\ op.stated \in Stateds /\ op.back = "no" /\ op.new \in Contents /\ op.db \in Contents
    BY <1>1, AtAStep
<1>3. op \in Publishes /\ op.pre \in Snapshots /\ TargetFile \in Data
    BY <1>1, <1>2, AtWork DEF OneOffTypeOK
<1>4. /\ op' \in Publishes /\ op'.kind = op.kind /\ op'.new = op.new /\ op'.db = op.db
      /\ op'.stated = op.stated /\ op'.pre = op.pre /\ op'.back = "no"
      /\ InProgress' /\ Forward' /\ TargetFile' = TargetFile
      /\ op'.at \in DOMAIN Program[op'.kind] /\ op'.at > 1
      /\ Step' = NextStep(op.kind, Step)
  <2>1. Step \notin {"verify", "receipt"}
      BY <1>1 DEF Data
  <2> QED
      BY <1>1, <1>2, <1>3, <2>1, ProceedEffect
<1>5. Step \in {TargetFile, "manifest", "db"} /\ (Step = "db" => op.kind = "remediation")
    BY <1>1, <1>2, <1>3 DEF HasStep, Data, TargetFile
<1>6. /\ (file' = IF Step = TargetFile THEN [file EXCEPT ![TargetFile] = op.new] ELSE file)
      /\ (stated' = IF Step = "manifest" THEN op.stated ELSE stated)
      /\ (runtime' = IF Step = "db" THEN op.db ELSE runtime)
  <2>1. Step \in Data <=> Step = TargetFile
      BY <1>3, <1>5 DEF Data
  <2> QED
      BY <1>3, <2>1 DEF Replace
<1>7. Step' \in {"manifest", "db", "receipt", "verify"}
    BY <1>1, <1>4, NextStepsAre
<1>8. Late /\ ~ Early
    BY <1>1 DEF Late, Early, EarlySteps, Data
<1>9. Late' /\ ~ Early' /\ ~ Back' /\ Step' \notin {"state", "journal"}
    BY <1>4, <1>7 DEF Late, Early, Back, EarlySteps
<1> QED
    BY <1>1, <1>2, <1>3, <1>4, <1>5, <1>6, <1>8, <1>9

LEMMA ReplaceKeeps ==
  ASSUME OneOffInv, Replace
  PROVE  OneOffInv'
<1>1. /\ Forward /\ InProgress /\ OneOffTypeOK /\ Late /\ ~ Early /\ op.kind \in Modes
      /\ Step \in {TargetFile, "manifest", "db"}
      /\ (Step = "db" => op.kind = "remediation")
      /\ (file' = IF Step = TargetFile THEN [file EXCEPT ![TargetFile] = op.new] ELSE file)
      /\ (stated' = IF Step = "manifest" THEN op.stated ELSE stated)
      /\ (runtime' = IF Step = "db" THEN op.db ELSE runtime)
    BY ReplaceEffect
<1>2. /\ op' \in Publishes /\ op'.kind = op.kind /\ op'.new = op.new /\ op'.db = op.db
      /\ op'.stated = op.stated /\ op'.pre = op.pre /\ op'.back = "no"
      /\ InProgress' /\ Forward' /\ TargetFile' = TargetFile
      /\ op'.at \in DOMAIN Program[op'.kind] /\ op'.at > 1
      /\ Late' /\ ~ Early' /\ ~ Back' /\ Step' \notin {"state", "journal"}
    BY ReplaceEffect
<1>3. /\ op.stated \in Stateds /\ op.new \in Contents /\ op.db \in Contents
      /\ op.pre \in Snapshots /\ TargetFile \in Data
      /\ unseen' = unseen /\ rows' = rows /\ review' = review /\ rehearsed' = rehearsed
      /\ journals' = journals /\ wal' = wal
    BY ReplaceEffect
<1>4. file \in Stateds /\ stated \in Stateds /\ runtime \in Contents
    BY <1>1 DEF OneOffTypeOK
<1>5. /\ file' \in Stateds /\ stated' \in Stateds /\ runtime' \in Contents
      /\ \A t \in Data : file'[t] = file[t] \/ (t = TargetFile /\ file'[t] = op.new)
      /\ \A t \in Data : stated'[t] = stated[t] \/ stated'[t] = op.stated[t]
      /\ runtime' = runtime \/ (op.kind = "remediation" /\ runtime' = op.db)
    BY <1>1, <1>3, <1>4 DEF Stateds
<1>6. OneOffTypeOK'
    BY <1>1, <1>2, <1>3, <1>5 DEF OneOffTypeOK
<1>7. RowsAreNew'
  <2>1. /\ SnapshotIsOlder(State) /\ SnapshotIsOlder(op.pre)
        /\ \A t \in Data \ rows : "row" \notin op.stated[t]
        /\ TargetFile \notin rows => "row" \notin op.new
        /\ "db" \notin rows => "row" \notin op.db
      BY <1>1 DEF OneOffInv, RowsAreNew
  <2>2. SnapshotIsOlder(State)'
      BY <1>3, <1>5, <2>1 DEF SnapshotIsOlder, State
  <2>3. SnapshotIsOlder(op.pre)'
      BY <1>2, <1>3, <2>1 DEF SnapshotIsOlder
  <2> QED
      BY <1>2, <1>3, <2>1, <2>2, <2>3 DEF RowsAreNew
<1>8. RehearsedAsReviewed'
    BY <1>3 DEF OneOffInv, RehearsedAsReviewed
<1>9. ASSUME ~ unseen
      PROVE  EarlyInv' /\ LateInv' /\ BackInv' /\ FilesAreBacked' /\ NothingIsLost'
  <2>1. EarlyInv' /\ BackInv' /\ LateInv /\ NothingIsLost
      BY <1>2, <1>9 DEF EarlyInv, BackInv, OneOffInv
  <2>2. /\ OthersStay /\ StatesNow /\ PreHasRows
        /\ TargetFile \in rows => "row" \in op.new
        /\ op.kind = "remediation" /\ "db" \in rows => "row" \in op.db
      BY <1>1, <2>1 DEF LateInv
  <2>3. \A t \in Data \ {TargetFile} : stated'[t] = stated[t] /\ file'[t] = file[t]
      BY <1>5, <2>2 DEF StatesNow
  <2>4. NothingIsLost'
    <3>1. \A t \in rows \ {"db"} : "row" \in file[t]
        BY <1>9, <2>1 DEF NothingIsLost, InDatabase
    <3>2. \A t \in rows \ {"db"} : t \in Data /\ "row" \in file'[t]
        BY <1>1, <1>5, <2>2, <3>1 DEF OneOffTypeOK
    <3>3. "db" \in rows => "row" \in runtime' \cup wal'
        BY <1>3, <1>5, <1>9, <2>1, <2>2 DEF NothingIsLost, InDatabase
    <3> QED
        BY <1>3, <3>2, <3>3 DEF NothingIsLost, InDatabase
  <2>5. OthersStay' /\ PreHasRows'
      BY <1>2, <1>3, <2>2, <2>3 DEF OthersStay, PreHasRows
  <2>6. StatesNow'
      BY <1>2, <2>2, <2>3 DEF StatesNow
  <2>7. LateInv'
      BY <1>2, <1>3, <2>2, <2>5, <2>6 DEF LateInv
  <2>8. ASSUME NEW t \in Data \ {"master"}
        PROVE  /\ ~ MayBeTorn(t)' => (~ Unattested(t) \/ Logged(t))'
               /\ MayBeTorn(t)' => Logged(t)'
    <3>1. MayBeTorn(t)' <=> t = TargetFile
        BY <1>2 DEF MayBeTorn
    <3>2. Logged(t)' <=> Logged(t)
        BY <1>3 DEF Logged
    <3>3. CASE t # TargetFile
      <4>1. ~ MayBeTorn(t)
          BY <3>3 DEF MayBeTorn
      <4>2. ~ Unattested(t) \/ Logged(t)
          BY <1>9, <4>1 DEF OneOffInv, FilesAreBacked
      <4> QED
          BY <2>3, <3>1, <3>2, <3>3, <4>2 DEF Unattested
    <3>4. CASE t = TargetFile
      <4>1. MayBeTorn(t)
          BY <1>1, <1>3, <3>4 DEF MayBeTorn, Data
      <4> QED
          BY <1>9, <3>1, <3>2, <3>4, <4>1 DEF OneOffInv, FilesAreBacked
    <3> QED
        BY <3>3, <3>4
  <2>9. FilesAreBacked'
      BY <2>8 DEF FilesAreBacked
  <2> QED
      BY <2>1, <2>4, <2>7, <2>9
<1> QED
    BY <1>3, <1>6, <1>7, <1>8, <1>9 DEF OneOffInv

(* A run closes its journal only when its file is what is stated of it.       *)
LEMMA CloseKeeps ==
  ASSUME OneOffInv, InProgress, Late => Step \notin {"state", "journal"}, ~ Early,
         NEW status, CloseJournal(status), Stop, UnchangedFiles, UnchangedOther,
         ~ unseen => status = "ROLLBACK_FAILED" \/ ~ Unattested(TargetFile)
  PROVE  OneOffInv'
<1>1. ASSUME ~ unseen, NEW t \in Data \ {"master"}
      PROVE  ~ Unattested(t) \/ Logged(t)'
  <2>1. journals' = (journals \ {Journal("BACKUP_VERIFIED")})
                    \cup (IF status = "ROLLBACK_FAILED" THEN {Journal(status)} ELSE {})
      BY DEF CloseJournal
  <2>2. ASSUME NEW j \in journals, IsBackupOf(j, t)
        PROVE  ~ Unattested(t) \/ Logged(t)'
    <3>1. CASE j # Journal("BACKUP_VERIFIED")
        BY <2>1, <2>2, <3>1 DEF Logged
    <3>2. CASE j = Journal("BACKUP_VERIFIED")
      <4>1. t = TargetFile /\ op.pre.file[t] = op.pre.manifest[t]
          BY <2>2, <3>2, OwnJournal
      <4>2. CASE status = "ROLLBACK_FAILED"
          BY <2>1, <4>1, <4>2, OwnJournal DEF Logged
      <4>3. CASE status # "ROLLBACK_FAILED"
          BY <1>1, <4>1, <4>3
      <4> QED
          BY <4>2, <4>3
    <3> QED
        BY <3>1, <3>2
  <2>3. ~ Unattested(t) \/ Logged(t)
      BY <1>1 DEF OneOffInv, FilesAreBacked
  <2> QED
      BY <2>2, <2>3 DEF Logged
<1> QED
    BY <1>1, StopKeeps

LEMMA VerifyKeeps ==
  ASSUME OneOffInv, Verify
  PROVE  OneOffInv'
<1>1. /\ Forward /\ Step = "verify" /\ OneOffTypeOK /\ UnchangedFiles /\ UnchangedOther
    BY DEF Verify, AtStep, OneOffInv
<1>2. /\ InProgress /\ op.kind \in Modes /\ HasStep(op.kind, "verify") /\ TargetFile \in Data
    BY <1>1, AtAStep, AtWork
<1>3. Late /\ ~ Early
    BY <1>1 DEF Late, Early, EarlySteps
<1>4. CASE Verified
  <2>1. op.kind # "promotion"
      BY <1>2 DEF HasStep, TargetFile, Data
  <2>2. InPlace
      BY <1>2, <1>4, <2>1, ModesAre
         DEF Verified, RemediationInPlace, ActivityInPlace, RemovalInPlace, GapsInPlace,
             ReconcileInPlace, MacroInPlace
  <2>3. ~ Unattested(TargetFile) /\ CloseJournal("PUBLISHED") /\ Stop
      BY <1>4, <2>2 DEF InPlace, Unattested, Verify
  <2> QED
      BY <1>1, <1>2, <1>3, <2>3, CloseKeeps
<1>5. CASE ~ Verified
    BY <1>1, <1>3, <1>5, TakeBackKeeps DEF Verify
<1> QED
    BY <1>4, <1>5

LEMMA ReceiptKeeps ==
  ASSUME OneOffInv, WriteReceipt
  PROVE  OneOffInv'
BY StopEarly DEF WriteReceipt, AtStep, Forward

LEMMA KillKeeps ==
  ASSUME OneOffInv, KillOneOff
  PROVE  OneOffInv'
BY StopEarly DEF KillOneOff

LEMMA FailKeeps ==
  ASSUME OneOffInv, Fail
  PROVE  OneOffInv'
<1>1. /\ Forward /\ InProgress /\ UnchangedFiles /\ UnchangedOther /\ UNCHANGED journals
    BY DEF Fail, Forward
<1>2. CASE Step \in Data \cup {"manifest", "db", "verify", "receipt"}
  <2>1. Late /\ Step \notin {"state", "journal"}
      BY <1>1, <1>2 DEF Late, EarlySteps, Data
  <2> QED
      BY <1>1, <1>2, <2>1, TakeBackKeeps DEF Fail
<1>3. CASE Step \notin Data \cup {"manifest", "db", "verify", "receipt"}
    BY <1>1, <1>3, StopEarly DEF Fail
<1> QED
    BY <1>2, <1>3

LEMMA SettleKeeps ==
  ASSUME OneOffInv, Settle
  PROVE  OneOffInv'
<1>1. /\ InProgress /\ op.back # "no" /\ Stop /\ UnchangedFiles /\ UnchangedOther
    BY DEF Settle
<1>2. ~ Early /\ ~ Late
    BY <1>1 DEF Early, Late, Forward
<1>3. PICK status : status = IF AsHashed /\ op.back = "clean" THEN "ROLLED_BACK"
                                                           ELSE "ROLLBACK_FAILED"
    OBVIOUS
<1>4. CloseJournal(status)
    BY <1>3 DEF Settle
<1>5. ASSUME ~ unseen, status # "ROLLBACK_FAILED", Unattested(TargetFile)
      PROVE  OneOffInv'
  <2>1. AsHashed
      BY <1>3, <1>5
  <2>2. file[TargetFile] = op.pre.file[TargetFile] /\ stated = op.pre.manifest
      BY <2>1 DEF AsHashed, Hashed, State, TargetFile
  <2>3. op.pre.file[TargetFile] # op.pre.manifest[TargetFile]
      BY <1>5, <2>2 DEF Unattested
  <2>4. \A t : ~ IsBackupOf(Journal("BACKUP_VERIFIED"), t)
      BY <2>3, OwnJournal
  <2>5. \A j \in journals : j # Journal("BACKUP_VERIFIED") => j \in journals'
      BY <1>4 DEF CloseJournal
  <2>6. ASSUME NEW t \in Data \ {"master"}
        PROVE  ~ Unattested(t) \/ Logged(t)'
    <3>1. ~ Unattested(t) \/ Logged(t)
        BY <1>5 DEF OneOffInv, FilesAreBacked
    <3> QED
        BY <2>4, <2>5, <3>1 DEF Logged
  <2> QED
      BY <1>1, <2>6, StopKeeps
<1> QED
    BY <1>1, <1>2, <1>4, <1>5, CloseKeeps

(* A file is taken back: what the run compared has all that others added.     *)
LEMMA RestoreEffect ==
  ASSUME OneOffInv, RestoreFile
  PROVE  /\ InProgress /\ Back /\ ~ Early /\ ~ Late /\ OneOffTypeOK /\ op.kind \in Modes
         /\ op.pre \in Snapshots /\ TargetFile \in Data
         /\ (\A t \in Data : file'[t] = file[t] \/ (t = TargetFile /\ file'[t] = op.pre.file[t]))
         /\ (stated' = stated \/ stated' = op.pre.manifest)
         /\ (runtime' = runtime
               \/ (op.kind \in {"remediation", "activity"} /\ runtime' = op.pre.db))
         /\ file' \in Stateds /\ stated' \in Stateds /\ runtime' \in Contents
         /\ (\/ (op' = NoPublish /\ op.kind = "promotion")
             \/ /\ op' \in Publishes /\ op'.kind = op.kind /\ op'.pre = op.pre
                /\ op'.back \in {"clean", "errors"} /\ op'.undo \in Seq(Touched(op.kind)))
         /\ unseen' = unseen /\ rows' = rows /\ review' = review /\ rehearsed' = rehearsed
         /\ journals' = journals /\ wal' = wal
<1>1. /\ InProgress /\ op.undo # <<>> /\ OneOffTypeOK
      /\ unseen' = unseen /\ rows' = rows /\ review' = review /\ rehearsed' = rehearsed
      /\ journals' = journals /\ wal' = wal
    BY DEF RestoreFile, OneOffInv, UnchangedOther
<1>2. op.kind \in Modes /\ op.pre \in Snapshots /\ TargetFile \in Data
      /\ file \in Stateds /\ stated \in Stateds /\ runtime \in Contents /\ op \in Publishes
    BY <1>1, AtWork DEF OneOffTypeOK
<1>3. op.back # "no" /\ ~ Forward /\ Back /\ ~ Early /\ ~ Late
    BY <1>1, <1>2 DEF Publishes, Forward, Back, Early, Late
<1>4. op.undo \in Seq(Touched(op.kind)) /\ op.undo # <<>>
    BY <1>1, <1>3 DEF OneOffTypeOK
<1>5. PICK f : f = Head(op.undo)
    OBVIOUS
<1>6. f \in Touched(op.kind) /\ Tail(op.undo) \in Seq(Touched(op.kind))
    BY <1>4, <1>5, HeadTailProperties
<1>7. /\ f \in Data => f = TargetFile
      /\ f = "db" => op.kind \in {"remediation", "activity"}
    BY <1>2, <1>6 DEF Touched, Touches, TargetFile, Data
<1>8. Touched(op.kind) \subseteq Data \cup {"manifest", "db"}
    BY DEF Touched
<1>9. Tail(op.undo) \in Seq(Data \cup {"manifest", "db"})
  <2>1. op.undo \in Seq(Data \cup {"manifest", "db"})
      BY <1>2 DEF Publishes
  <2> QED
      BY <1>4, <2>1, HeadTailProperties
<1>10. PICK rest : rest = [op EXCEPT !.undo = Tail(op.undo)]
    OBVIOUS
<1>11. /\ rest \in Publishes /\ rest.kind = op.kind /\ rest.pre = op.pre /\ rest.back = op.back
       /\ rest.undo = Tail(op.undo)
    BY <1>2, <1>3, <1>9, <1>10 DEF Publishes
<1>12. PICK worse : worse = [rest EXCEPT !.back = "errors"]
    OBVIOUS
<1>13. /\ worse \in Publishes /\ worse.kind = op.kind /\ worse.pre = op.pre
       /\ worse.back = "errors" /\ worse.undo = Tail(op.undo)
    BY <1>11, <1>12 DEF Publishes
<1>14. \/ /\ file' = IF f \in Data THEN [file EXCEPT ![f] = op.pre.file[f]] ELSE file
          /\ stated' = IF f = "manifest" THEN op.pre.manifest ELSE stated
          /\ runtime' = IF f = "db" THEN op.pre.db ELSE runtime
          /\ (op' = NoPublish /\ op.kind = "promotion") \/ op' = rest
       \/ /\ file' = file /\ stated' = stated /\ runtime' = runtime
          /\ (op' = NoPublish /\ op.kind = "promotion") \/ op' = worse
    BY <1>5, <1>10, <1>12 DEF RestoreFile, UnchangedFiles
<1>15. \/ op' = NoPublish /\ op.kind = "promotion"
       \/ /\ op' \in Publishes /\ op'.kind = op.kind /\ op'.pre = op.pre
          /\ op'.back \in {"clean", "errors"} /\ op'.undo \in Seq(Touched(op.kind))
  <2>1. op.back \in {"clean", "errors"}
      BY <1>2, <1>3 DEF Publishes
  <2> QED
      BY <1>6, <1>11, <1>13, <1>14, <2>1
<1>16. /\ op.pre.file \in Stateds /\ op.pre.manifest \in Stateds /\ op.pre.db \in Contents
    BY <1>2 DEF Snapshots
<1>17. /\ \A t \in Data : file'[t] = file[t] \/ (t = TargetFile /\ file'[t] = op.pre.file[t])
       /\ file' \in Stateds
  <2>1. file' = file \/ (f = TargetFile /\ file' = [file EXCEPT ![f] = op.pre.file[f]])
      BY <1>7, <1>14
  <2> QED
      BY <1>2, <1>16, <2>1 DEF Stateds
<1>18. /\ stated' = stated \/ stated' = op.pre.manifest
       /\ stated' \in Stateds /\ runtime' \in Contents
       /\ runtime' = runtime
             \/ (op.kind \in {"remediation", "activity"} /\ runtime' = op.pre.db)
    BY <1>2, <1>7, <1>14, <1>16
<1> QED
    BY <1>1, <1>2, <1>3, <1>15, <1>17, <1>18

LEMMA RestoreKeeps ==
  ASSUME OneOffInv, RestoreFile
  PROVE  OneOffInv'
<1>1. /\ InProgress /\ Back /\ ~ Early /\ ~ Late /\ OneOffTypeOK /\ op.kind \in Modes
      /\ op.pre \in Snapshots /\ TargetFile \in Data
      /\ (\A t \in Data : file'[t] = file[t] \/ (t = TargetFile /\ file'[t] = op.pre.file[t]))
      /\ (stated' = stated \/ stated' = op.pre.manifest)
      /\ (runtime' = runtime
            \/ (op.kind \in {"remediation", "activity"} /\ runtime' = op.pre.db))
    BY RestoreEffect
<1>2. /\ file' \in Stateds /\ stated' \in Stateds /\ runtime' \in Contents
      /\ (\/ (op' = NoPublish /\ op.kind = "promotion")
          \/ /\ op' \in Publishes /\ op'.kind = op.kind /\ op'.pre = op.pre
             /\ op'.back \in {"clean", "errors"} /\ op'.undo \in Seq(Touched(op.kind)))
      /\ unseen' = unseen /\ rows' = rows /\ review' = review /\ rehearsed' = rehearsed
      /\ journals' = journals /\ wal' = wal
    BY RestoreEffect
<1>3. \/ ~ InProgress' /\ ~ Forward' /\ op' \in Publishes /\ op.kind = "promotion"
      \/ /\ op' \in Publishes /\ op'.kind = op.kind /\ op'.pre = op.pre
         /\ op'.back # "no" /\ op'.undo \in Seq(Touched(op.kind))
         /\ InProgress' /\ ~ Forward' /\ Back' /\ TargetFile' = TargetFile
  <2>1. NoPublish \in Publishes /\ NoPublish.kind = NoMode
    <3>1. <<>> \in Seq(Data \cup {"manifest", "db"})
        BY EmptySeq
    <3> QED
        BY <3>1 DEF NoPublish, Publishes, Contents
  <2> QED
      BY <1>1, <1>2, <2>1 DEF InProgress, Forward, Back, TargetFile
<1>4. ~ Early' /\ ~ Late' /\ (Back' => InProgress')
    BY <1>3 DEF Early, Late, Back
<1>5. OneOffTypeOK'
    BY <1>1, <1>2, <1>3 DEF OneOffTypeOK
<1>6. RowsAreNew'
  <2>1. SnapshotIsOlder(State) /\ SnapshotIsOlder(op.pre)
      BY <1>1 DEF OneOffInv, RowsAreNew
  <2>2. SnapshotIsOlder(State)'
      BY <1>1, <1>2, <2>1 DEF SnapshotIsOlder, State
  <2>3. InProgress' => SnapshotIsOlder(op.pre)'
      BY <1>2, <1>3, <2>1 DEF SnapshotIsOlder
  <2> QED
      BY <1>3, <2>2, <2>3 DEF RowsAreNew
<1>7. RehearsedAsReviewed'
    BY <1>2 DEF OneOffInv, RehearsedAsReviewed
<1>8. ASSUME ~ unseen
      PROVE  EarlyInv' /\ LateInv' /\ BackInv' /\ FilesAreBacked' /\ NothingIsLost'
  <2>1. EarlyInv' /\ LateInv'
      BY <1>4 DEF EarlyInv, LateInv
  <2>2. OthersStay /\ PreHasRows /\ NothingIsLost
      BY <1>1, <1>8 DEF OneOffInv, BackInv
  <2>3. \A t \in Data \ {TargetFile} : stated'[t] = stated[t] /\ file'[t] = file[t]
      BY <1>1, <2>2 DEF OthersStay
  <2>4. BackInv'
    <3> SUFFICES ASSUME Back' PROVE OthersStay' /\ PreHasRows'
        BY DEF BackInv
    <3>1. op'.kind = op.kind /\ op'.pre = op.pre /\ TargetFile' = TargetFile
        BY <1>3, <1>4
    <3> QED
        BY <1>2, <2>2, <2>3, <3>1 DEF OthersStay, PreHasRows
  <2>5. NothingIsLost'
    <3>1. ASSUME NEW t \in rows \ {"db"}
          PROVE  "row" \in file'[t]
      <4>1. "row" \in file[t]
          BY <1>8, <2>2 DEF NothingIsLost, InDatabase
      <4>2. CASE t \in Data
          BY <1>1, <2>2, <4>1, <4>2 DEF PreHasRows
      <4> QED
          BY <1>1, <4>2 DEF OneOffTypeOK
    <3>2. "db" \in rows => "row" \in runtime' \cup wal'
        BY <1>1, <1>2, <1>8, <2>2 DEF NothingIsLost, InDatabase, PreHasRows
    <3> QED
        BY <1>2, <3>1, <3>2 DEF NothingIsLost, InDatabase
  <2>6. ASSUME NEW t \in Data \ {"master"}
        PROVE  /\ ~ MayBeTorn(t)' => (~ Unattested(t) \/ Logged(t))'
               /\ MayBeTorn(t)' => Logged(t)'
    <3>1. /\ MayBeTorn(t)' => t = TargetFile
          /\ MayBeTorn(t) <=> t = TargetFile
        BY <1>1, <1>3 DEF MayBeTorn
    <3>2. Logged(t)' <=> Logged(t)
        BY <1>2 DEF Logged
    <3>3. ~ Unattested(t) \/ Logged(t)
        BY <1>8 DEF OneOffInv, FilesAreBacked
    <3>4. t # TargetFile => (Unattested(t)' <=> Unattested(t))
        BY <2>3 DEF Unattested
    <3>5. t = TargetFile => Logged(t)
        BY <1>8, <3>1 DEF OneOffInv, FilesAreBacked
    <3> QED
        BY <3>1, <3>2, <3>3, <3>4, <3>5
  <2>7. FilesAreBacked'
      BY <2>6 DEF FilesAreBacked
  <2> QED
      BY <2>1, <2>4, <2>5, <2>7
<1> QED
    BY <1>2, <1>5, <1>6, <1>7, <1>8 DEF OneOffInv

(* Others add a row: before the last comparison it is going to be seen.       *)
LEMMA UnprotectedIsLate ==
  ASSUME OneOffTypeOK, InProgress, NEW t, ~ Unprotected(t)
  PROVE  /\ Early /\ ~ Late /\ ~ Back
         /\ (op.kind \in {"removal", "gaps"} => Step # "hash" /\ (Step = "state" => t # "price"))
         /\ (op.kind = "activity" => Step # "hash")
<1>1. /\ Forward /\ Step \in {"hash", "rehearsed", "state", "rebuild", "backup"}
      /\ ~ (op.kind \in {"activity", "removal", "gaps"} /\ Step = "hash")
      /\ ~ (op.kind \in {"removal", "gaps"} /\ Step = "state" /\ t = "price")
      /\ ~ (op.kind = "reconcile" /\ Step = "state")
    BY DEF Unprotected
<1> QED
    BY <1>1 DEF Early, Late, Back, EarlySteps

LEMMA RowKeeps ==
  ASSUME OneOffInv, NEW t \in Data, PublishRow(t)
  PROVE  OneOffInv'
<1>1. /\ t # "master" /\ file[t] # Absent /\ t \notin rows /\ rows' = rows \cup {t}
      /\ (~ unseen' => ~ unseen /\ ~ Unprotected(t))
      /\ runtime' = runtime /\ wal' = wal /\ review' = review /\ rehearsed' = rehearsed /\ op' = op
      /\ journals' = journals /\ OneOffTypeOK
    BY DEF PublishRow, OthersAdd, OneOffInv
<1>2. /\ file' = [file EXCEPT ![t] = file[t] \cup {"row"}]
      /\ stated' = [stated EXCEPT ![t] = file'[t]]
    BY DEF PublishRow
<1>3. file \in Stateds /\ stated \in Stateds
    BY <1>1 DEF OneOffTypeOK
<1>4. /\ file'[t] = file[t] \cup {"row"} /\ stated'[t] = file'[t]
      /\ \A s \in Data \ {t} : file'[s] = file[s] /\ stated'[s] = stated[s]
    BY <1>2, <1>3 DEF Stateds
<1>5. file' \in Stateds /\ stated' \in Stateds
  <2>1. file[t] \cup {"row"} \in Contents
      BY <1>3 DEF Stateds, Contents, Changes
  <2>2. file' \in Stateds
      BY <1>2, <1>3, <2>1 DEF Stateds
  <2> QED
      BY <1>2, <1>3, <1>4, <2>1, <2>2 DEF Stateds
<1>6. /\ (InProgress' <=> InProgress) /\ (Forward' <=> Forward) /\ Step' = Step
      /\ TargetFile' = TargetFile
      /\ (Early' <=> Early) /\ (Late' <=> Late) /\ (Back' <=> Back)
    BY <1>1 DEF InProgress, Forward, Step, TargetFile, Early, Late, Back
<1>7. OneOffTypeOK'
  <2>1. rows' \subseteq Data \cup {"db"}
      BY <1>1 DEF OneOffTypeOK
  <2> QED
      BY <1>1, <1>5, <1>6, <2>1 DEF OneOffTypeOK
<1>8. RowsAreNew'
  <2>1. /\ SnapshotIsOlder(State) /\ (InProgress => SnapshotIsOlder(op.pre))
      BY DEF OneOffInv, RowsAreNew
  <2>2. SnapshotIsOlder(State)'
      BY <1>1, <1>4, <2>1 DEF SnapshotIsOlder, State
  <2>3. InProgress' => SnapshotIsOlder(op.pre)'
      BY <1>1, <1>6, <2>1 DEF SnapshotIsOlder
  <2> QED
      BY <1>1, <1>6, <2>2, <2>3 DEF OneOffInv, RowsAreNew
<1>9. RehearsedAsReviewed'
    BY <1>1 DEF OneOffInv, RehearsedAsReviewed
<1>10. ASSUME ~ unseen'
       PROVE  EarlyInv' /\ LateInv' /\ BackInv' /\ FilesAreBacked' /\ NothingIsLost'
  <2>1. /\ ~ unseen /\ ~ Unprotected(t) /\ EarlyInv /\ FilesAreBacked /\ NothingIsLost
      BY <1>1, <1>10 DEF OneOffInv
  <2>2. ~ Late /\ ~ Back /\ (InProgress => Early)
      BY <1>1, <2>1, UnprotectedIsLate DEF Late, Back, Forward
  <2>3. LateInv' /\ BackInv'
      BY <1>6, <2>2 DEF LateInv, BackInv
  <2>4. EarlyInv'
    <3> SUFFICES ASSUME Early PROVE EarlyInv'
        BY <1>6 DEF EarlyInv
    <3>1. InProgress
        BY DEF Early, Forward
    <3>2. /\ op.kind \in {"removal", "gaps"} => Step # "hash" /\ (Step = "state" => t # "price")
          /\ op.kind = "activity" => Step # "hash"
        BY <1>1, <2>1, <3>1, UnprotectedIsLate
    <3>3. op.kind \in Modes /\ HasStep(op.kind, Step)
        BY <1>1, AtAStep DEF Early
    <3>4. ~ (op.kind # "remediation" /\ Step = "hash")
        BY <3>2, <3>3, ModesAre, TargetsAre DEF HasStep, Data
    <3>5. op.kind = "activity" => file'["market"] = Absent
        BY <1>1, <1>4, <2>1 DEF EarlyInv, Data
    <3>6. op.kind \in {"removal", "gaps"} /\ Step \in {"state", "hash"} =>
             file'["price"] = op.pre.file["price"]
        BY <1>4, <2>1, <3>2 DEF EarlyInv, Data
    <3>7. Seen'
      <4>1. "row" \notin op.pre.manifest[t]
          BY <1>1, <3>1 DEF OneOffInv, RowsAreNew, SnapshotIsOlder
      <4> QED
          BY <1>1, <1>4, <4>1 DEF Seen
    <3> QED
        BY <1>1, <1>6, <2>1, <3>4, <3>5, <3>6, <3>7 DEF EarlyInv
  <2>5. NothingIsLost'
    <3>1. \A s \in rows \ {"db"} : s \in Data /\ "row" \in file[s]
        BY <1>1, <2>1 DEF NothingIsLost, InDatabase, OneOffTypeOK
    <3>2. \A s \in rows' \ {"db"} : "row" \in file'[s]
        BY <1>1, <1>4, <3>1
    <3>3. "db" \in rows' => "row" \in runtime' \cup wal'
        BY <1>1, <2>1 DEF NothingIsLost, InDatabase, Data
    <3> QED
        BY <3>2, <3>3 DEF NothingIsLost, InDatabase
  <2>6. ASSUME NEW s \in Data \ {"master"}
        PROVE  ~ MayBeTorn(s)' /\ (~ Unattested(s) \/ Logged(s))'
    <3>1. ~ MayBeTorn(s) /\ ~ MayBeTorn(s)'
        BY <1>6, <2>2 DEF MayBeTorn
    <3>2. ~ Unattested(s) \/ Logged(s)
        BY <2>1, <3>1 DEF FilesAreBacked
    <3> QED
        BY <1>1, <1>4, <3>1, <3>2 DEF Unattested, Logged
  <2>7. FilesAreBacked'
      BY <2>6 DEF FilesAreBacked
  <2> QED
      BY <2>3, <2>4, <2>5, <2>7
<1> QED
    BY <1>7, <1>8, <1>9, <1>10 DEF OneOffInv

LEMMA HistoryKeeps ==
  ASSUME OneOffInv, WriteHistory
  PROVE  OneOffInv'
<1>1. /\ "db" \notin rows /\ rows' = rows \cup {"db"} /\ runtime' = runtime
      /\ wal' = wal \cup {"row"}
      /\ (~ unseen' => ~ unseen /\ ~ Unprotected("db"))
      /\ file' = file /\ stated' = stated /\ review' = review /\ rehearsed' = rehearsed
      /\ op' = op /\ journals' = journals /\ OneOffTypeOK
    BY DEF WriteHistory, OthersAdd, OneOffInv
<1>2. /\ (InProgress' <=> InProgress) /\ (Forward' <=> Forward) /\ Step' = Step
      /\ TargetFile' = TargetFile
      /\ (Early' <=> Early) /\ (Late' <=> Late) /\ (Back' <=> Back)
    BY <1>1 DEF InProgress, Forward, Step, TargetFile, Early, Late, Back
<1>3. OneOffTypeOK'
  <2>1. rows' \subseteq Data \cup {"db"}
      BY <1>1 DEF OneOffTypeOK
  <2> QED
      BY <1>1, <1>2, <2>1 DEF OneOffTypeOK
<1>4. RowsAreNew'
  <2>1. /\ SnapshotIsOlder(State) /\ (InProgress => SnapshotIsOlder(op.pre))
      BY DEF OneOffInv, RowsAreNew
  <2>2. SnapshotIsOlder(State)'
      BY <1>1, <2>1 DEF SnapshotIsOlder, State
  <2>3. InProgress' => SnapshotIsOlder(op.pre)'
      BY <1>1, <1>2, <2>1 DEF SnapshotIsOlder
  <2>4. TargetFile \notin rows' => TargetFile \notin rows
      BY <1>1
  <2> QED
      BY <1>1, <1>2, <2>2, <2>3, <2>4 DEF OneOffInv, RowsAreNew
<1>5. RehearsedAsReviewed'
    BY <1>1 DEF OneOffInv, RehearsedAsReviewed
<1>6. ASSUME ~ unseen'
      PROVE  EarlyInv' /\ LateInv' /\ BackInv' /\ FilesAreBacked' /\ NothingIsLost'
  <2>1. /\ ~ unseen /\ ~ Unprotected("db") /\ EarlyInv /\ FilesAreBacked /\ NothingIsLost
      BY <1>1, <1>6 DEF OneOffInv
  <2>2. ~ Late /\ ~ Back /\ (InProgress => Early)
      BY <1>1, <2>1, UnprotectedIsLate DEF Late, Back, Forward
  <2>3. LateInv' /\ BackInv'
      BY <1>2, <2>2 DEF LateInv, BackInv
  <2>4. EarlyInv'
    <3> SUFFICES ASSUME Early PROVE EarlyInv'
        BY <1>2 DEF EarlyInv
    <3>1. (Seen' <=> Seen) /\ (StatesNow' <=> StatesNow)
        BY <1>1 DEF Seen, StatesNow, TargetFile
    <3> QED
        BY <1>1, <1>2, <2>1, <3>1 DEF EarlyInv
  <2>5. NothingIsLost'
      BY <1>1, <2>1 DEF NothingIsLost, InDatabase
  <2>6. ASSUME NEW s \in Data \ {"master"}
        PROVE  ~ MayBeTorn(s)' /\ (~ Unattested(s) \/ Logged(s))'
    <3>1. ~ MayBeTorn(s) /\ ~ MayBeTorn(s)'
        BY <1>2, <2>2 DEF MayBeTorn
    <3>2. ~ Unattested(s) \/ Logged(s)
        BY <2>1, <3>1 DEF FilesAreBacked
    <3> QED
        BY <1>1, <3>1, <3>2 DEF Unattested, Logged
  <2>7. FilesAreBacked'
      BY <2>6 DEF FilesAreBacked
  <2> QED
      BY <2>3, <2>4, <2>5, <2>7
<1> QED
    BY <1>3, <1>4, <1>5, <1>6 DEF OneOffInv

(* What is committed already comes to the main file: to a run that has        *)
(* compared, nothing can come any more.                                       *)
LEMMA CheckpointKeeps ==
  ASSUME OneOffInv, OutsideIsNew, Checkpoint
  PROVE  OneOffInv'
<1>1. /\ wal # {} /\ wal' = {} /\ runtime' = runtime \cup wal
      /\ unseen' = unseen /\ rows' = rows /\ file' = file /\ stated' = stated
      /\ review' = review /\ rehearsed' = rehearsed /\ op' = op /\ journals' = journals
      /\ OneOffTypeOK
    BY DEF Checkpoint, UnchangedOther, OneOffInv
<1>2. /\ (InProgress' <=> InProgress) /\ (Forward' <=> Forward) /\ Step' = Step
      /\ TargetFile' = TargetFile
      /\ (Early' <=> Early) /\ (Late' <=> Late) /\ (Back' <=> Back)
    BY <1>1 DEF InProgress, Forward, Step, TargetFile, Early, Late, Back
<1>3. "db" \in rows /\ runtime' \in Contents
    BY <1>1 DEF OutsideIsNew, OneOffTypeOK, Contents
<1>4. OneOffTypeOK'
    BY <1>1, <1>2, <1>3 DEF OneOffTypeOK
<1>5. RowsAreNew' /\ RehearsedAsReviewed'
    BY <1>1, <1>2, <1>3 DEF OneOffInv, RowsAreNew, SnapshotIsOlder, State, RehearsedAsReviewed
<1>6. ASSUME ~ unseen
      PROVE  EarlyInv' /\ LateInv' /\ BackInv' /\ FilesAreBacked' /\ NothingIsLost'
  <2>1. (Seen' <=> Seen) /\ (StatesNow' <=> StatesNow) /\ (OthersStay' <=> OthersStay)
        /\ (PreHasRows => PreHasRows')
      BY <1>1, <1>2 DEF Seen, StatesNow, OthersStay, PreHasRows
  <2>2. EarlyInv' /\ LateInv' /\ BackInv'
      BY <1>1, <1>2, <1>6, <2>1 DEF OneOffInv, EarlyInv, LateInv, BackInv
  <2>3. \A t : /\ (MayBeTorn(t)' <=> MayBeTorn(t)) /\ (Unattested(t)' <=> Unattested(t))
              /\ (Logged(t)' <=> Logged(t))
      BY <1>1, <1>2 DEF MayBeTorn, Unattested, Logged
  <2>4. FilesAreBacked'
      BY <1>6, <2>3 DEF OneOffInv, FilesAreBacked
  <2>5. NothingIsLost'
      BY <1>1, <1>6 DEF OneOffInv, NothingIsLost, InDatabase
  <2> QED
      BY <2>2, <2>4, <2>5
<1> QED
    BY <1>1, <1>4, <1>5, <1>6 DEF OneOffInv

(* An everyday publish that is taken back may bring old rows, never new ones. *)
LEMMA TakeRowBackKeeps ==
  ASSUME OneOffInv, OutsideIsNew, TakeRowBack
  PROVE  OneOffInv'
<1>1. /\ everyday # NoMode /\ unseen' /\ stated' = everyday.manifest
      /\ file' = [file EXCEPT ![everyday.file] = everyday.before]
      /\ runtime' = runtime /\ rows' = rows /\ review' = review /\ rehearsed' = rehearsed
      /\ op' = op /\ journals' = journals /\ OneOffTypeOK
    BY DEF TakeRowBack, OneOffInv
<1>2. /\ everyday.file \in rows /\ everyday.before \in Contents
      /\ everyday.manifest \in Stateds
      /\ \A t \in Data \ rows : "row" \notin everyday.manifest[t]
    BY <1>1 DEF OutsideIsNew
<1>3. /\ (InProgress' <=> InProgress) /\ (Forward' <=> Forward) /\ TargetFile' = TargetFile
    BY <1>1 DEF InProgress, Forward, TargetFile
<1>4. file' \in Stateds /\ \A t \in Data \ rows : file'[t] = file[t]
    BY <1>1, <1>2 DEF OneOffTypeOK, Stateds
<1>5. OneOffTypeOK'
    BY <1>1, <1>2, <1>3, <1>4 DEF OneOffTypeOK
<1>6. RowsAreNew' /\ RehearsedAsReviewed'
    BY <1>1, <1>2, <1>3, <1>4
       DEF OneOffInv, RowsAreNew, SnapshotIsOlder, State, RehearsedAsReviewed
<1> QED
    BY <1>1, <1>5, <1>6 DEF OneOffInv

LEMMA OutsideKeeps ==
  ASSUME OneOffInv, OutsideIsNew, [OneOffNext]_ovars
  PROVE  OutsideIsNew'
<1>1. CASE UNCHANGED <<wal, everyday, rows>>
    BY <1>1 DEF OutsideIsNew
<1>2. ASSUME NEW t \in Data, PublishRow(t)
      PROVE  OutsideIsNew'
  <2>1. /\ t \notin rows /\ rows' = rows \cup {t} /\ wal' = wal
        /\ everyday' = [file |-> t, before |-> file[t], manifest |-> stated]
      BY <1>2 DEF PublishRow, OthersAdd
  <2>2. file[t] \in Contents /\ stated \in Stateds
      BY DEF OneOffInv, OneOffTypeOK, Stateds
  <2>3. \A u \in Data \ rows' : "row" \notin stated[u]
      BY <2>1 DEF OneOffInv, RowsAreNew, SnapshotIsOlder, State
  <2>4. "db" \notin rows' => wal' = {}
      BY <2>1 DEF OutsideIsNew
  <2> QED
      BY <2>1, <2>2, <2>3, <2>4 DEF OutsideIsNew
<1>3. CASE TakeRowBack
    BY <1>3 DEF TakeRowBack, OutsideIsNew
<1>4. CASE WriteHistory
    BY <1>4 DEF WriteHistory, OthersAdd, OutsideIsNew, Contents, Changes
<1>5. CASE Checkpoint
    BY <1>5 DEF Checkpoint, UnchangedOther, OutsideIsNew, Contents
<1>6. ASSUME NEW k \in Modes, Review(k) \/ Rehearse(k) \/ ReadFormal(k)
      PROVE  UNCHANGED <<wal, everyday, rows>>
    BY <1>6 DEF Review, Rehearse, ReadFormal, UnchangedFiles
<1>7. CASE Hash \/ AskRehearsal \/ StateManifest \/ RebuildDatabase \/ CopyFiles \/ WriteJournal
    BY <1>1, <1>7 DEF Hash, AskRehearsal, StateManifest, RebuildDatabase, CopyFiles,
                      WriteJournal, UnchangedFiles, UnchangedOther
<1>8. CASE Replace \/ Verify \/ WriteReceipt \/ Fail \/ RestoreFile \/ Settle \/ KillOneOff
    BY <1>1, <1>8 DEF Replace, Verify, WriteReceipt, Fail, RestoreFile, Settle, KillOneOff,
                      UnchangedFiles, UnchangedOther
<1>9. CASE UNCHANGED ovars
    BY <1>1, <1>9 DEF ovars
<1> QED
    BY <1>1, <1>2, <1>3, <1>4, <1>5, <1>6, <1>7, <1>8, <1>9 DEF OneOffNext

LEMMA OneOffStutters ==
  ASSUME OneOffInv, UNCHANGED ovars
  PROVE  OneOffInv'
<1>1. /\ file' = file /\ stated' = stated /\ runtime' = runtime /\ wal' = wal /\ review' = review
      /\ rehearsed' = rehearsed /\ op' = op /\ journals' = journals /\ rows' = rows
      /\ unseen' = unseen
    BY DEF ovars
<1>2. (InProgress' <=> InProgress) /\ (Forward' <=> Forward) /\ Step' = Step
      /\ TargetFile' = TargetFile
    BY <1>1 DEF InProgress, Forward, Step, TargetFile
<1>3. (Early' <=> Early) /\ (Late' <=> Late) /\ (Back' <=> Back)
    BY <1>1, <1>2 DEF Early, Late, Back
<1>4. OneOffTypeOK' /\ RowsAreNew' /\ RehearsedAsReviewed'
    BY <1>1, <1>2
       DEF OneOffInv, OneOffTypeOK, RowsAreNew, SnapshotIsOlder, State, RehearsedAsReviewed
<1>5. ASSUME ~ unseen
      PROVE  EarlyInv' /\ LateInv' /\ BackInv' /\ FilesAreBacked' /\ NothingIsLost'
  <2>1. (Seen' <=> Seen) /\ (StatesNow' <=> StatesNow)
        /\ (OthersStay' <=> OthersStay) /\ (PreHasRows' <=> PreHasRows)
      BY <1>1, <1>2 DEF Seen, StatesNow, OthersStay, PreHasRows
  <2>2. EarlyInv' /\ LateInv' /\ BackInv'
      BY <1>1, <1>2, <1>3, <1>5, <2>1 DEF OneOffInv, EarlyInv, LateInv, BackInv
  <2>3. \A t : /\ (MayBeTorn(t)' <=> MayBeTorn(t)) /\ (Unattested(t)' <=> Unattested(t))
              /\ (Logged(t)' <=> Logged(t))
      BY <1>1, <1>2, <1>3 DEF MayBeTorn, Unattested, Logged
  <2>4. FilesAreBacked' /\ NothingIsLost'
      BY <1>1, <1>5, <2>3 DEF OneOffInv, FilesAreBacked, NothingIsLost, InDatabase
  <2> QED
      BY <2>2, <2>4
<1> QED
    BY <1>1, <1>4, <1>5 DEF OneOffInv

LEMMA OneOffInductive ==
  OneOffInv /\ OutsideIsNew /\ [OneOffNext]_ovars => OneOffInv'
<1> SUFFICES ASSUME OneOffInv, OutsideIsNew, [OneOffNext]_ovars
             PROVE  OneOffInv'
    OBVIOUS
<1>1. ASSUME NEW k \in Modes, Review(k) \/ Rehearse(k) \/ ReadFormal(k)
      PROVE  OneOffInv'
    BY <1>1, ReviewKeeps, RehearseKeeps, ReadKeeps
<1>2. CASE Hash \/ AskRehearsal \/ StateManifest \/ RebuildDatabase \/ CopyFiles
    BY <1>2, HashKeeps, RehearsalKeeps, StateKeeps, RebuildKeeps, CopyKeeps
<1>3. CASE WriteJournal \/ Replace \/ Verify \/ WriteReceipt
    BY <1>3, JournalKeeps, ReplaceKeeps, VerifyKeeps, ReceiptKeeps
<1>4. CASE Fail \/ RestoreFile \/ Settle \/ KillOneOff
    BY <1>4, FailKeeps, RestoreKeeps, SettleKeeps, KillKeeps
<1>5. ASSUME NEW t \in Data, PublishRow(t)
      PROVE  OneOffInv'
    BY <1>5, RowKeeps
<1>6. CASE TakeRowBack \/ WriteHistory \/ Checkpoint
    BY <1>6, TakeRowBackKeeps, HistoryKeeps, CheckpointKeeps
<1>7. CASE UNCHANGED ovars
    BY <1>7, OneOffStutters
<1> QED
    BY <1>1, <1>2, <1>3, <1>4, <1>5, <1>6, <1>7 DEF OneOffNext

LEMMA OneOffSpecKeeps == OneOffSpec => []OneOffInv
<1>1. OneOffInit => OutsideIsNew
    BY DEF OneOffInit, OutsideIsNew, Contents
<1>2. OneOffInv /\ OutsideIsNew /\ [OneOffNext]_ovars => OneOffInv' /\ OutsideIsNew'
    BY OneOffInductive, OutsideKeeps
<1> QED
    BY OneOffStart, <1>1, <1>2, PTL DEF OneOffSpec

(* Whichever of the modes ran, in which order, wherever one failed or was     *)
(* killed, and however many rows others published before its comparison,      *)
(* never to take them back: a formal file that is not what the manifest       *)
(* states has a journal from a time when both agreed.                         *)
THEOREM TornFilesAreBackedUp == OneOffSpec => []TornFileHasBackup
<1>1. OneOffInv => TornFileHasBackup
    BY DEF OneOffInv, FilesAreBacked, MayBeTorn, Logged, IsBackupOf, TornFileHasBackup
<1> QED
    BY <1>1, OneOffSpecKeeps, PTL

(* The last comparison of each mode comes late enough: neither replacing      *)
(* whole files nor taking them back drops a row that others published before; *)
(* of the database, one that was in its main file by then.                    *)
THEOREM NothingGetsLost == OneOffSpec => []NothingIsLost
<1>1. OneOffInv => NothingIsLost
    BY DEF OneOffInv, NothingIsLost, InDatabase
<1> QED
    BY <1>1, OneOffSpecKeeps, PTL
=============================================================================
