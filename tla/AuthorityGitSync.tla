-------------------------- MODULE AuthorityGitSync ---------------------------
(* The look at whether the formal authority is what the canonical Git branch  *)
(* holds (p1008_authority_git_sync.py): the manifest is read, every file it   *)
(* lists is hashed against it, the tip of the branch is asked for at the      *)
(* remote, and then manifest and files are compared with the tree of that     *)
(* commit, one by one and from disk again.  It changes nothing; publishers    *)
(* and the Owner's Git commands go on meanwhile.                              *)
EXTENDS Naturals, Sequences

CONSTANTS Governed,    \* the sequence of files the manifest lists
          MaxVersion,  \* bound: versions of a file
          MaxCommits,  \* bound: commits on the canonical branch
          MaxLooks     \* bound: evaluations

VARIABLES tree,     \* the working tree: the files, and the manifest
          writing,  \* the file a publisher has replaced and not yet attested
          branch,   \* the commits of the canonical branch at the remote
          known,    \* those that this clone has
          look,     \* the evaluation
          looks

gvars == <<tree, writing, branch, known, look, looks>>

Files == {Governed[i] : i \in DOMAIN Governed}
Nowhere == "nowhere"

(* The manifest does not list itself. *)
ASSUME GovernedAreFiles ==
    /\ Governed \in Seq(Files)
    /\ "manifest" \notin Files /\ Nowhere \notin Files

(* Bytes on disk are a version with its line ends.  Git keeps one kind of them *)
(* only (.gitattributes: text eol=lf), so a commit, and git hash-object --path,*)
(* have the converted bytes, in which "crlf" stands for whatever it converts. *)
LineEnds == {"lf", "crlf"}
Bytes == [version : Nat, eol : LineEnds]
Clean(content) == [content EXCEPT !.eol = "lf"]

Committed(t) == [file |-> [f \in Files |-> Clean(t.file[f])],
                 manifest |-> Clean(t.manifest)]

(* The manifest attests bytes as they lie on disk, and has line ends itself.  *)
Attests(t) == t.manifest.hashes = t.file

(* validate_formal_authority and the comparison both go through the manifest  *)
(* first and then through what it lists.                                      *)
Items == <<"manifest">> \o Governed

Content(t, item) == IF item = "manifest" THEN t.manifest ELSE t.file[item]

First == [f \in Files |-> [version |-> 0, eol |-> "lf"]]

LookAt(pc, manifest) ==
    [pc |-> pc, manifest |-> manifest, next |-> 1, valid |-> TRUE, commit |-> 0,
     known |-> TRUE, same |-> TRUE, overtaken |-> FALSE]
NoLook == LookAt("idle", First)

-----------------------------------------------------------------------------
(* Everyday publishers: a file is replaced, then the manifest, or the file is *)
(* put back; or the publisher dies between them.  Which line ends they write  *)
(* depends on the file before and on the platform.                            *)
Overtake == [look EXCEPT !.overtaken = @ \/ look.pc # "idle"]

ReplaceFile(f) ==
    /\ writing = Nowhere /\ tree.file[f].version < MaxVersion
    /\ \E eol \in LineEnds :
          tree' = [tree EXCEPT !.file[f] = [version |-> @.version + 1, eol |-> eol]]
    /\ writing' = f /\ look' = Overtake
    /\ UNCHANGED <<branch, known, looks>>

Attest ==
    /\ writing # Nowhere
    /\ \E eol \in LineEnds :
          tree' = [tree EXCEPT !.manifest =
                      [hashes |-> [@.hashes EXCEPT ![writing] = tree.file[writing]],
                       eol |-> eol]]
    /\ writing' = Nowhere /\ look' = Overtake
    /\ UNCHANGED <<branch, known, looks>>

PutBack ==
    /\ writing # Nowhere
    /\ tree' = [tree EXCEPT !.file[writing] = tree.manifest.hashes[writing]]
    /\ writing' = Nowhere /\ look' = Overtake
    /\ UNCHANGED <<branch, known, looks>>

PublisherDies ==
    /\ writing # Nowhere /\ writing' = Nowhere
    /\ UNCHANGED <<tree, branch, known, look, looks>>

(* The Owner commits what lies in the working tree, whatever a publisher is   *)
(* doing, and pushes it; or somebody pushes an older tree again from          *)
(* elsewhere; or fetches; or an editor or a checkout changes the line ends of *)
(* a file.                                                                    *)
Push ==
    /\ Len(branch) < MaxCommits
    /\ branch' = Append(branch, Committed(tree))
    /\ known' = known \cup {Len(branch) + 1}
    /\ UNCHANGED <<tree, writing, look, looks>>

PushElsewhere ==
    /\ Len(branch) < MaxCommits
    /\ \E n \in DOMAIN branch : branch' = Append(branch, branch[n])
    /\ UNCHANGED <<tree, writing, known, look, looks>>

Fetch ==
    /\ known' = DOMAIN branch
    /\ UNCHANGED <<tree, writing, branch, look, looks>>

ChangeLineEnds(f) ==
    /\ \E eol \in LineEnds : tree' = [tree EXCEPT !.file[f].eol = eol]
    /\ look' = Overtake
    /\ UNCHANGED <<writing, branch, known, looks>>

-----------------------------------------------------------------------------
(* evaluate_authority_git_sync as far as the manifest. *)
ReadManifest ==
    /\ look.pc = "idle" /\ looks < MaxLooks
    /\ look' = LookAt("validate", tree.manifest.hashes) /\ looks' = looks + 1
    /\ UNCHANGED <<tree, writing, branch, known>>

(* validate_formal_authority: every file is hashed against the manifest as it *)
(* was read, and all that differ are collected.                               *)
Validate ==
    /\ look.pc = "validate" /\ look.next <= Len(Governed)
    /\ LET f == Governed[look.next]
       IN  look' = [look EXCEPT !.next = @ + 1,
                                !.valid = @ /\ tree.file[f] = look.manifest[f]]
    /\ UNCHANGED <<tree, writing, branch, known, looks>>

(* verify_canonical_git_remote: the remote itself is asked, never a ref of    *)
(* the clone; a query that fails blocks, as a mismatch before it does.        *)
QueryRemote ==
    /\ look.pc = "validate" /\ look.next > Len(Governed)
    /\ look' = IF look.valid /\ branch # <<>>
               THEN [look EXCEPT !.pc = "compare", !.next = 1, !.commit = Len(branch)]
               ELSE [look EXCEPT !.pc = "BLOCKED"]
    /\ UNCHANGED <<tree, writing, branch, known, looks>>

(* Mutant: the manifest is not compared, since it is no governed file. *)
CompareFiles ==
    /\ look.pc = "compare" /\ look.next <= Len(Governed)
    /\ look' = [look EXCEPT
           !.next = IF @ = Len(Governed) THEN Len(Items) + 1 ELSE @ + 1,
           !.known = @ /\ look.commit \in known,
           !.same = @ /\ Clean(tree.file[Governed[look.next]])
                             = branch[look.commit].file[Governed[look.next]]]
    /\ UNCHANGED <<tree, writing, branch, known, looks>>

(* Both identities of an item: of the bytes on disk now as Git converts them, *)
(* and in the commit, which only a clone that has it can name.                *)
Compare ==
    /\ look.pc = "compare" /\ look.next <= Len(Items)
    /\ LET item == Items[look.next]
       IN  look' = [look EXCEPT
               !.next = @ + 1,
               !.known = @ /\ look.commit \in known,
               !.same = @ /\ Clean(Content(tree, item))
                                 = Content(branch[look.commit], item)]
    /\ UNCHANGED <<tree, writing, branch, known, looks>>

Conclude ==
    /\ look.pc = "compare" /\ look.next > Len(Items)
    /\ look' = [look EXCEPT !.pc = CASE ~ look.known -> "BLOCKED"
                                     [] look.known /\ look.same -> "SYNCED"
                                     [] OTHER -> "PENDING"]
    /\ UNCHANGED <<tree, writing, branch, known, looks>>

(* Git may fail or hang in any of the steps that ask it. *)
GitFails ==
    /\ look.pc = "compare" \/ (look.pc = "validate" /\ look.next > Len(Governed))
    /\ look' = [look EXCEPT !.pc = "BLOCKED"]
    /\ UNCHANGED <<tree, writing, branch, known, looks>>

Leave ==
    /\ look.pc \in {"SYNCED", "PENDING", "BLOCKED"}
    /\ look' = NoLook
    /\ UNCHANGED <<tree, writing, branch, known, looks>>

SyncInit ==
    /\ tree = [file |-> First, manifest |-> [hashes |-> First, eol |-> "lf"]]
    /\ writing = Nowhere
    /\ branch = <<>> /\ known = {}
    /\ look = NoLook /\ looks = 0

SyncNext ==
    \/ \E f \in Files : ReplaceFile(f) \/ ChangeLineEnds(f)
    \/ Attest \/ PutBack \/ PublisherDies
    \/ Push \/ PushElsewhere \/ Fetch
    \/ ReadManifest \/ Validate \/ QueryRemote \/ Compare \/ Conclude \/ GitFails \/ Leave

SyncSpec == SyncInit /\ [][SyncNext]_gvars

-----------------------------------------------------------------------------
(* SYNCED is only said while the manifest attests the bytes of the working    *)
(* tree and the commit is what Git makes of that tree: neither a publish that *)
(* died half-way, nor a commit made of one, nor a branch that went on or back,*)
(* nor changed line ends make it a lie.  The bytes in the commit are attested *)
(* up to their line ends only: where Git converts a file, a fresh checkout    *)
(* need not have the hash that its manifest lists.  A publisher or an editor  *)
(* at work during the evaluation can make SYNCED wrong: the bytes compared    *)
(* are not the bytes that were validated.                                     *)
SyncedMeansAttested ==
    look.pc = "SYNCED" /\ ~ look.overtaken =>
        /\ Attests(tree)
        /\ branch[look.commit] = Committed(tree)
=============================================================================
