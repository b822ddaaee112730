---------------------------- MODULE ReviewWorkspace ----------------------------
(***************************************************************************)
(* The three modes of scripts/materialize-exact-revision-review.py, run    *)
(* one after the other by a workflow job: "materialize" publishes a        *)
(* workspace of two files, "bind-assets" seals its metadata over the       *)
(* protected assets, "verify" regenerates the workspace and compares.      *)
(*                                                                         *)
(* The pull request is outside: it may leave the expected revisions and    *)
(* come back at any time. Between two runs other steps of the job may      *)
(* change any file. A run may fail or be killed at any step.               *)
(*                                                                         *)
(* The arguments are the same in every run. The diff of the expected       *)
(* revisions and the metadata that names them are "exact"; any other       *)
(* content is "other". A hash is the value it was made of.                 *)
(***************************************************************************)
EXTENDS Naturals

CONSTANTS
  Asset, Content,      \* the protected assets and what may be in them
  NoFile, Unbound,     \* no file; no binding
  MaxRuns, MaxEdits    \* bounds: runs of the program, edits between them

ASSUME BoundsAssumption == MaxRuns \in Nat /\ MaxEdits \in Nat

VARIABLES
  live,       \* whether the pull request is as expected now
  away,       \* whether it has been away ever since the diff was computed
  asset,      \* the protected assets
  review,     \* the workspace: its directory, patch and metadata
  recheck,    \* the regenerated workspace of verify
  pc, mode,
  known,      \* the metadata verify has read
  mine,       \* whether the run has created the workspace
  stuck,      \* what this run could not remove
  result,     \* of the last run, until a file is changed
  runs, edits

bounds == <<runs, edits>>
vars == <<live, away, asset, review, recheck, pc, mode, known, mine, stuck, result,
          runs, edits>>

Body == {"exact", "other"}
Binding == [Asset -> Content]
Mode == {"materialize", "bind", "verify"}

(* input is what input_sha256 was computed of.                             *)
Sealed(names, binding) == [names |-> names, bound |-> binding, input |-> <<names, binding>>]
NewMetadata == [names |-> "exact", bound |-> Unbound, input |-> Unbound]
Metadata == {NewMetadata} \union {Sealed(n, b) : n \in Body, b \in Binding}

ASSUME DistinctAssumption ==
  /\ NoFile \notin Body /\ NoFile \notin Metadata
  /\ Unbound \notin Binding /\ Unbound \notin Body \X Binding

Workspace ==
  [dir : BOOLEAN, patch : Body \union {NoFile}, metadata : Metadata \union {NoFile}]
NoWorkspace == [dir |-> FALSE, patch |-> NoFile, metadata |-> NoFile]

Label == {"idle", "examine", "first", "objects", "second", "mkdir", "patch", "metadata", "leave",
          "clean_metadata", "clean_patch", "clean_dir", "compare", "bind"}

(* Types.                                                                  *)
TypeOK ==
  /\ live \in BOOLEAN /\ away \in BOOLEAN /\ asset \in Binding
  /\ review \in Workspace /\ recheck \in Workspace
  /\ pc \in Label /\ mode \in Mode /\ known \in Metadata \union {NoFile}
  /\ mine \in BOOLEAN /\ stuck \subseteq {"metadata", "patch", "dir", "temporary"}
  /\ result \in {"none", "ok", "fail", "killed"}
  /\ runs \in 0..MaxRuns /\ edits \in 0..MaxEdits

Init ==
  /\ live \in BOOLEAN /\ away = FALSE /\ asset \in Binding
  /\ review = NoWorkspace /\ recheck = NoWorkspace
  /\ pc = "idle" /\ mode = "materialize" /\ known = NoFile /\ mine = FALSE
  /\ stuck = {} /\ result = "none" /\ runs = 0 /\ edits = 0

-----------------------------------------------------------------------------
(* The pull request and the other steps of the job.                        *)

Move ==
  /\ live' = ~live /\ away' = (away /\ live)
  /\ UNCHANGED <<asset, review, recheck, pc, mode, known, mine, stuck, result, bounds>>

EditAsset ==
  /\ \E a \in Asset, c \in Content : asset' = [asset EXCEPT ![a] = c]
  /\ UNCHANGED review

EditWorkspace ==
  /\ review.dir /\ UNCHANGED asset
  /\ \/ \E b \in Body \union {NoFile} : review' = [review EXCEPT !.patch = b]
     \/ \E m \in Metadata \union {NoFile} : review' = [review EXCEPT !.metadata = m]

Edit ==
  /\ pc = "idle" /\ edits < MaxEdits /\ edits' = edits + 1 /\ result' = "none"
  /\ EditAsset \/ EditWorkspace
  /\ UNCHANGED <<live, away, recheck, pc, mode, known, mine, stuck, runs>>

-----------------------------------------------------------------------------
(* Beginning and end of a run.                                             *)

FirstStep(m) ==
  CASE m = "materialize" -> "first" [] m = "bind" -> "bind" [] m = "verify" -> "examine"

Begin ==
  /\ pc = "idle" /\ runs < MaxRuns /\ runs' = runs + 1
  /\ mode' \in Mode /\ pc' = FirstStep(mode')
  /\ result' = "none" /\ mine' = FALSE /\ stuck' = {}
  /\ UNCHANGED <<live, away, asset, review, recheck, known, edits>>

(* The temporary directory of verify goes with the run.                    *)
Return(r) == pc' = "idle" /\ result' = r /\ recheck' = NoWorkspace /\ known' = NoFile

(* A check, a command or a file operation that has changed nothing fails.  *)
Fail ==
  /\ pc \in {"examine", "first", "objects", "second", "mkdir", "compare", "bind"}
  /\ Return("fail")
  /\ UNCHANGED <<live, away, asset, review, mode, mine, stuck, bounds>>

Killed ==
  /\ pc # "idle" /\ Return("killed")
  /\ UNCHANGED <<live, away, asset, review, mode, mine, stuck, bounds>>

-----------------------------------------------------------------------------
(* materialize, called by the mode of its name and by verify.              *)

Target == IF mode = "verify" THEN recheck ELSE review

Put(w) ==
  IF mode = "verify" THEN recheck' = w /\ UNCHANGED review
  ELSE review' = w /\ UNCHANGED recheck

Goto(step) == pc' = step /\ UNCHANGED <<known, result>>

FirstRead ==
  /\ pc = "first" /\ ~Target.dir /\ live /\ Goto("objects")
  /\ UNCHANGED <<live, away, asset, review, recheck, mode, mine, stuck, bounds>>

(* The two commits are fetched by their identifiers, so the diff is exact  *)
(* wherever the pull request is by now.                                    *)
ReadObjects ==
  /\ pc = "objects" /\ Goto("second") /\ away' = ~live
  /\ UNCHANGED <<live, asset, review, recheck, mode, mine, stuck, bounds>>

(* Mutant of SecondRead: the first read is taken to be enough.             *)
SecondReadOmitted ==
  /\ pc = "second" /\ Goto("mkdir")
  /\ UNCHANGED <<live, away, asset, review, recheck, mode, mine, stuck, bounds>>

SecondRead ==
  /\ pc = "second" /\ live /\ Goto("mkdir")
  /\ UNCHANGED <<live, away, asset, review, recheck, mode, mine, stuck, bounds>>

MakeDirectory ==
  /\ pc = "mkdir" /\ ~Target.dir /\ Put([Target EXCEPT !.dir = TRUE])
  /\ mine' = TRUE /\ Goto("patch")
  /\ UNCHANGED <<live, away, asset, mode, stuck, bounds>>

(* Mutant of WritePatch: a failed write of the diff goes unnoticed.        *)
WritePatchRegardless ==
  /\ pc = "patch" /\ UNCHANGED <<live, away, asset, mode, mine, stuck, bounds>>
  /\ Put([Target EXCEPT !.patch = "exact"]) \/ UNCHANGED <<review, recheck>>
  /\ Goto("metadata")

(* A write that reports failure may have replaced its file (ProtectedFile, *)
(* FailureIsClean).                                                        *)
WritePatch ==
  /\ pc = "patch" /\ UNCHANGED <<live, away, asset, mode, mine, stuck, bounds>>
  /\ \/ /\ Put([Target EXCEPT !.patch = "exact"])
        /\ \E step \in {"metadata", "clean_metadata"} : Goto(step)
     \/ UNCHANGED <<review, recheck>> /\ Goto("clean_metadata")

WriteMetadata ==
  /\ pc = "metadata" /\ UNCHANGED <<live, away, asset, mode, mine, stuck, bounds>>
  /\ \/ /\ Put([Target EXCEPT !.metadata = NewMetadata])
        /\ \E step \in {"leave", "clean_metadata"} : Goto(step)
     \/ UNCHANGED <<review, recheck>> /\ Goto("clean_metadata")

(* The temporary directory with the objects is removed; if that fails the  *)
(* run does, with its workspace published.                                 *)
Leave ==
  /\ pc = "leave" /\ UNCHANGED <<live, away, asset, review, mode, mine, bounds>>
  /\ \/ mode = "verify" /\ Goto("compare") /\ UNCHANGED <<recheck, stuck>>
     \/ mode = "materialize" /\ Return("ok") /\ UNCHANGED stuck
     \/ Return("fail") /\ stuck' = stuck \union {"temporary"}

(* A removal may fail; the others are tried all the same.                  *)
Clean(step, name, next, cleaned) ==
  /\ pc = step /\ Goto(next)
  /\ UNCHANGED <<live, away, asset, mode, mine, bounds>>
  /\ \/ Put(cleaned) /\ UNCHANGED stuck
     \/ UNCHANGED <<review, recheck>> /\ stuck' = stuck \union {name}

CleanMetadata ==
  Clean("clean_metadata", "metadata", "clean_patch", [Target EXCEPT !.metadata = NoFile])

CleanPatch == Clean("clean_patch", "patch", "clean_dir", [Target EXCEPT !.patch = NoFile])

(* Mutant of CleanDirectory: the empty directory is left behind.           *)
KeepDirectory ==
  /\ pc = "clean_dir" /\ Return("fail")
  /\ UNCHANGED <<live, away, asset, review, mode, mine, stuck, bounds>>

(* rmdir; then the failure is raised again.                                *)
CleanDirectory ==
  /\ pc = "clean_dir" /\ Return("fail")
  /\ UNCHANGED <<live, away, asset, mode, mine, bounds>>
  /\ \/ /\ mode = "verify" \/ review = [NoWorkspace EXCEPT !.dir = TRUE]
        /\ review' = IF mode = "verify" THEN review ELSE NoWorkspace
        /\ UNCHANGED stuck
     \/ stuck' = stuck \union {"dir"} /\ UNCHANGED review

-----------------------------------------------------------------------------
(* bind-assets and verify.                                                 *)

(* Mutant of BindAssets: bindings that are there are replaced.             *)
BindAssetsAgain ==
  /\ pc = "bind" /\ review.metadata # NoFile
  /\ review' = [review EXCEPT !.metadata = Sealed(@.names, asset)]
  /\ \E r \in {"ok", "fail", "killed"} : Return(r)
  /\ UNCHANGED <<live, away, asset, mode, mine, stuck, bounds>>

(* Refuses metadata that is bound; the write may report a failure after it *)
(* has replaced the file.                                                  *)
BindAssets ==
  /\ pc = "bind" /\ review.metadata # NoFile
  /\ review.metadata.bound = Unbound /\ review.metadata.input = Unbound
  /\ review' = [review EXCEPT !.metadata = Sealed(@.names, asset)]
  /\ \E r \in {"ok", "fail", "killed"} : Return(r)
  /\ UNCHANGED <<live, away, asset, mode, mine, stuck, bounds>>

(* Both files are there and the keys of the metadata are complete.         *)
Examine ==
  /\ pc = "examine" /\ review.patch # NoFile /\ review.metadata # NoFile
  /\ review.metadata.bound # Unbound /\ review.metadata.input # Unbound
  /\ known' = review.metadata /\ pc' = "first" /\ UNCHANGED result
  /\ UNCHANGED <<live, away, asset, review, recheck, mode, mine, stuck, bounds>>

(* Mutant of Compare: the metadata's own digest vouches for the patch.     *)
CompareMetadata ==
  /\ pc = "compare" /\ known = Sealed(recheck.metadata.names, asset)
  /\ Return("ok")
  /\ UNCHANGED <<live, away, asset, review, mode, mine, stuck, bounds>>

(* The patch against the regenerated one, byte by byte, and each key of    *)
(* the metadata against the regenerated and freshly bound metadata.        *)
Compare ==
  /\ pc = "compare" /\ review.patch = recheck.patch
  /\ known = Sealed(recheck.metadata.names, asset)
  /\ Return("ok")
  /\ UNCHANGED <<live, away, asset, review, mode, mine, stuck, bounds>>

Materialize ==
  \/ FirstRead \/ ReadObjects \/ SecondRead \/ MakeDirectory \/ WritePatch \/ WriteMetadata
  \/ Leave \/ CleanMetadata \/ CleanPatch \/ CleanDirectory

Program == Begin \/ Materialize \/ BindAssets \/ Examine \/ Compare \/ Fail \/ Killed

Next == Program \/ Move \/ Edit

Spec == Init /\ [][Next]_vars

-----------------------------------------------------------------------------
(* What verify has accepted is, as long as no file is changed, the exact   *)
(* diff and metadata bound to the assets as they are; and the pull request *)
(* was at the expected revisions at some moment after the diff was         *)
(* computed again (verify's comparisons; read_live_pull_request).          *)
VerifiedIsExact ==
  pc = "idle" /\ mode = "verify" /\ result = "ok" =>
    /\ review.patch = "exact" /\ review.metadata = Sealed("exact", asset)
    /\ ~away

(* The input hash, by which reviews are counted, is never computed anew:   *)
(* no run of the program, in whatever order, changes sealed metadata       *)
(* (bind_assets' refusal).                                                 *)
SealIsFinal ==
  [][edits' = edits /\ review.metadata # NoFile /\ review.metadata.input # Unbound
       => review'.metadata = review.metadata]_vars

(* A run that fails leaves nothing of a workspace it has created but what  *)
(* it could not remove itself: a file only if the removal of that very     *)
(* file failed, and the whole workspace, unharmed, only if nothing failed  *)
(* before the temporary directory (write_materialized_workspace: "Publish  *)
(* the two-file review workspace or remove the exact partial output").     *)
FailureIsCleanedUp ==
  pc = "idle" /\ mode = "materialize" /\ result = "fail" /\ mine =>
    \/ review = NoWorkspace
    \/ /\ "dir" \in stuck
       /\ review.metadata # NoFile => "metadata" \in stuck
       /\ review.patch # NoFile => "patch" \in stuck
    \/ /\ "temporary" \in stuck
       /\ review = [dir |-> TRUE, patch |-> "exact", metadata |-> NewMetadata]

(* Metadata that can be bound has its exact patch beside it.               *)
Paired(w) == w.metadata # NoFile => w.patch = "exact"

(* Wherever a run is killed or fails, it has not come to leave metadata    *)
(* without its patch, unless it could not remove that metadata (the order  *)
(* of the two writes and of the two removals).                             *)
MetadataComesLast ==
  [][edits' = edits /\ Paired(review) => Paired(review') \/ "metadata" \in stuck]_vars
================================================================================
