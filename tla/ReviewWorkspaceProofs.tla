------------------------- MODULE ReviewWorkspaceProofs -------------------------
(***************************************************************************)
(* ReviewWorkspace for any assets, contents, number of runs and of edits.  *)
(***************************************************************************)
EXTENDS ReviewWorkspace, TLAPS

(* A pull request that is as expected now has not been away ever since;    *)
(* the second read makes that last.                                        *)
LiveInv ==
  /\ live => ~away
  /\ pc \in {"mkdir", "patch", "metadata", "leave", "compare"} => ~away

(* Which mode takes which steps, and when the workspace is the run's own.  *)
ModeInv ==
  /\ pc \in {"examine", "compare"} => mode = "verify"
  /\ pc = "bind" => mode = "bind"
  /\ pc \notin {"idle", "bind"} => mode # "bind"
  /\ pc \in {"examine", "first", "objects", "second", "mkdir", "bind"} => ~mine
  /\ pc # "idle" => result = "none"

(* No file without its directory.                                          *)
DirInv ==
  /\ ~review.dir => review = NoWorkspace
  /\ pc \in {"idle", "examine", "first", "objects", "second", "mkdir", "bind"} =>
       recheck = NoWorkspace

(* What materialize has written when it is at each step.                   *)
TargetInv ==
  /\ pc \in {"patch", "metadata"} => Target.dir
  /\ pc = "patch" => Target.metadata = NoFile /\ Target.patch = NoFile
  /\ pc = "metadata" => Target.metadata = NoFile /\ Target.patch = "exact"
  /\ pc \in {"leave", "compare"} => Target.metadata = NewMetadata /\ Target.patch = "exact"

(* verify changes nothing of what it verifies.                             *)
KnownInv ==
  mode = "verify" /\ pc \notin {"idle", "examine"} =>
    known = review.metadata /\ known # NoFile

(* What is gone at each step of a cleanup, or else could not be removed.   *)
CleanInv ==
  mode = "materialize" =>
    /\ pc \in {"clean_metadata", "clean_patch", "clean_dir"} =>
         review.dir /\ review.metadata \in {NoFile, NewMetadata}
    /\ pc \in {"clean_patch", "clean_dir"} => review.metadata = NoFile \/ "metadata" \in stuck
    /\ pc = "clean_dir" => review.patch = NoFile \/ "patch" \in stuck

Inv ==
  /\ TypeOK /\ LiveInv /\ ModeInv /\ DirInv /\ TargetInv /\ KnownInv /\ CleanInv
  /\ VerifiedIsExact /\ FailureIsCleanedUp

-----------------------------------------------------------------------------
LEMMA EmptyIsWorkspace == NoWorkspace \in Workspace
  BY DEF NoWorkspace, Workspace

LEMMA InitInv == Init => Inv
<1> SUFFICES ASSUME Init PROVE Inv
  OBVIOUS
<1>1. review \in Workspace /\ recheck \in Workspace
  BY EmptyIsWorkspace DEF Init
<1>2. TypeOK
  <2>1. live \in BOOLEAN /\ away \in BOOLEAN /\ mine \in BOOLEAN
    BY DEF Init
  <2>2. runs \in 0..MaxRuns /\ edits \in 0..MaxEdits
    BY BoundsAssumption DEF Init
  <2>3. pc \in Label /\ mode \in Mode /\ result \in {"none", "ok", "fail", "killed"}
    BY DEF Init, Label, Mode
  <2> QED BY <1>1, <2>1, <2>2, <2>3 DEF Init, TypeOK
<1>3. LiveInv /\ ModeInv /\ DirInv /\ TargetInv /\ KnownInv /\ CleanInv
  BY DEF Init, LiveInv, ModeInv, DirInv, TargetInv, KnownInv, CleanInv
<1>4. VerifiedIsExact /\ FailureIsCleanedUp
  BY DEF Init, VerifiedIsExact, FailureIsCleanedUp, NoWorkspace
<1> QED BY <1>2, <1>3, <1>4 DEF Inv

(* The pull request, the other steps of the job, the ends of a run.        *)
LEMMA OutsideStep ==
  ASSUME Inv, Move \/ Edit \/ Begin \/ Fail \/ Killed PROVE Inv'
<1> USE DistinctAssumption, BoundsAssumption
        DEF Inv, bounds, Return, Goto, Put, Target, NoWorkspace, Workspace
<1>1. CASE Move
  <2>1. TypeOK'
    BY <1>1 DEF Move, TypeOK, Label, Mode, Metadata, NewMetadata, Body
  <2>2. LiveInv'
    BY <1>1 DEF Move, LiveInv
  <2>3. ModeInv'
    BY <1>1 DEF Move, ModeInv, TypeOK, Mode
  <2>4. DirInv'
    BY <1>1 DEF Move, DirInv, TypeOK, TargetInv
  <2>5. TargetInv'
    BY <1>1 DEF Move, TargetInv, DirInv, ModeInv, TypeOK
  <2>6. KnownInv'
    BY <1>1 DEF Move, KnownInv, ModeInv, TypeOK
  <2>7. CleanInv'
    BY <1>1 DEF Move, CleanInv, ModeInv, TargetInv, TypeOK, Mode
  <2>9. VerifiedIsExact'
    BY <1>1 DEF Move, VerifiedIsExact, ModeInv, TypeOK, LiveInv, KnownInv, TargetInv
  <2>10. FailureIsCleanedUp'
    BY <1>1 DEF Move, FailureIsCleanedUp, ModeInv, CleanInv, TypeOK
  <2> QED BY <2>1, <2>2, <2>3, <2>4, <2>5, <2>6, <2>7, <2>9, <2>10
<1>2. CASE Edit
  <2>1. TypeOK'
    BY <1>2 DEF Edit, TypeOK, Label, Mode, Metadata, NewMetadata, Body, EditAsset,
                EditWorkspace, Binding
  <2>2. LiveInv'
    BY <1>2 DEF Edit, LiveInv, EditAsset, EditWorkspace, Binding
  <2>3. ModeInv'
    BY <1>2 DEF Edit, ModeInv, TypeOK, Mode, EditAsset, EditWorkspace, Binding
  <2>4. DirInv'
    BY <1>2 DEF Edit, DirInv, TypeOK, TargetInv, EditAsset, EditWorkspace, Binding
  <2>5. TargetInv'
    BY <1>2 DEF Edit, TargetInv, DirInv, ModeInv, TypeOK, EditAsset, EditWorkspace, Binding
  <2>6. KnownInv'
    BY <1>2 DEF Edit, KnownInv, ModeInv, TypeOK, EditAsset, EditWorkspace, Binding
  <2>7. CleanInv'
    BY <1>2 DEF Edit, CleanInv, ModeInv, TargetInv, TypeOK, Mode, EditAsset, EditWorkspace,
                Binding
  <2>9. VerifiedIsExact'
    BY <1>2 DEF Edit, VerifiedIsExact, ModeInv, TypeOK, LiveInv, KnownInv, TargetInv, EditAsset,
                EditWorkspace, Binding
  <2>10. FailureIsCleanedUp'
    BY <1>2 DEF Edit, FailureIsCleanedUp, ModeInv, CleanInv, TypeOK, EditAsset, EditWorkspace,
                Binding
  <2> QED BY <2>1, <2>2, <2>3, <2>4, <2>5, <2>6, <2>7, <2>9, <2>10
<1>3. CASE Begin
  <2>1. TypeOK'
    <3>1. mode' \in Mode /\ pc' \in Label
      BY <1>3 DEF Begin, FirstStep, Mode, Label
    <3>2. runs' \in 0..MaxRuns
      BY <1>3 DEF Begin, TypeOK
    <3> QED BY <1>3, <3>1, <3>2 DEF Begin, TypeOK
  <2>2. LiveInv'
    <3>1. pc' \in {"first", "bind", "examine"}
      BY <1>3 DEF Begin, FirstStep, Mode
    <3> QED BY <1>3, <3>1 DEF Begin, LiveInv
  <2>3. ModeInv'
    BY <1>3 DEF Begin, ModeInv, TypeOK, Mode, FirstStep
  <2>4. DirInv'
    BY <1>3 DEF Begin, DirInv, TypeOK, TargetInv, FirstStep
  <2>5. TargetInv'
    <3>1. pc' \in {"first", "bind", "examine"}
      BY <1>3 DEF Begin, FirstStep, Mode
    <3> QED BY <3>1 DEF TargetInv
  <2>6. KnownInv'
    BY <1>3 DEF Begin, KnownInv, ModeInv, TypeOK, FirstStep
  <2>7. CleanInv'
    BY <1>3 DEF Begin, CleanInv, ModeInv, TargetInv, TypeOK, Mode, FirstStep
  <2>9. VerifiedIsExact'
    BY <1>3 DEF Begin, VerifiedIsExact, ModeInv, TypeOK, LiveInv, KnownInv, TargetInv, FirstStep
  <2>10. FailureIsCleanedUp'
    BY <1>3 DEF Begin, FailureIsCleanedUp, ModeInv, CleanInv, TypeOK, FirstStep
  <2> QED BY <2>1, <2>2, <2>3, <2>4, <2>5, <2>6, <2>7, <2>9, <2>10
<1>4. CASE Fail
  <2>1. TypeOK'
    BY <1>4 DEF Fail, TypeOK, Label, Mode, Metadata, NewMetadata, Body
  <2>2. LiveInv'
    BY <1>4 DEF Fail, LiveInv
  <2>3. ModeInv'
    BY <1>4 DEF Fail, ModeInv, TypeOK, Mode
  <2>4. DirInv'
    BY <1>4 DEF Fail, DirInv, TypeOK, TargetInv
  <2>5. TargetInv'
    BY <1>4 DEF Fail, TargetInv, DirInv, ModeInv, TypeOK
  <2>6. KnownInv'
    BY <1>4 DEF Fail, KnownInv, ModeInv, TypeOK
  <2>7. CleanInv'
    BY <1>4 DEF Fail, CleanInv, ModeInv, TargetInv, TypeOK, Mode
  <2>9. VerifiedIsExact'
    BY <1>4 DEF Fail, VerifiedIsExact, ModeInv, TypeOK, LiveInv, KnownInv, TargetInv
  <2>10. FailureIsCleanedUp'
    BY <1>4 DEF Fail, FailureIsCleanedUp, ModeInv, CleanInv, TypeOK
  <2> QED BY <2>1, <2>2, <2>3, <2>4, <2>5, <2>6, <2>7, <2>9, <2>10
<1>5. CASE Killed
  <2>1. TypeOK'
    BY <1>5 DEF Killed, TypeOK, Label, Mode, Metadata, NewMetadata, Body
  <2>2. LiveInv'
    BY <1>5 DEF Killed, LiveInv
  <2>3. ModeInv'
    BY <1>5 DEF Killed, ModeInv, TypeOK, Mode
  <2>4. DirInv'
    BY <1>5 DEF Killed, DirInv, TypeOK, TargetInv
  <2>5. TargetInv'
    BY <1>5 DEF Killed, TargetInv, DirInv, ModeInv, TypeOK
  <2>6. KnownInv'
    BY <1>5 DEF Killed, KnownInv, ModeInv, TypeOK
  <2>7. CleanInv'
    BY <1>5 DEF Killed, CleanInv, ModeInv, TargetInv, TypeOK, Mode
  <2>9. VerifiedIsExact'
    BY <1>5 DEF Killed, VerifiedIsExact, ModeInv, TypeOK, LiveInv, KnownInv, TargetInv
  <2>10. FailureIsCleanedUp'
    BY <1>5 DEF Killed, FailureIsCleanedUp, ModeInv, CleanInv, TypeOK
  <2> QED BY <2>1, <2>2, <2>3, <2>4, <2>5, <2>6, <2>7, <2>9, <2>10
<1> QED BY <1>1, <1>2, <1>3, <1>4, <1>5

(* materialize, until it creates the directory.                            *)
LEMMA PrepareStep ==
  ASSUME Inv, FirstRead \/ ReadObjects \/ SecondRead \/ MakeDirectory PROVE Inv'
<1> USE DistinctAssumption, BoundsAssumption
        DEF Inv, bounds, Return, Goto, Put, Target, NoWorkspace, Workspace
<1>1. CASE FirstRead
  <2>1. TypeOK'
    BY <1>1 DEF FirstRead, TypeOK, Label, Mode, Metadata, NewMetadata, Body
  <2>2. LiveInv'
    BY <1>1 DEF FirstRead, LiveInv
  <2>3. ModeInv'
    BY <1>1 DEF FirstRead, ModeInv, TypeOK, Mode
  <2>4. DirInv'
    BY <1>1 DEF FirstRead, DirInv, TypeOK, TargetInv
  <2>5. TargetInv'
    BY <1>1 DEF FirstRead, TargetInv, DirInv, ModeInv, TypeOK
  <2>6. KnownInv'
    BY <1>1 DEF FirstRead, KnownInv, ModeInv, TypeOK
  <2>7. CleanInv'
    BY <1>1 DEF FirstRead, CleanInv, ModeInv, TargetInv, TypeOK, Mode
  <2>9. VerifiedIsExact'
    BY <1>1 DEF FirstRead, VerifiedIsExact, ModeInv, TypeOK, LiveInv, KnownInv, TargetInv
  <2>10. FailureIsCleanedUp'
    BY <1>1 DEF FirstRead, FailureIsCleanedUp, ModeInv, CleanInv, TypeOK
  <2> QED BY <2>1, <2>2, <2>3, <2>4, <2>5, <2>6, <2>7, <2>9, <2>10
<1>2. CASE ReadObjects
  <2>1. TypeOK'
    BY <1>2 DEF ReadObjects, TypeOK, Label, Mode, Metadata, NewMetadata, Body
  <2>2. LiveInv'
    BY <1>2 DEF ReadObjects, LiveInv
  <2>3. ModeInv'
    BY <1>2 DEF ReadObjects, ModeInv, TypeOK, Mode
  <2>4. DirInv'
    BY <1>2 DEF ReadObjects, DirInv, TypeOK, TargetInv
  <2>5. TargetInv'
    BY <1>2 DEF ReadObjects, TargetInv, DirInv, ModeInv, TypeOK
  <2>6. KnownInv'
    BY <1>2 DEF ReadObjects, KnownInv, ModeInv, TypeOK
  <2>7. CleanInv'
    BY <1>2 DEF ReadObjects, CleanInv, ModeInv, TargetInv, TypeOK, Mode
  <2>9. VerifiedIsExact'
    BY <1>2 DEF ReadObjects, VerifiedIsExact, ModeInv, TypeOK, LiveInv, KnownInv, TargetInv
  <2>10. FailureIsCleanedUp'
    BY <1>2 DEF ReadObjects, FailureIsCleanedUp, ModeInv, CleanInv, TypeOK
  <2> QED BY <2>1, <2>2, <2>3, <2>4, <2>5, <2>6, <2>7, <2>9, <2>10
<1>3. CASE SecondRead
  <2>1. TypeOK'
    BY <1>3 DEF SecondRead, TypeOK, Label, Mode, Metadata, NewMetadata, Body
  <2>2. LiveInv'
    BY <1>3 DEF SecondRead, LiveInv
  <2>3. ModeInv'
    BY <1>3 DEF SecondRead, ModeInv, TypeOK, Mode
  <2>4. DirInv'
    BY <1>3 DEF SecondRead, DirInv, TypeOK, TargetInv
  <2>5. TargetInv'
    BY <1>3 DEF SecondRead, TargetInv, DirInv, ModeInv, TypeOK
  <2>6. KnownInv'
    BY <1>3 DEF SecondRead, KnownInv, ModeInv, TypeOK
  <2>7. CleanInv'
    BY <1>3 DEF SecondRead, CleanInv, ModeInv, TargetInv, TypeOK, Mode
  <2>9. VerifiedIsExact'
    BY <1>3 DEF SecondRead, VerifiedIsExact, ModeInv, TypeOK, LiveInv, KnownInv, TargetInv
  <2>10. FailureIsCleanedUp'
    BY <1>3 DEF SecondRead, FailureIsCleanedUp, ModeInv, CleanInv, TypeOK
  <2> QED BY <2>1, <2>2, <2>3, <2>4, <2>5, <2>6, <2>7, <2>9, <2>10
<1>4. CASE MakeDirectory
  <2>1. TypeOK'
    <3>1. CASE mode = "verify"
      BY <1>4, <3>1 DEF MakeDirectory, TypeOK, Label
    <3>2. CASE mode # "verify"
      BY <1>4, <3>2 DEF MakeDirectory, TypeOK, Label
    <3> QED BY <3>1, <3>2
  <2>2. LiveInv'
    BY <1>4 DEF MakeDirectory, LiveInv
  <2>3. ModeInv'
    BY <1>4 DEF MakeDirectory, ModeInv, TypeOK, Mode
  <2>4. DirInv'
    BY <1>4 DEF MakeDirectory, DirInv, TypeOK, TargetInv
  <2>5. TargetInv'
    BY <1>4 DEF MakeDirectory, TargetInv, DirInv, ModeInv, TypeOK
  <2>6. KnownInv'
    BY <1>4 DEF MakeDirectory, KnownInv, ModeInv, TypeOK
  <2>7. CleanInv'
    BY <1>4 DEF MakeDirectory, CleanInv, ModeInv, TargetInv, TypeOK, Mode
  <2>9. VerifiedIsExact'
    BY <1>4 DEF MakeDirectory, VerifiedIsExact, ModeInv, TypeOK, LiveInv, KnownInv, TargetInv
  <2>10. FailureIsCleanedUp'
    BY <1>4 DEF MakeDirectory, FailureIsCleanedUp, ModeInv, CleanInv, TypeOK
  <2> QED BY <2>1, <2>2, <2>3, <2>4, <2>5, <2>6, <2>7, <2>9, <2>10
<1> QED BY <1>1, <1>2, <1>3, <1>4

(* materialize, its writes.                                                *)
LEMMA WriteStep ==
  ASSUME Inv, WritePatch \/ WriteMetadata \/ Leave PROVE Inv'
<1> USE DistinctAssumption, BoundsAssumption
        DEF Inv, bounds, Return, Goto, Put, Target, NoWorkspace, Workspace
<1>1. CASE WritePatch
  <2>1. TypeOK'
    BY <1>1 DEF WritePatch, TypeOK, Label, Mode, Metadata, NewMetadata, Body
  <2>2. LiveInv'
    BY <1>1 DEF WritePatch, LiveInv
  <2>3. ModeInv'
    BY <1>1 DEF WritePatch, ModeInv, TypeOK, Mode
  <2>4. DirInv'
    <3>1. CASE mode = "verify"
      BY <1>1, <3>1 DEF WritePatch, DirInv, TypeOK, TargetInv
    <3>2. CASE mode # "verify"
      BY <1>1, <3>2 DEF WritePatch, DirInv, TypeOK, TargetInv
    <3> QED BY <3>1, <3>2
  <2>5. TargetInv'
    BY <1>1 DEF WritePatch, TargetInv, DirInv, ModeInv, TypeOK
  <2>6. KnownInv'
    BY <1>1 DEF WritePatch, KnownInv, ModeInv, TypeOK
  <2>7. CleanInv'
    BY <1>1 DEF WritePatch, CleanInv, ModeInv, TargetInv, TypeOK, Mode
  <2>9. VerifiedIsExact'
    BY <1>1 DEF WritePatch, VerifiedIsExact, ModeInv, TypeOK, LiveInv, KnownInv, TargetInv
  <2>10. FailureIsCleanedUp'
    BY <1>1 DEF WritePatch, FailureIsCleanedUp, ModeInv, CleanInv, TypeOK
  <2> QED BY <2>1, <2>2, <2>3, <2>4, <2>5, <2>6, <2>7, <2>9, <2>10
<1>2. CASE WriteMetadata
  <2>1. TypeOK'
    BY <1>2 DEF WriteMetadata, TypeOK, Label, Mode, Metadata, NewMetadata, Body
  <2>2. LiveInv'
    BY <1>2 DEF WriteMetadata, LiveInv
  <2>3. ModeInv'
    BY <1>2 DEF WriteMetadata, ModeInv, TypeOK, Mode
  <2>4. DirInv'
    <3>1. CASE mode = "verify"
      BY <1>2, <3>1 DEF WriteMetadata, DirInv, TypeOK, TargetInv
    <3>2. CASE mode # "verify"
      BY <1>2, <3>2 DEF WriteMetadata, DirInv, TypeOK, TargetInv
    <3> QED BY <3>1, <3>2
  <2>5. TargetInv'
    BY <1>2 DEF WriteMetadata, TargetInv, DirInv, ModeInv, TypeOK
  <2>6. KnownInv'
    BY <1>2 DEF WriteMetadata, KnownInv, ModeInv, TypeOK
  <2>7. CleanInv'
    BY <1>2 DEF WriteMetadata, CleanInv, ModeInv, TargetInv, TypeOK, Mode
  <2>9. VerifiedIsExact'
    BY <1>2 DEF WriteMetadata, VerifiedIsExact, ModeInv, TypeOK, LiveInv, KnownInv, TargetInv
  <2>10. FailureIsCleanedUp'
    BY <1>2 DEF WriteMetadata, FailureIsCleanedUp, ModeInv, CleanInv, TypeOK
  <2> QED BY <2>1, <2>2, <2>3, <2>4, <2>5, <2>6, <2>7, <2>9, <2>10
<1>3. CASE Leave
  <2>1. TypeOK'
    <3>1. CASE pc' = "compare" /\ UNCHANGED <<recheck, stuck, known, result>>
      BY <1>3, <3>1 DEF Leave, TypeOK, Label
    <3>2. CASE pc' = "idle" /\ recheck' = NoWorkspace /\ known' = NoFile
      <4>1. recheck' \in Workspace
        BY <3>2
      <4>2. stuck' \subseteq {"metadata", "patch", "dir", "temporary"}
        BY <1>3 DEF Leave, TypeOK
      <4>3. result' \in {"none", "ok", "fail", "killed"}
        BY <1>3, <3>2 DEF Leave
      <4> QED BY <1>3, <3>2, <4>1, <4>2, <4>3 DEF Leave, TypeOK, Label
    <3> QED BY <1>3, <3>1, <3>2 DEF Leave
  <2>2. LiveInv'
    BY <1>3 DEF Leave, LiveInv
  <2>3. ModeInv'
    BY <1>3 DEF Leave, ModeInv, TypeOK, Mode
  <2>4. DirInv'
    BY <1>3 DEF Leave, DirInv, TypeOK, TargetInv
  <2>5. TargetInv'
    BY <1>3 DEF Leave, TargetInv, DirInv, ModeInv, TypeOK
  <2>6. KnownInv'
    BY <1>3 DEF Leave, KnownInv, ModeInv, TypeOK
  <2>7. CleanInv'
    BY <1>3 DEF Leave, CleanInv, ModeInv, TargetInv, TypeOK, Mode
  <2>9. VerifiedIsExact'
    BY <1>3 DEF Leave, VerifiedIsExact, ModeInv, TypeOK, LiveInv, KnownInv, TargetInv
  <2>10. FailureIsCleanedUp'
    <3>1. CASE result' = "fail" /\ mode = "materialize"
      <4>1. review.metadata = NewMetadata /\ review.patch = "exact" /\ review.dir
        BY <1>3, <3>1 DEF Leave, TargetInv, DirInv, TypeOK, Body
      <4>2. review = [dir |-> TRUE, patch |-> "exact", metadata |-> NewMetadata]
        BY <4>1 DEF TypeOK
      <4> QED BY <1>3, <3>1, <4>2 DEF Leave, FailureIsCleanedUp
    <3>2. CASE ~(result' = "fail" /\ mode = "materialize")
      BY <1>3, <3>2 DEF Leave, FailureIsCleanedUp
    <3> QED BY <3>1, <3>2
  <2> QED BY <2>1, <2>2, <2>3, <2>4, <2>5, <2>6, <2>7, <2>9, <2>10
<1> QED BY <1>1, <1>2, <1>3

(* materialize, its cleanup.                                               *)
LEMMA CleanStep ==
  ASSUME Inv, CleanMetadata \/ CleanPatch \/ CleanDirectory PROVE Inv'
<1> USE DistinctAssumption, BoundsAssumption
        DEF Inv, bounds, Return, Goto, Put, Target, NoWorkspace, Workspace
<1>1. CASE CleanMetadata
  <2>1. TypeOK'
    BY <1>1 DEF CleanMetadata, TypeOK, Label, Mode, Metadata, NewMetadata, Body, Clean
  <2>2. LiveInv'
    BY <1>1 DEF CleanMetadata, LiveInv, Clean
  <2>3. ModeInv'
    BY <1>1 DEF CleanMetadata, ModeInv, TypeOK, Mode, Clean
  <2>4. DirInv'
    BY <1>1 DEF CleanMetadata, DirInv, TypeOK, TargetInv, Clean
  <2>5. TargetInv'
    BY <1>1 DEF CleanMetadata, TargetInv, DirInv, ModeInv, TypeOK, Clean
  <2>6. KnownInv'
    BY <1>1 DEF CleanMetadata, KnownInv, ModeInv, TypeOK, Clean
  <2>7. CleanInv'
    BY <1>1 DEF CleanMetadata, CleanInv, ModeInv, TargetInv, TypeOK, Mode, Clean
  <2>9. VerifiedIsExact'
    BY <1>1 DEF CleanMetadata, VerifiedIsExact, ModeInv, TypeOK, LiveInv, KnownInv, TargetInv,
                Clean
  <2>10. FailureIsCleanedUp'
    BY <1>1 DEF CleanMetadata, FailureIsCleanedUp, ModeInv, CleanInv, TypeOK, Clean
  <2> QED BY <2>1, <2>2, <2>3, <2>4, <2>5, <2>6, <2>7, <2>9, <2>10
<1>2. CASE CleanPatch
  <2>1. TypeOK'
    BY <1>2 DEF CleanPatch, TypeOK, Label, Mode, Metadata, NewMetadata, Body, Clean
  <2>2. LiveInv'
    BY <1>2 DEF CleanPatch, LiveInv, Clean
  <2>3. ModeInv'
    BY <1>2 DEF CleanPatch, ModeInv, TypeOK, Mode, Clean
  <2>4. DirInv'
    BY <1>2 DEF CleanPatch, DirInv, TypeOK, TargetInv, Clean
  <2>5. TargetInv'
    BY <1>2 DEF CleanPatch, TargetInv, DirInv, ModeInv, TypeOK, Clean
  <2>6. KnownInv'
    BY <1>2 DEF CleanPatch, KnownInv, ModeInv, TypeOK, Clean
  <2>7. CleanInv'
    BY <1>2 DEF CleanPatch, CleanInv, ModeInv, TargetInv, TypeOK, Mode, Clean
  <2>9. VerifiedIsExact'
    BY <1>2 DEF CleanPatch, VerifiedIsExact, ModeInv, TypeOK, LiveInv, KnownInv, TargetInv,
                Clean
  <2>10. FailureIsCleanedUp'
    BY <1>2 DEF CleanPatch, FailureIsCleanedUp, ModeInv, CleanInv, TypeOK, Clean
  <2> QED BY <2>1, <2>2, <2>3, <2>4, <2>5, <2>6, <2>7, <2>9, <2>10
<1>3. CASE CleanDirectory
  <2>1. TypeOK'
    <3>1. review' \in {review, NoWorkspace} /\ recheck' = NoWorkspace
      BY <1>3 DEF CleanDirectory
    <3>2. recheck' \in Workspace /\ review' \in Workspace
      BY <3>1, EmptyIsWorkspace DEF TypeOK
    <3>3. stuck' \subseteq {"metadata", "patch", "dir", "temporary"}
      BY <1>3 DEF CleanDirectory, TypeOK
    <3> QED BY <1>3, <3>2, <3>3 DEF CleanDirectory, TypeOK, Label
  <2>2. LiveInv'
    BY <1>3 DEF CleanDirectory, LiveInv
  <2>3. ModeInv'
    BY <1>3 DEF CleanDirectory, ModeInv, TypeOK, Mode
  <2>4. DirInv'
    BY <1>3 DEF CleanDirectory, DirInv, TypeOK, TargetInv
  <2>5. TargetInv'
    BY <1>3 DEF CleanDirectory, TargetInv, DirInv, ModeInv, TypeOK
  <2>6. KnownInv'
    BY <1>3 DEF CleanDirectory, KnownInv, ModeInv, TypeOK
  <2>7. CleanInv'
    BY <1>3 DEF CleanDirectory, CleanInv, ModeInv, TargetInv, TypeOK, Mode
  <2>9. VerifiedIsExact'
    BY <1>3 DEF CleanDirectory, VerifiedIsExact, ModeInv, TypeOK, LiveInv, KnownInv, TargetInv
  <2>10. FailureIsCleanedUp'
    BY <1>3 DEF CleanDirectory, FailureIsCleanedUp, ModeInv, CleanInv, TypeOK
  <2> QED BY <2>1, <2>2, <2>3, <2>4, <2>5, <2>6, <2>7, <2>9, <2>10
<1> QED BY <1>1, <1>2, <1>3

(* bind-assets and verify.                                                 *)
LEMMA CheckStep ==
  ASSUME Inv, BindAssets \/ Examine \/ Compare PROVE Inv'
<1> USE DistinctAssumption, BoundsAssumption
        DEF Inv, bounds, Return, Goto, Put, Target, NoWorkspace, Workspace
<1>1. CASE BindAssets
  <2>1. TypeOK'
    BY <1>1 DEF BindAssets, TypeOK, Label, Mode, Metadata, NewMetadata, Body, Sealed
  <2>2. LiveInv'
    BY <1>1 DEF BindAssets, LiveInv, Sealed
  <2>3. ModeInv'
    BY <1>1 DEF BindAssets, ModeInv, TypeOK, Mode, Sealed
  <2>4. DirInv'
    BY <1>1 DEF BindAssets, DirInv, TypeOK, TargetInv, Sealed
  <2>5. TargetInv'
    BY <1>1 DEF BindAssets, TargetInv, DirInv, ModeInv, TypeOK, Sealed
  <2>6. KnownInv'
    BY <1>1 DEF BindAssets, KnownInv, ModeInv, TypeOK, Sealed
  <2>7. CleanInv'
    BY <1>1 DEF BindAssets, CleanInv, ModeInv, TargetInv, TypeOK, Mode, Sealed
  <2>9. VerifiedIsExact'
    BY <1>1 DEF BindAssets, VerifiedIsExact, ModeInv, TypeOK, LiveInv, KnownInv, TargetInv,
                Sealed
  <2>10. FailureIsCleanedUp'
    BY <1>1 DEF BindAssets, FailureIsCleanedUp, ModeInv, CleanInv, TypeOK, Sealed
  <2> QED BY <2>1, <2>2, <2>3, <2>4, <2>5, <2>6, <2>7, <2>9, <2>10
<1>2. CASE Examine
  <2>1. TypeOK'
    BY <1>2 DEF Examine, TypeOK, Label, Mode, Metadata, NewMetadata, Body
  <2>2. LiveInv'
    BY <1>2 DEF Examine, LiveInv
  <2>3. ModeInv'
    BY <1>2 DEF Examine, ModeInv, TypeOK, Mode
  <2>4. DirInv'
    BY <1>2 DEF Examine, DirInv, TypeOK, TargetInv
  <2>5. TargetInv'
    BY <1>2 DEF Examine, TargetInv, DirInv, ModeInv, TypeOK
  <2>6. KnownInv'
    BY <1>2 DEF Examine, KnownInv, ModeInv, TypeOK
  <2>7. CleanInv'
    BY <1>2 DEF Examine, CleanInv, ModeInv, TargetInv, TypeOK, Mode
  <2>9. VerifiedIsExact'
    BY <1>2 DEF Examine, VerifiedIsExact, ModeInv, TypeOK, LiveInv, KnownInv, TargetInv
  <2>10. FailureIsCleanedUp'
    BY <1>2 DEF Examine, FailureIsCleanedUp, ModeInv, CleanInv, TypeOK
  <2> QED BY <2>1, <2>2, <2>3, <2>4, <2>5, <2>6, <2>7, <2>9, <2>10
<1>3. CASE Compare
  <2>1. TypeOK'
    BY <1>3 DEF Compare, TypeOK, Label, Mode, Metadata, NewMetadata, Body, Sealed
  <2>2. LiveInv'
    BY <1>3 DEF Compare, LiveInv, Sealed
  <2>3. ModeInv'
    BY <1>3 DEF Compare, ModeInv, TypeOK, Mode, Sealed
  <2>4. DirInv'
    BY <1>3 DEF Compare, DirInv, TypeOK, TargetInv, Sealed
  <2>5. TargetInv'
    BY <1>3 DEF Compare, TargetInv, DirInv, ModeInv, TypeOK, Sealed
  <2>6. KnownInv'
    BY <1>3 DEF Compare, KnownInv, ModeInv, TypeOK, Sealed
  <2>7. CleanInv'
    BY <1>3 DEF Compare, CleanInv, ModeInv, TargetInv, TypeOK, Mode, Sealed
  <2>9. VerifiedIsExact'
    <3>1. mode = "verify" /\ ~away
      BY <1>3 DEF Compare, ModeInv, LiveInv
    <3>2. recheck.metadata = NewMetadata /\ recheck.patch = "exact"
      BY <1>3, <3>1 DEF Compare, TargetInv
    <3>3. review.metadata = Sealed("exact", asset)
      BY <1>3, <3>1, <3>2 DEF Compare, KnownInv, NewMetadata
    <3> QED BY <1>3, <3>1, <3>2, <3>3 DEF Compare, VerifiedIsExact
  <2>10. FailureIsCleanedUp'
    BY <1>3 DEF Compare, FailureIsCleanedUp, ModeInv, CleanInv, TypeOK, Sealed
  <2> QED BY <2>1, <2>2, <2>3, <2>4, <2>5, <2>6, <2>7, <2>9, <2>10
<1> QED BY <1>1, <1>2, <1>3

(* The inductive invariant.                                                *)
THEOREM WorkspaceInvariant == Spec => []Inv
<1>1. Inv /\ [Next]_vars => Inv'
  <2> SUFFICES ASSUME Inv, [Next]_vars PROVE Inv'
    OBVIOUS
  <2>1. CASE Next
    BY <2>1, OutsideStep, PrepareStep, WriteStep, CleanStep, CheckStep
       DEF Next, Program, Materialize
  <2>2. CASE UNCHANGED vars
    BY <2>2 DEF Inv, vars, TypeOK, LiveInv, ModeInv, DirInv, TargetInv, KnownInv, CleanInv, Target,
                VerifiedIsExact, FailureIsCleanedUp
  <2> QED BY <2>1, <2>2
<1> QED BY <1>1, InitInv, PTL DEF Spec

(* Type correctness for any assets, contents, runs and edits.              *)
THEOREM TypeCorrectness == Spec => []TypeOK
  BY WorkspaceInvariant, PTL DEF Inv

(* Verification accepts nothing but the exact workspace, and of a pull     *)
(* request that was still there.                                           *)
THEOREM VerifiedExact == Spec => []VerifiedIsExact
  BY WorkspaceInvariant, PTL DEF Inv

(* A failed run leaves nothing but what it could not remove itself.        *)
THEOREM CleanedUp == Spec => []FailureIsCleanedUp
  BY WorkspaceInvariant, PTL DEF Inv

(* No step of a run leaves metadata without its patch, but one that could  *)
(* not remove that metadata.                                               *)
THEOREM MetadataLast == Spec => MetadataComesLast
<1>1. Inv /\ [Next]_vars =>
        [edits' = edits /\ Paired(review) => Paired(review') \/ "metadata" \in stuck]_vars
  <2> SUFFICES ASSUME Inv, Next, edits' = edits, Paired(review)
               PROVE  Paired(review') \/ "metadata" \in stuck
    OBVIOUS
  <2> USE DEF Inv, TypeOK, Workspace, Put, Target, Return, Paired
  <2>1. CASE Edit
    BY <2>1, BoundsAssumption DEF Edit
  <2>2. CASE MakeDirectory
    BY <2>2 DEF MakeDirectory
  <2>3. CASE WritePatch
    BY <2>3 DEF WritePatch
  <2>4. CASE WriteMetadata
    BY <2>4 DEF WriteMetadata, TargetInv
  <2>5. CASE CleanMetadata
    BY <2>5 DEF CleanMetadata, Clean
  <2>6. CASE CleanPatch
    BY <2>6 DEF CleanPatch, Clean, CleanInv, ModeInv, Mode
  <2>7. CASE CleanDirectory
    BY <2>7 DEF CleanDirectory, NoWorkspace
  <2>8. CASE BindAssets
    BY <2>8 DEF BindAssets
  <2>9. CASE UNCHANGED review
    BY <2>9
  <2> QED
    BY <2>1, <2>2, <2>3, <2>4, <2>5, <2>6, <2>7, <2>8, <2>9
       DEF Next, Program, Materialize, Move, Begin, Fail, Killed, FirstRead, ReadObjects,
           SecondRead, Leave, Examine, Compare
<1> QED BY <1>1, WorkspaceInvariant, PTL DEF Spec, MetadataComesLast

(* Sealed metadata is not changed by any run.                              *)
THEOREM SealFinal == Spec => SealIsFinal
<1>1. Inv /\ [Next]_vars =>
        [edits' = edits /\ review.metadata # NoFile /\ review.metadata.input # Unbound
           => review'.metadata = review.metadata]_vars
  <2> SUFFICES ASSUME Inv, Next, edits' = edits, review.metadata # NoFile,
                      review.metadata.input # Unbound
               PROVE  review'.metadata = review.metadata
    OBVIOUS
  <2> USE DEF Inv, TypeOK, Workspace, Put, Target, Return
  <2>1. CASE Edit
    BY <2>1, BoundsAssumption DEF Edit
  <2>2. CASE WriteMetadata
    BY <2>2 DEF WriteMetadata, TargetInv
  <2>3. CASE CleanMetadata
    BY <2>3 DEF CleanMetadata, Clean, CleanInv, ModeInv, Mode, NewMetadata
  <2>4. CASE CleanDirectory
    BY <2>4 DEF CleanDirectory, NoWorkspace
  <2>5. CASE BindAssets
    BY <2>5 DEF BindAssets
  <2>6. CASE MakeDirectory \/ WritePatch \/ CleanPatch
    BY <2>6 DEF MakeDirectory, WritePatch, CleanPatch, Clean
  <2>7. CASE UNCHANGED review
    BY <2>7
  <2> QED
    BY <2>1, <2>2, <2>3, <2>4, <2>5, <2>6, <2>7
       DEF Next, Program, Materialize, Move, Begin, Fail, Killed, FirstRead, ReadObjects,
           SecondRead, Leave, Examine, Compare
<1> QED BY <1>1, WorkspaceInvariant, PTL DEF Spec, SealIsFinal
================================================================================
