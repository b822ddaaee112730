-------------------------- MODULE ProtectedFileProofs --------------------------
(* The descriptors and the atomic replacement of ProtectedFile, for a      *)
(* parent path of any depth.                                               *)
EXTENDS ProtectedFile, TLAPS

(* Which descriptors are held at which step.                               *)
HeldAtStep ==
  /\ directory = NoFd => pc \in {"anchor", "done", "dead"}
  /\ pc \in {"anchor", "done"} => directory = NoFd
  /\ nextDir # NoFd => pc \in {"hop", "dead"}
  /\ pc = "hop" => nextDir # NoFd /\ left > 0
  /\ descriptor # NoFd =>
       pc \in {"read_asset", "inspect", "fill", "seal", "finally_read", "finally_temp", "dead"}
  /\ pc \in {"read_asset", "inspect", "fill", "seal"} => descriptor # NoFd

(* They are different ones, already opened.                                *)
HeldAreDistinct ==
  /\ directory # NoFd => directory <= opens /\ directory \notin {nextDir, descriptor}
  /\ nextDir # NoFd => nextDir <= opens /\ nextDir # descriptor
  /\ descriptor # NoFd => descriptor <= opens

(* Numbers are left for the steps to come.                                 *)
NumbersSuffice ==
  /\ pc = "anchor" => opens = 0 /\ left = Depth
  /\ pc = "walk" => opens + left <= Depth + 1
  /\ pc = "hop" => opens + left <= Depth + 2
  /\ pc \in {"check", "open_asset", "open_existing"} => opens <= Depth + 1
  /\ pc \in {"inspect", "open_temp"} => opens <= Depth + 2

(* An opened descriptor is held, or had its one close attempt.             *)
Spent == \A f \in Fd : attempts[f] = IF f <= opens /\ f \notin Held THEN 1 ELSE 0

(* Where the files stand at each step of a write.                          *)
Progress ==
  /\ pc \in {"walk", "hop", "check", "anchor"} => temp = "absent" /\ cause = "none"
  /\ pc \in ReadSteps => temp = "absent"
  /\ pc \in {"open_existing", "inspect", "open_temp"} => temp = "absent" /\ cause = "none"
  /\ pc \in {"open_temp", "fill", "seal", "replace"} => target # "unsafe"
  /\ pc \in {"seal", "replace"} => temp = "whole"
  /\ pc = "fill" => temp = "partial"
  /\ pc \in {"fill", "seal", "replace", "sync"} => cause = "none"
  /\ pc \in WriteSteps => mode = "write"
  /\ pc \in ReadSteps => mode = "read"
  /\ pc = "sync" => target = "new"
  /\ pc = "finally_write" => temp \in {"absent", "stuck"}
  /\ pc \in {"finally_temp", "finally_unlink"} => temp # "stuck"

(* The replacement, the first failure and the result agree.                *)
Commitment ==
  /\ target = "new" => /\ pc \in {"sync", "finally_temp", "finally_unlink", "finally_write",
                                  "done", "dead"}
                       /\ temp = "absent" /\ cause \in {"none", "finally_write"}
                       /\ pc \in {"finally_temp", "finally_unlink", "finally_write"} =>
                            cause = "none"
  /\ pc \in {"finally_temp", "finally_unlink", "finally_write"} /\ cause = "none" =>
       target = "new"
  /\ (target = "new" /\ pc = "finally_temp") => descriptor = NoFd
  /\ result # "none" <=> pc = "done"
  /\ result = "ok" /\ mode = "write" => target = "new"
  /\ result = "fail" => cause # "none"
  /\ pc = "done" => temp \in {"absent", "stuck"}

Inv == TypeOK /\ HeldAtStep /\ HeldAreDistinct /\ NumbersSuffice /\ Spent /\ Progress /\ Commitment

-----------------------------------------------------------------------------
LEMMA InitInv == Init => Inv
  BY DepthAssumption
     DEF Init, Inv, TypeOK, HeldAtStep, HeldAreDistinct, NumbersSuffice, Spent, Progress,
         Commitment, Held, Fd, NoFd, Label, ReadSteps, WriteSteps

(* The walk holds one directory, two across a hop.                         *)
LEMMA WalkStep == ASSUME Inv, Walk PROVE Inv'
<1> USE DepthAssumption DEF Inv, Fd, NoFd, Label, ReadSteps, WriteSteps, files, Opened, Open,
            Goto, Fails, Blame, Close
<1>1. CASE OpenAnchor
  <2>1. TypeOK' /\ HeldAtStep' /\ HeldAreDistinct' /\ NumbersSuffice'
    BY <1>1 DEF OpenAnchor, TypeOK, HeldAtStep, HeldAreDistinct, NumbersSuffice, Progress
  <2>2. Spent'
    BY <1>1 DEF OpenAnchor, TypeOK, HeldAtStep, HeldAreDistinct, NumbersSuffice, Spent, Held
  <2>3. Progress' /\ Commitment'
    BY <1>1 DEF OpenAnchor, TypeOK, HeldAtStep, Progress, Commitment
  <2> QED BY <2>1, <2>2, <2>3
<1>2. CASE OpenComponent
  <2>0. attempts' \in [Fd -> Nat]
    BY <1>2 DEF OpenComponent, TypeOK
  <2>1. TypeOK' /\ HeldAtStep' /\ HeldAreDistinct' /\ NumbersSuffice'
    <3> HIDE DEF Close
    <3>a. opens' \in 0..(Depth + 3) /\ left' \in 0..Depth
      BY <1>2 DEF OpenComponent, TypeOK, HeldAtStep, HeldAreDistinct, NumbersSuffice
    <3>b. /\ directory' \in Fd \union {NoFd} /\ nextDir' \in Fd \union {NoFd}
          /\ descriptor' \in Fd \union {NoFd}
      BY <1>2 DEF OpenComponent, TypeOK, HeldAtStep, HeldAreDistinct, NumbersSuffice
    <3>c. /\ mode' \in {"read", "write"} /\ pc' \in Label
          /\ cause' \in Label \union {"none"}
          /\ target' \in {"absent", "unsafe", "old", "new"}
          /\ temp' \in {"absent", "partial", "whole", "stuck"}
          /\ result' \in {"none", "ok", "fail"}
      BY <1>2 DEF OpenComponent, TypeOK
    <3>1. TypeOK'
      BY <2>0, <3>a, <3>b, <3>c DEF TypeOK
    <3>2. HeldAtStep' /\ HeldAreDistinct' /\ NumbersSuffice'
      BY <1>2 DEF OpenComponent, TypeOK, HeldAtStep, HeldAreDistinct, NumbersSuffice
    <3> QED BY <3>1, <3>2
  <2>2. Spent'
    <3> SUFFICES ASSUME NEW f \in Fd
                 PROVE  attempts'[f] = IF f <= opens' /\ f \notin Held' THEN 1 ELSE 0
      BY DEF Spent
    <3>1. attempts[f] = IF f <= opens /\ f \notin Held THEN 1 ELSE 0
      BY DEF Spent
    <3> QED BY <1>2, <3>1 DEF OpenComponent, TypeOK, HeldAtStep, HeldAreDistinct, NumbersSuffice, Held
  <2>3. Progress' /\ Commitment'
    BY <1>2 DEF OpenComponent, TypeOK, HeldAtStep, Progress, Commitment
  <2> QED BY <2>1, <2>2, <2>3
<1>3. CASE Hop
  <2>0. attempts' \in [Fd -> Nat]
    BY <1>3 DEF Hop, TypeOK
  <2>1. TypeOK' /\ HeldAtStep' /\ HeldAreDistinct' /\ NumbersSuffice'
    <3> HIDE DEF Close
    <3>a. opens' \in 0..(Depth + 3) /\ left' \in 0..Depth
      BY <1>3 DEF Hop, TypeOK, HeldAtStep, HeldAreDistinct, NumbersSuffice
    <3>b. /\ directory' \in Fd \union {NoFd} /\ nextDir' \in Fd \union {NoFd}
          /\ descriptor' \in Fd \union {NoFd}
      BY <1>3 DEF Hop, TypeOK, HeldAtStep, HeldAreDistinct, NumbersSuffice
    <3>c. /\ mode' \in {"read", "write"} /\ pc' \in Label
          /\ cause' \in Label \union {"none"}
          /\ target' \in {"absent", "unsafe", "old", "new"}
          /\ temp' \in {"absent", "partial", "whole", "stuck"}
          /\ result' \in {"none", "ok", "fail"}
      BY <1>3 DEF Hop, TypeOK
    <3>1. TypeOK'
      BY <2>0, <3>a, <3>b, <3>c DEF TypeOK
    <3>2. HeldAtStep' /\ HeldAreDistinct' /\ NumbersSuffice'
      BY <1>3 DEF Hop, TypeOK, HeldAtStep, HeldAreDistinct, NumbersSuffice
    <3> QED BY <3>1, <3>2
  <2>2. Spent'
    <3> SUFFICES ASSUME NEW f \in Fd
                 PROVE  attempts'[f] = IF f <= opens' /\ f \notin Held' THEN 1 ELSE 0
      BY DEF Spent
    <3>1. attempts[f] = IF f <= opens /\ f \notin Held THEN 1 ELSE 0
      BY DEF Spent
    <3> QED BY <1>3, <3>1 DEF Hop, TypeOK, HeldAtStep, HeldAreDistinct, NumbersSuffice, Held
  <2>3. Progress' /\ Commitment'
    BY <1>3 DEF Hop, TypeOK, HeldAtStep, Progress, Commitment
  <2> QED BY <2>1, <2>2, <2>3
<1>4. CASE EndOfWalk
  <2>1. TypeOK' /\ HeldAtStep' /\ HeldAreDistinct' /\ NumbersSuffice'
    BY <1>4 DEF EndOfWalk, TypeOK, HeldAtStep, HeldAreDistinct, NumbersSuffice, Progress
  <2>2. Spent'
    BY <1>4 DEF EndOfWalk, TypeOK, HeldAtStep, HeldAreDistinct, NumbersSuffice, Spent, Held
  <2>3. Progress' /\ Commitment'
    BY <1>4 DEF EndOfWalk, TypeOK, HeldAtStep, Progress, Commitment
  <2> QED BY <2>1, <2>2, <2>3
<1>5. CASE CheckParent
  <2>1. TypeOK' /\ HeldAtStep' /\ HeldAreDistinct' /\ NumbersSuffice'
    BY <1>5 DEF CheckParent, TypeOK, HeldAtStep, HeldAreDistinct, NumbersSuffice, Progress
  <2>2. Spent'
    BY <1>5 DEF CheckParent, TypeOK, HeldAtStep, HeldAreDistinct, NumbersSuffice, Spent, Held
  <2>3. Progress' /\ Commitment'
    BY <1>5 DEF CheckParent, TypeOK, HeldAtStep, Progress, Commitment
  <2> QED BY <2>1, <2>2, <2>3
<1> QED BY <1>1, <1>2, <1>3, <1>4, <1>5 DEF Walk

(* A read holds the parent directory and the asset.                        *)
LEMMA ReadStep == ASSUME Inv, ReadFile PROVE Inv'
<1> USE DepthAssumption DEF Inv, Fd, NoFd, Label, ReadSteps, WriteSteps, files, Opened, Open,
            Goto, Fails, Blame, Close
<1>1. CASE OpenAsset
  <2>1. TypeOK' /\ HeldAtStep' /\ HeldAreDistinct' /\ NumbersSuffice'
    BY <1>1 DEF OpenAsset, TypeOK, HeldAtStep, HeldAreDistinct, NumbersSuffice, Progress
  <2>2. Spent'
    BY <1>1 DEF OpenAsset, TypeOK, HeldAtStep, HeldAreDistinct, NumbersSuffice, Spent, Held
  <2>3. Progress' /\ Commitment'
    BY <1>1 DEF OpenAsset, TypeOK, HeldAtStep, Progress, Commitment
  <2> QED BY <2>1, <2>2, <2>3
<1>2. CASE ReadAsset
  <2>1. TypeOK' /\ HeldAtStep' /\ HeldAreDistinct' /\ NumbersSuffice'
    BY <1>2 DEF ReadAsset, TypeOK, HeldAtStep, HeldAreDistinct, NumbersSuffice, Progress
  <2>2. Spent'
    BY <1>2 DEF ReadAsset, TypeOK, HeldAtStep, HeldAreDistinct, NumbersSuffice, Spent, Held
  <2>3. Progress' /\ Commitment'
    BY <1>2 DEF ReadAsset, TypeOK, HeldAtStep, Progress, Commitment
  <2> QED BY <2>1, <2>2, <2>3
<1>3. CASE FinallyRead
  <2>1. TypeOK' /\ HeldAtStep' /\ HeldAreDistinct' /\ NumbersSuffice'
    BY <1>3 DEF FinallyRead, TypeOK, HeldAtStep, HeldAreDistinct, NumbersSuffice, Progress
  <2>2. Spent'
    BY <1>3 DEF FinallyRead, TypeOK, HeldAtStep, HeldAreDistinct, NumbersSuffice, Spent, Held
  <2>3. Progress' /\ Commitment'
    BY <1>3 DEF FinallyRead, TypeOK, HeldAtStep, Progress, Commitment
  <2> QED BY <2>1, <2>2, <2>3
<1> QED BY <1>1, <1>2, <1>3 DEF ReadFile

(* A write holds the parent directory and one file at a time.              *)
LEMMA WriteStep == ASSUME Inv, WriteFile PROVE Inv'
<1> USE DepthAssumption DEF Inv, Fd, NoFd, Label, ReadSteps, WriteSteps, files, Opened, Open,
            Goto, Fails, Blame, Close
<1>1. CASE OpenExisting
  <2>1. TypeOK' /\ HeldAtStep' /\ HeldAreDistinct' /\ NumbersSuffice'
    BY <1>1 DEF OpenExisting, TypeOK, HeldAtStep, HeldAreDistinct, NumbersSuffice, Progress
  <2>2. Spent'
    BY <1>1 DEF OpenExisting, TypeOK, HeldAtStep, HeldAreDistinct, NumbersSuffice, Spent, Held
  <2>3. Progress' /\ Commitment'
    BY <1>1 DEF OpenExisting, TypeOK, HeldAtStep, Progress, Commitment
  <2> QED BY <2>1, <2>2, <2>3
<1>2. CASE InspectExisting
  <2>1. TypeOK' /\ HeldAtStep' /\ HeldAreDistinct' /\ NumbersSuffice'
    BY <1>2 DEF InspectExisting, TypeOK, HeldAtStep, HeldAreDistinct, NumbersSuffice, Progress
  <2>2. Spent'
    BY <1>2 DEF InspectExisting, TypeOK, HeldAtStep, HeldAreDistinct, NumbersSuffice, Spent, Held
  <2>3. Progress' /\ Commitment'
    BY <1>2 DEF InspectExisting, TypeOK, HeldAtStep, Progress, Commitment
  <2> QED BY <2>1, <2>2, <2>3
<1>3. CASE OpenTemporary
  <2>1. TypeOK' /\ HeldAtStep' /\ HeldAreDistinct' /\ NumbersSuffice'
    BY <1>3 DEF OpenTemporary, TypeOK, HeldAtStep, HeldAreDistinct, NumbersSuffice, Progress
  <2>2. Spent'
    BY <1>3 DEF OpenTemporary, TypeOK, HeldAtStep, HeldAreDistinct, NumbersSuffice, Spent, Held
  <2>3. Progress' /\ Commitment'
    BY <1>3 DEF OpenTemporary, TypeOK, HeldAtStep, Progress, Commitment
  <2> QED BY <2>1, <2>2, <2>3
<1>4. CASE Fill
  <2>1. TypeOK' /\ HeldAtStep' /\ HeldAreDistinct' /\ NumbersSuffice'
    BY <1>4 DEF Fill, TypeOK, HeldAtStep, HeldAreDistinct, NumbersSuffice, Progress
  <2>2. Spent'
    BY <1>4 DEF Fill, TypeOK, HeldAtStep, HeldAreDistinct, NumbersSuffice, Spent, Held
  <2>3. Progress' /\ Commitment'
    BY <1>4 DEF Fill, TypeOK, HeldAtStep, Progress, Commitment
  <2> QED BY <2>1, <2>2, <2>3
<1>5. CASE Seal
  <2>1. TypeOK' /\ HeldAtStep' /\ HeldAreDistinct' /\ NumbersSuffice'
    BY <1>5 DEF Seal, TypeOK, HeldAtStep, HeldAreDistinct, NumbersSuffice, Progress
  <2>2. Spent'
    BY <1>5 DEF Seal, TypeOK, HeldAtStep, HeldAreDistinct, NumbersSuffice, Spent, Held
  <2>3. Progress' /\ Commitment'
    BY <1>5 DEF Seal, TypeOK, HeldAtStep, Progress, Commitment
  <2> QED BY <2>1, <2>2, <2>3
<1>6. CASE Replace
  <2>1. TypeOK' /\ HeldAtStep' /\ HeldAreDistinct' /\ NumbersSuffice'
    BY <1>6 DEF Replace, TypeOK, HeldAtStep, HeldAreDistinct, NumbersSuffice, Progress
  <2>2. Spent'
    BY <1>6 DEF Replace, TypeOK, HeldAtStep, HeldAreDistinct, NumbersSuffice, Spent, Held
  <2>3. Progress' /\ Commitment'
    BY <1>6 DEF Replace, TypeOK, HeldAtStep, Progress, Commitment
  <2> QED BY <2>1, <2>2, <2>3
<1>7. CASE SyncDirectory
  <2>1. TypeOK' /\ HeldAtStep' /\ HeldAreDistinct' /\ NumbersSuffice'
    BY <1>7 DEF SyncDirectory, TypeOK, HeldAtStep, HeldAreDistinct, NumbersSuffice, Progress
  <2>2. Spent'
    BY <1>7 DEF SyncDirectory, TypeOK, HeldAtStep, HeldAreDistinct, NumbersSuffice, Spent, Held
  <2>3. Progress' /\ Commitment'
    BY <1>7 DEF SyncDirectory, TypeOK, HeldAtStep, Progress, Commitment
  <2> QED BY <2>1, <2>2, <2>3
<1>8. CASE FinallyTemporary
  <2>1. TypeOK' /\ HeldAtStep' /\ HeldAreDistinct' /\ NumbersSuffice'
    BY <1>8 DEF FinallyTemporary, TypeOK, HeldAtStep, HeldAreDistinct, NumbersSuffice, Progress
  <2>2. Spent'
    BY <1>8 DEF FinallyTemporary, TypeOK, HeldAtStep, HeldAreDistinct, NumbersSuffice, Spent, Held
  <2>3. Progress' /\ Commitment'
    BY <1>8 DEF FinallyTemporary, TypeOK, HeldAtStep, Progress, Commitment
  <2> QED BY <2>1, <2>2, <2>3
<1>9. CASE FinallyUnlink
  <2>1. TypeOK' /\ HeldAtStep' /\ HeldAreDistinct' /\ NumbersSuffice'
    BY <1>9 DEF FinallyUnlink, TypeOK, HeldAtStep, HeldAreDistinct, NumbersSuffice, Progress
  <2>2. Spent'
    BY <1>9 DEF FinallyUnlink, TypeOK, HeldAtStep, HeldAreDistinct, NumbersSuffice, Spent, Held
  <2>3. Progress' /\ Commitment'
    BY <1>9 DEF FinallyUnlink, TypeOK, HeldAtStep, Progress, Commitment
  <2> QED BY <2>1, <2>2, <2>3
<1>10. CASE FinallyWrite
  <2>1. TypeOK' /\ HeldAtStep' /\ HeldAreDistinct' /\ NumbersSuffice'
    BY <1>10 DEF FinallyWrite, TypeOK, HeldAtStep, HeldAreDistinct, NumbersSuffice, Progress
  <2>2. Spent'
    BY <1>10 DEF FinallyWrite, TypeOK, HeldAtStep, HeldAreDistinct, NumbersSuffice, Spent, Held
  <2>3. Progress' /\ Commitment'
    BY <1>10 DEF FinallyWrite, TypeOK, HeldAtStep, Progress, Commitment
  <2> QED BY <2>1, <2>2, <2>3
<1> QED BY <1>1, <1>2, <1>3, <1>4, <1>5, <1>6, <1>7, <1>8, <1>9, <1>10 DEF WriteFile

(* Descriptors, files and result agree in every reachable state.           *)
THEOREM FileInvariant == Spec => []Inv
<1>1. Inv /\ [Next]_vars => Inv'
  <2> SUFFICES ASSUME Inv, [Next]_vars PROVE Inv'
    OBVIOUS
  <2>1. CASE Killed
    BY <2>1 DEF Killed, files, Goto, Inv, TypeOK, Label, HeldAtStep, HeldAreDistinct,
                NumbersSuffice, Spent, Held, Progress, Commitment, ReadSteps, WriteSteps
  <2>2. CASE UNCHANGED vars
    BY <2>2 DEF vars, Inv, TypeOK, HeldAtStep, HeldAreDistinct, NumbersSuffice, Spent, Held,
                Progress, Commitment
  <2> QED BY <2>1, <2>2, WalkStep, ReadStep, WriteStep DEF Next
<1> QED BY <1>1, InitInv, PTL DEF Spec

(* Type correctness for a parent path of any depth.                        *)
THEOREM TypeCorrectness == Spec => []TypeOK
  BY FileInvariant, PTL DEF Inv

(* Every descriptor is closed by exactly one attempt, on every path.       *)
THEOREM DescriptorsClosedOnce == Spec => []ClosedExactlyOnce
<1>1. Inv => ClosedExactlyOnce
  BY DepthAssumption DEF Inv, TypeOK, HeldAtStep, HeldAreDistinct, Spent, Held, Fd, NoFd,
                         ClosedExactlyOnce
<1> QED BY <1>1, FileInvariant, PTL

(* A failed call has changed nothing but for a failed last close.          *)
THEOREM FailuresClean == Spec => []FailureIsClean
<1>1. Inv => FailureIsClean
  BY DEF Inv, TypeOK, Commitment, FailureIsClean
<1> QED BY <1>1, FileInvariant, PTL

(* An unsafe target is never replaced.                                     *)
THEOREM UnsafeIsKept == Spec => UnsafeStays
<1>1. Inv /\ [Next]_vars => [target = "unsafe" => target' = "unsafe"]_target
  BY DEF Inv, Progress, Next, Walk, ReadFile, WriteFile, vars, files, OpenAnchor, OpenComponent,
         Hop, EndOfWalk, CheckParent, OpenAsset, ReadAsset, FinallyRead, OpenExisting,
         InspectExisting, OpenTemporary, Fill, Seal, Replace, SyncDirectory, FinallyTemporary,
         FinallyUnlink, FinallyWrite, Killed
<1> QED BY <1>1, FileInvariant, PTL DEF Spec, UnsafeStays

(* Every step of a call is a step of the atomic replacement, or none.      *)
THEOREM Refinement == Spec => WritesAtomically
<1> USE DEF Promise!Next, Promise!Prepare, Promise!Commit, Promise!CleanUp, Promise!Succeed,
            Promise!Fail
<1>1. Init => Promise!Init
  BY DEF Init, Promise!Init
<1>2. Inv /\ [Next]_vars =>
        [Promise!Next]_<<target, temp # "absent", IF mode = "write" THEN result ELSE "none">>
  <2> SUFFICES ASSUME Inv, [Next]_vars
               PROVE  [Promise!Next]_<<target, temp # "absent",
                                       IF mode = "write" THEN result ELSE "none">>
    OBVIOUS
  <2> USE DEF Inv, TypeOK, Progress, Commitment, files, Goto, Blame, Fails, ReadSteps, WriteSteps
  <2>1. CASE Walk
    BY <2>1 DEF Walk, OpenAnchor, OpenComponent, Hop, EndOfWalk, CheckParent
  <2>2. CASE ReadFile
    BY <2>2 DEF ReadFile, OpenAsset, ReadAsset, FinallyRead
  <2>3. CASE OpenExisting \/ InspectExisting \/ OpenTemporary \/ Fill \/ Seal
    BY <2>3 DEF OpenExisting, InspectExisting, OpenTemporary, Fill, Seal
  <2>4. CASE Replace \/ SyncDirectory \/ FinallyTemporary \/ FinallyUnlink
    BY <2>4 DEF Replace, SyncDirectory, FinallyTemporary, FinallyUnlink
  <2>5. CASE FinallyWrite
    BY <2>5 DEF FinallyWrite
  <2>6. CASE Killed \/ UNCHANGED vars
    BY <2>6 DEF Killed, vars
  <2> QED BY <2>1, <2>2, <2>3, <2>4, <2>5, <2>6 DEF Next, WriteFile
<1> QED BY <1>1, <1>2, FileInvariant, PTL DEF Spec, WritesAtomically, Promise!Spec
================================================================================
