---------------------------- MODULE FirewallProofs ----------------------------
(***************************************************************************)
(* Proofs about FirewallTransaction for every set of invocations, claims,  *)
(* policies and transactions and every bound.  SafetyInv of module         *)
(* FirewallInvariant is inductive: it holds initially and every action     *)
(* preserves it; the safety properties follow from it.                     *)
(***************************************************************************)
EXTENDS FirewallInvariant, TLAPS

USE DEF Proc, Critical, ApplySteps, StageSteps, ConfirmSteps, RollbackSteps,
        FinalSteps, InstallSteps, Label, PublishedSteps, UnpublishedSteps, EntrySteps, Settled

(* The invariant holds on a host where no transaction has run.             *)
LEMMA InitSafety == Init => SafetyInv
  <1> SUFFICES ASSUME Init PROVE SafetyInv
    OBVIOUS
  <1> USE ConstantsAssumption DEF Init
  <1>1. TypeOK
    <2>1. DOMAIN dir = {} /\ dir \in [DOMAIN dir -> Directory]
      OBVIOUS
    <2>2. DOMAIN dir \subseteq Tx
      BY <2>1
    <2>3. claims \in [Claim -> Tx \union {NoTx, TornTx}]
      OBVIOUS
    <2>4. /\ pc \in [Proc -> Label]
          /\ request \in [Invocation -> Claim \union {NoClaim, Install}]
      OBVIOUS
    <2>5. /\ starts \in 0..StartLimitBurst
          /\ failures \in 0..MaxFailures /\ crashes \in 0..MaxCrashes
      OBVIOUS
    <2>6. include \in Policy /\ runtime \in Policy
      OBVIOUS
    <2> QED
      BY <2>1, <2>2, <2>3, <2>4, <2>5, <2>6 DEF TypeOK
  <1>2. LockInv
    BY DEF LockInv, ConfirmSvcLabel, RollbackSvcLabel, RequestLabel
  <1>3. CurInv
    BY DEF CurInv
  <1>4. SnapshotInv
    BY DEF SnapshotInv
  <1>5. WatchdogInv
    BY DEF WatchdogInv, IdleIsDisarmed, Undecided
  <1>6. OutcomeInv
    BY DEF OutcomeInv, PublishedOutcomeIsInForce
  <1>7. AuthorizationInv
    BY DEF AuthorizationInv, EffectsAreAuthorized
  <1> QED
    BY <1>1, <1>2, <1>3, <1>4, <1>5, <1>6, <1>7 DEF SafetyInv

-----------------------------------------------------------------------------
(* Preservation, one lemma per procedure and one step per action.  The     *)
(* conjuncts of the invariant and the moves of a process are used          *)
(* throughout.                                                             *)
USE DEF SafetyInv, TypeOK, Directory, LockInv, ConfirmSvcLabel, RollbackSvcLabel, RequestLabel,
        CurInv, SnapshotInv, WatchdogInv, IdleIsDisarmed, Undecided, Outcome,
        OutcomeInv, PublishedOutcomeIsInForce, BootedBare, AuthorizationInv, EffectsAreAuthorized, Unspent,
        MayApply, At, Goto, Continue, Reject, Succeed, Fail, Release, RollbackStartJob, Asks, Explicit,
        durable, vars

(* No step of apply_transaction breaks the invariant. *)
LEMMA ApplySafety ==
  ASSUME SafetyInv, NEW p \in Proc, Apply(p)
  PROVE  SafetyInv'
  <1> USE ConstantsAssumption
  <1>1. CASE ApplyPrepare(p)
    <2>1. CASE ~MayApply(p)
      BY <1>1, <2>1 DEF ApplyPrepare
    <2>2. CASE MayApply(p)
      <3> DEFINE d == [candidate |-> CandidateOf[request[p]],
                       persistentBackup |-> include, runtimeBackup |-> runtime,
                       static |-> static, request |-> NoClaim, verification |-> NoClaim,
                       rollbackAuthorization |-> FALSE, terminal |-> "none"]
      <3>1. PICK t \in Tx \ DOMAIN dir :
              /\ cur' = t
              /\ dir' = [u \in DOMAIN dir \union {t} |-> IF u = t THEN d ELSE dir[u]]
              /\ Continue(p, "claim")
              /\ UNCHANGED <<active, claims, include, timerEnabled, static, runtime, timer>>
        BY <1>1, <2>2 DEF ApplyPrepare
      <3>2. request[p] \in Claim /\ ActionOf[request[p]] = "apply"
        BY <1>1 DEF ApplyPrepare
      <3>3. d \in Directory
        BY <3>2
      <3>4. /\ DOMAIN dir' = DOMAIN dir \union {t} /\ dir'[t] = d
            /\ \A u \in DOMAIN dir : dir'[u] = dir[u]
            /\ dir' \in [DOMAIN dir' -> Directory]
        BY <3>1, <3>3
      <3>5. d.candidate = CandidateOf[request[p]] /\ d.candidate # NoTable
        BY <3>2
      <3>6. /\ d.persistentBackup = include /\ d.runtimeBackup = runtime
            /\ d.request = NoClaim /\ d.terminal = "none"
        OBVIOUS
      <3>7. At(p, "apply")
        BY <1>1 DEF ApplyPrepare
      <3> HIDE DEF d
      <3>8. TypeOK'
        BY <2>2, <3>1, <3>4, <3>7
      <3>9. LockInv'
        BY <2>2, <3>1, <3>7
      <3>10. CurInv'
        BY <2>2, <3>1, <3>4, <3>7
      <3>11. SnapshotInv'
        BY <2>2, <3>1, <3>4, <3>5, <3>6
      <3>12. WatchdogInv'
        BY <2>2, <3>1, <3>4, <3>7
      <3>13. OutcomeInv'
        BY <2>2, <3>1, <3>4, <3>6, <3>7
      <3>14. AuthorizationInv'
        BY <2>2, <3>1, <3>2, <3>4, <3>5, <3>6, <3>7
      <3> QED
        BY <3>8, <3>9, <3>10, <3>11, <3>12, <3>13, <3>14
    <2> QED
      BY <2>1, <2>2
  <1>2. CASE ConsumeClaim(p, "claim", "activate")
    BY <1>2 DEF ConsumeClaim, ClaimInUse
  <1>3. CASE WriteActive(p)
    BY <1>3 DEF WriteActive
  <1>4. CASE EnableTimer(p)
    BY <1>4 DEF EnableTimer
  <1>5. CASE StartTimer(p)
    BY <1>5 DEF StartTimer
  <1>6. CASE LoadCandidate(p)
    BY <1>6 DEF LoadCandidate
  <1>7. CASE VerifyCandidate(p)
    BY <1>7 DEF VerifyCandidate
  <1> QED
    BY <1>1, <1>2, <1>3, <1>4, <1>5, <1>6, <1>7 DEF Apply

(* No step of stage_confirmation breaks the invariant. *)
LEMMA StageSafety ==
  ASSUME SafetyInv, NEW p \in Proc, Stage(p)
  PROVE  SafetyInv'
  <1> USE ConstantsAssumption
  <1>1. CASE StageCheck(p)
    BY <1>1 DEF StageCheck, Admissible, Binds
  <1>2. CASE StageRequest(p)
    BY <1>2 DEF StageRequest
  <1>3. CASE StageVerification(p)
    BY <1>3 DEF StageVerification
  <1> QED
    BY <1>1, <1>2, <1>3 DEF Stage

(* No step of confirm_transaction breaks the invariant. *)
LEMMA ConfirmSafety ==
  ASSUME SafetyInv, NEW p \in Proc, Confirm(p)
  PROVE  SafetyInv'
  <1> USE ConstantsAssumption
  <1>1. CASE ConfirmCheck(p)
    BY <1>1 DEF ConfirmCheck, ConfirmationValid, PendingUnchanged, RollbackQuiescent, Binds
  <1>2. CASE StopTimer(p)
    BY <1>2 DEF StopTimer
  <1>3. CASE ConfirmRecheck(p)
    BY <1>3 DEF ConfirmRecheck, ConfirmationValid, PendingUnchanged, RollbackQuiescent, Binds
  <1>4. CASE ConsumeClaim(p, "confirm_claim", "persist")
    <2>1. TypeOK'
      BY <1>4 DEF ConsumeClaim, ClaimInUse
    <2>2. LockInv'
      BY <1>4 DEF ConsumeClaim, ClaimInUse
    <2>3. CurInv'
      BY <1>4 DEF ConsumeClaim, ClaimInUse
    <2>4. SnapshotInv'
      BY <1>4 DEF ConsumeClaim, ClaimInUse
    <2>5. WatchdogInv'
      BY <1>4 DEF ConsumeClaim, ClaimInUse
    <2>6. OutcomeInv'
      BY <1>4 DEF ConsumeClaim, ClaimInUse
    <2>7. AuthorizationInv'
      BY <1>4 DEF ConsumeClaim, ClaimInUse
    <2> QED
      BY <2>1, <2>2, <2>3, <2>4, <2>5, <2>6, <2>7
  <1>5. CASE PersistCandidate(p)
    BY <1>5 DEF PersistCandidate
  <1>6. CASE PublishConfirmation(p)
    <2>1. CASE Reject(p)
      BY <1>6, <2>1 DEF PublishConfirmation, Publish
    <2>2. CASE Publish(p, "publish_confirmation", "confirmed")
      <3>1. TypeOK'
        BY <2>2 DEF Publish
      <3>2. LockInv'
        BY <2>2 DEF Publish
      <3>3. CurInv'
        BY <2>2 DEF Publish
      <3>4. SnapshotInv'
        BY <2>2 DEF Publish
      <3>5. WatchdogInv'
        BY <2>2 DEF Publish
      <3>6. OutcomeInv'
        BY <2>2 DEF Publish
      <3>7. AuthorizationInv'
        BY <2>2 DEF Publish
      <3> QED
        BY <3>1, <3>2, <3>3, <3>4, <3>5, <3>6, <3>7
    <2> QED
      BY <1>6, <2>1, <2>2 DEF PublishConfirmation
  <1> QED
    BY <1>1, <1>2, <1>3, <1>4, <1>5, <1>6 DEF Confirm

(* No step of rollback_locked breaks the invariant. *)
LEMMA RollbackSafety ==
  ASSUME SafetyInv, NEW p \in Proc, Rollback(p)
  PROVE  SafetyInv'
  <1> USE ConstantsAssumption
  <1>1. CASE RollbackCheck(p)
    BY <1>1 DEF RollbackCheck, MayRollBack, Admissible, Binds
  <1>2. CASE WriteRollbackAuthorization(p)
    <2>1. TypeOK'
      <3>1. cur \in DOMAIN dir /\ dir[cur] \in Directory
        BY <1>2 DEF WriteRollbackAuthorization
      <3>2. dir' = dir \/ dir' = [dir EXCEPT ![cur].rollbackAuthorization = TRUE]
        BY <1>2 DEF WriteRollbackAuthorization
      <3>3. dir' \in [DOMAIN dir -> Directory] /\ DOMAIN dir' = DOMAIN dir
        <4>1. dir \in [DOMAIN dir -> Directory]
          OBVIOUS
        <4> DEFINE d == [dir[cur] EXCEPT !.rollbackAuthorization = TRUE]
        <4>2. d \in Directory
          BY <3>1
        <4>3. dir' = dir \/ dir' = [dir EXCEPT ![cur] = d]
          BY <3>1, <3>2
        <4> HIDE DEF SafetyInv, Directory, d
        <4> QED
          BY <3>1, <4>1, <4>2, <4>3
      <3> QED
        BY <1>2, <3>3 DEF WriteRollbackAuthorization
    <2>2. LockInv'
      BY <1>2 DEF WriteRollbackAuthorization
    <2>3. CurInv'
      BY <1>2 DEF WriteRollbackAuthorization
    <2>4. SnapshotInv'
      BY <1>2 DEF WriteRollbackAuthorization
    <2>5. WatchdogInv'
      BY <1>2 DEF WriteRollbackAuthorization
    <2>6. OutcomeInv'
      BY <1>2 DEF WriteRollbackAuthorization
    <2>7. AuthorizationInv'
      BY <1>2 DEF WriteRollbackAuthorization
    <2> QED
      BY <2>1, <2>2, <2>3, <2>4, <2>5, <2>6, <2>7
  <1>3. CASE ConsumeClaim(p, "rollback_claim", "restore_include")
    BY <1>3 DEF ConsumeClaim, ClaimInUse
  <1>4. CASE RestoreInclude(p)
    BY <1>4 DEF RestoreInclude
  <1>5. CASE RestoreRuntime(p)
    BY <1>5 DEF RestoreRuntime
  <1>6. CASE Publish(p, "publish_rollback", "rolledback")
    <2>1. TypeOK'
      BY <1>6 DEF Publish
    <2>2. LockInv'
      BY <1>6 DEF Publish
    <2>3. CurInv'
      BY <1>6 DEF Publish
    <2>4. SnapshotInv'
      BY <1>6 DEF Publish
    <2>5. WatchdogInv'
      BY <1>6 DEF Publish
    <2>6. OutcomeInv'
      BY <1>6 DEF Publish
    <2>7. AuthorizationInv'
      BY <1>6 DEF Publish
    <2> QED
      BY <2>1, <2>2, <2>3, <2>4, <2>5, <2>6, <2>7
  <1> QED
    BY <1>1, <1>2, <1>3, <1>4, <1>5, <1>6 DEF Rollback

(* No step of the end of a decided transaction breaks the invariant. *)
LEMMA FinalizeSafety ==
  ASSUME SafetyInv, NEW p \in Proc, Finalize(p)
  PROVE  SafetyInv'
  <1> USE ConstantsAssumption
  <1>1. CASE DisableTimer(p)
    <2>1. TypeOK'
      BY <1>1 DEF DisableTimer
    <2>2. LockInv'
      BY <1>1 DEF DisableTimer
    <2>3. CurInv'
      BY <1>1 DEF DisableTimer
    <2>4. SnapshotInv'
      BY <1>1 DEF DisableTimer
    <2>5. WatchdogInv'
      BY <1>1 DEF DisableTimer
    <2>6. OutcomeInv'
      BY <1>1 DEF DisableTimer
    <2>7. AuthorizationInv'
      BY <1>1 DEF DisableTimer
    <2> QED
      BY <2>1, <2>2, <2>3, <2>4, <2>5, <2>6, <2>7
  <1>2. CASE StopWatchdog(p)
    BY <1>2 DEF StopWatchdog
  <1>3. CASE ClearActive(p)
    BY <1>3 DEF ClearActive
  <1> QED
    BY <1>1, <1>2, <1>3 DEF Finalize

(* No step of install_runtime breaks the invariant. *)
LEMMA InstallRuntimeSafety ==
  ASSUME SafetyInv, NEW p \in Proc, InstallRuntime(p)
  PROVE  SafetyInv'
  <1> USE ConstantsAssumption
  <1>1. CASE InstallCheck(p)
    BY <1>1 DEF InstallCheck
  <1>2. CASE InstallReplace(p)
    BY <1>2 DEF InstallReplace
  <1> QED
    BY <1>1, <1>2 DEF InstallRuntime

-----------------------------------------------------------------------------
(* What a torn write can damage: the file being written and nothing else.  *)
LEMMA TearEffect ==
  ASSUME SafetyInv, NEW p \in Proc, Tear(p)
  PROVE  /\ active' = active \/ (active = NoTx /\ active' = TornTx)
         /\ DOMAIN dir' = DOMAIN dir /\ dir' \in [DOMAIN dir -> Directory]
         /\ \A t \in DOMAIN dir :
              /\ dir'[t].candidate = dir[t].candidate
              /\ dir'[t].persistentBackup = dir[t].persistentBackup
              /\ dir'[t].runtimeBackup = dir[t].runtimeBackup
              /\ dir'[t].request \in {dir[t].request, TornClaim}
              /\ dir'[t].terminal = dir[t].terminal
                   \/ (dir[t].terminal = "none" /\ dir'[t].terminal = "torn")
         /\ claims' \in [Claim -> Tx \union {NoTx, TornTx}]
         /\ \A c \in Claim : claims'[c] = claims[c] \/ claims[c] = NoTx
  <1> USE ConstantsAssumption
  <1>1. CASE UNCHANGED <<active, dir, claims>>
    BY <1>1
  <1>2. CASE active' # active
    BY <1>2 DEF Tear
  <1>3. CASE claims' # claims
    BY <1>3 DEF Tear, ClaimInUse
  <1>4. CASE dir' # dir
    <2>1. /\ cur \in DOMAIN dir /\ dir[cur] \in Directory
          /\ UNCHANGED <<active, claims>>
      BY <1>4 DEF Tear
    <2> DEFINE
          q == IF pc[p] = "stage_request" THEN TornClaim ELSE dir[cur].request
          v == IF pc[p] = "stage_verification" THEN TornClaim ELSE dir[cur].verification
          a == dir[cur].rollbackAuthorization \/ pc[p] = "rollback_authorization"
          o == IF pc[p] \in {"publish_confirmation", "publish_rollback"}
               THEN "torn" ELSE dir[cur].terminal
    <2>2. /\ holder = p
          /\ dir' = [dir EXCEPT ![cur].request = q, ![cur].verification = v,
                                ![cur].rollbackAuthorization = a, ![cur].terminal = o]
      BY <1>4, <2>1 DEF Tear
    <2>3. o = dir[cur].terminal \/ (dir[cur].terminal = "none" /\ o = "torn")
      BY <2>2
    <2>4. /\ q \in {dir[cur].request, TornClaim} /\ q \in Claim \union {NoClaim, TornClaim}
          /\ v \in Claim \union {NoClaim, TornClaim}
          /\ a \in BOOLEAN /\ o \in {"none", "torn", "confirmed", "rolledback"}
      BY <2>1
    <2> HIDE DEF q, v, a, o
    <2>5. DOMAIN dir' = DOMAIN dir /\ dir' \in [DOMAIN dir -> Directory]
      BY <2>1, <2>2, <2>4
    <2> QED
      BY <2>1, <2>2, <2>3, <2>4, <2>5
  <1> QED
    BY <1>1, <1>2, <1>3, <1>4

(* No lock wait, failure or kill of a process breaks the invariant. *)
LEMMA ProcessSafety ==
  ASSUME SafetyInv, NEW p \in Proc, Acquire(p) \/ LockTimeout(p) \/ Abort(p)
  PROVE  SafetyInv'
  <1> USE ConstantsAssumption
  <1>1. CASE Acquire(p)
    BY <1>1 DEF Acquire, Runs
  <1>2. CASE LockTimeout(p)
    BY <1>2 DEF LockTimeout
  <1>3. CASE Abort(p)
    <2>0. Tear(p)
      BY <1>3 DEF Abort
    <2>1. TypeOK'
      BY <1>3, <2>0, TearEffect DEF Abort, Guarded
    <2>2. LockInv'
      BY <1>3 DEF Abort, Tear, ClaimInUse, Guarded
    <2>3. CurInv'
      BY <1>3 DEF Abort, Tear, ClaimInUse, Guarded
    <2>4. SnapshotInv'
      BY <1>3 DEF Abort, Tear, ClaimInUse, Guarded
    <2>5. WatchdogInv'
      BY <1>3 DEF Abort, Tear, ClaimInUse, Guarded
    <2>6. OutcomeInv'
      BY <1>3 DEF Abort, Tear, ClaimInUse, Guarded
    <2>7. AuthorizationInv'
      BY <1>3, <2>0, TearEffect DEF Abort, Guarded
    <2> QED
      BY <2>1, <2>2, <2>3, <2>4, <2>5, <2>6, <2>7
  <1> QED
    BY <1>1, <1>2, <1>3

(* No submission, service start, timer, boot or edit breaks the invariant. *)
LEMMA SystemSafety ==
  ASSUME SafetyInv,
         \/ \E p \in Invocation : \/ \E r \in Claim \union {Install} : Submit(p, r)
                                 \/ StartConfirmation(p)
         \/ RestartRollback \/ StartLimitWindowEnds \/ TimerFires \/ PowerLoss \/ Drift
         \/ UNCHANGED vars
  PROVE  SafetyInv'
  <1> USE ConstantsAssumption
  <1>1. ASSUME NEW p \in Invocation, NEW r \in Claim \union {Install}, Submit(p, r)
        PROVE  SafetyInv'
    BY <1>1 DEF Submit
  <1>2. ASSUME NEW p \in Invocation, StartConfirmation(p)
        PROVE  SafetyInv'
    BY <1>2 DEF StartConfirmation, RollbackRunning
  <1>3. CASE RestartRollback
    BY <1>3 DEF RestartRollback
  <1>4. CASE StartLimitWindowEnds
    BY <1>4 DEF StartLimitWindowEnds
  <1>5. CASE TimerFires
    BY <1>5 DEF TimerFires
  <1>6. CASE PowerLoss
    <2>0. UNCHANGED <<active, dir, claims>> \/ Tear(holder)
      BY <1>6 DEF PowerLoss
    <2>1. TypeOK'
      BY <1>6, <2>0, TearEffect DEF PowerLoss
    <2>2. LockInv'
      BY <1>6 DEF PowerLoss, Tear, ClaimInUse
    <2>3. CurInv'
      BY <1>6 DEF PowerLoss, Tear, ClaimInUse
    <2>4. SnapshotInv'
      BY <1>6 DEF PowerLoss, Tear, ClaimInUse
    <2>5. WatchdogInv'
      BY <1>6 DEF PowerLoss, Tear, ClaimInUse
    <2>6. OutcomeInv'
      BY <1>6 DEF PowerLoss, Tear, ClaimInUse
    <2>7. AuthorizationInv'
      <3>1. holder' = NoProc
        BY <1>6 DEF PowerLoss
      <3>2. CASE UNCHANGED <<active, dir, claims>>
        BY <3>1, <3>2
      <3>3. CASE holder \in Proc /\ Tear(holder)
        <4>1. AuthorizationInv
          OBVIOUS
        <4> HIDE DEF SafetyInv
        <4>2. /\ active' = active \/ active' = TornTx
              /\ DOMAIN dir' = DOMAIN dir /\ DOMAIN dir \subseteq Tx
              /\ \A t \in DOMAIN dir :
                   /\ dir'[t].candidate = dir[t].candidate
                   /\ dir'[t].request \in {dir[t].request, TornClaim}
                   /\ dir'[t].terminal = "confirmed" => dir[t].terminal = "confirmed"
              /\ \A c \in Claim : claims'[c] = claims[c] \/ claims[c] = NoTx
          <5> USE DEF SafetyInv
          <5> QED
            BY <3>3, TearEffect
        <4> QED
          BY <3>1, <4>1, <4>2
      <3> QED
        BY <1>6, <3>2, <3>3 DEF PowerLoss
    <2> QED
      BY <2>1, <2>2, <2>3, <2>4, <2>5, <2>6, <2>7
  <1>7. CASE Drift
    BY <1>7 DEF Drift
  <1>8. CASE UNCHANGED vars
    BY <1>8
  <1> QED
    BY <1>1, <1>2, <1>3, <1>4, <1>5, <1>6, <1>7, <1>8

-----------------------------------------------------------------------------
(* Every step preserves the invariant. *)
LEMMA StepSafety == SafetyInv /\ [Next]_vars => SafetyInv'
  <1> SUFFICES ASSUME SafetyInv, [Next]_vars PROVE SafetyInv'
    OBVIOUS
  <1>1. ASSUME NEW p \in Proc, Procedure(p) PROVE SafetyInv'
    <2> HIDE DEF SafetyInv
    <2> QED
      BY <1>1, ApplySafety, StageSafety, ConfirmSafety, RollbackSafety, FinalizeSafety,
         InstallRuntimeSafety, ProcessSafety DEF Procedure
  <1>2. ASSUME NEW p \in Proc, LockTimeout(p) \/ Abort(p) PROVE SafetyInv'
    <2> HIDE DEF SafetyInv
    <2> QED
      BY <1>2, ProcessSafety
  <1> HIDE DEF SafetyInv, vars
  <1> QED
    BY <1>1, <1>2, SystemSafety DEF Next

(* SafetyInv holds in every reachable state: mutual exclusion, what the    *)
(* holder has established at each step, and the properties below.          *)
THEOREM SafetyInvariant == Spec => []SafetyInv
  <1> HIDE DEF SafetyInv, vars
  <1> QED
    BY InitSafety, StepSafety, PTL DEF Spec

(* Type correctness of FirewallTransaction. *)
THEOREM TypeCorrectness == Spec => []TypeOK
  <1>1. SafetyInv => TypeOK
    OBVIOUS
  <1> HIDE DEF SafetyInv, TypeOK
  <1> QED
    BY <1>1, SafetyInvariant, PTL

(* An undecided candidate in the boot-time include is always named by the  *)
(* active pointer and guarded by an enabled watchdog.                      *)
THEOREM IncludeGuarded == Spec => []UndecidedIncludeIsGuarded
  <1>1. SafetyInv => UndecidedIncludeIsGuarded
    BY ConstantsAssumption DEF UndecidedIncludeIsGuarded
  <1> HIDE DEF SafetyInv
  <1> QED
    BY <1>1, SafetyInvariant, PTL

(* Without an active transaction the watchdog is neither enabled nor       *)
(* running, so the next apply gets a whole timeout.                        *)
THEOREM IdleDisarmed == Spec => []IdleIsDisarmed
  <1>1. SafetyInv => IdleIsDisarmed
    OBVIOUS
  <1> HIDE DEF SafetyInv, IdleIsDisarmed
  <1> QED
    BY <1>1, SafetyInvariant, PTL

(* While its pointer exists, a published outcome is what the host runs.    *)
THEOREM OutcomeInForce == Spec => []PublishedOutcomeIsInForce
  <1>1. SafetyInv => PublishedOutcomeIsInForce
    OBVIOUS
  <1> HIDE DEF SafetyInv, PublishedOutcomeIsInForce
  <1> QED
    BY <1>1, SafetyInvariant, PTL

(* Every activation and every confirmation has spent a claim of its own.   *)
THEOREM Authorized == Spec => []EffectsAreAuthorized
  <1>1. SafetyInv => EffectsAreAuthorized
    OBVIOUS
  <1> HIDE DEF SafetyInv, EffectsAreAuthorized
  <1> QED
    BY <1>1, SafetyInvariant, PTL

-----------------------------------------------------------------------------
(* Only four steps and a boot write the include or the table, and the four *)
(* are taken for an undecided transaction.                                 *)
LEMMA PolicyWrites ==
  ASSUME SafetyInv, Next,
         \/ include' # include
         \/ runtime' # runtime /\ ~(crashes' > crashes /\ runtime' \in {include, NoTable})
  PROVE  active \in DOMAIN dir /\ dir[active].terminal = "none"
  <1> USE ConstantsAssumption
  <1>1. \E p \in Proc : \/ LoadCandidate(p) \/ PersistCandidate(p)
                        \/ RestoreInclude(p) \/ RestoreRuntime(p)
    <2>1. ASSUME NEW p \in Proc, Procedure(p)
          PROVE  \/ LoadCandidate(p) \/ PersistCandidate(p)
                 \/ RestoreInclude(p) \/ RestoreRuntime(p)
      <3> HIDE DEF SafetyInv, LockInv, CurInv, SnapshotInv, WatchdogInv, OutcomeInv, AuthorizationInv
      <3>1. ~Stage(p) /\ ~Finalize(p) /\ ~InstallRuntime(p) /\ ~Acquire(p)
        BY DEF Stage, StageCheck, StageRequest, StageVerification, Finalize, DisableTimer,
               StopWatchdog, ClearActive, InstallRuntime, InstallCheck, InstallReplace, Acquire
      <3>2. Apply(p) => LoadCandidate(p)
        BY DEF Apply, ApplyPrepare, ConsumeClaim, WriteActive, EnableTimer, StartTimer,
               VerifyCandidate
      <3>3. Confirm(p) => PersistCandidate(p)
        BY DEF Confirm, ConfirmCheck, StopTimer, ConfirmRecheck, ConsumeClaim,
               PublishConfirmation, Publish
      <3>4. Rollback(p) => RestoreInclude(p) \/ RestoreRuntime(p)
        BY DEF Rollback, RollbackCheck, WriteRollbackAuthorization, ConsumeClaim, Publish
      <3> QED
        BY <2>1, <3>1, <3>2, <3>3, <3>4 DEF Procedure
    <2>2. ASSUME NEW p \in Proc PROVE ~LockTimeout(p) /\ ~Abort(p)
      BY DEF LockTimeout, Abort
    <2>3. ASSUME NEW p \in Invocation, NEW r \in Claim \union {Install}
          PROVE  ~Submit(p, r) /\ ~StartConfirmation(p)
      BY DEF Submit, StartConfirmation
    <2>4. /\ ~RestartRollback /\ ~StartLimitWindowEnds /\ ~TimerFires
          /\ ~PowerLoss /\ ~Drift
      BY DEF RestartRollback, StartLimitWindowEnds, TimerFires, PowerLoss, Drift
    <2> QED
      BY <2>1, <2>2, <2>3, <2>4 DEF Next
  <1> QED
    BY <1>1 DEF LoadCandidate, PersistCandidate, RestoreInclude, RestoreRuntime

(* No step after a published confirmation undoes it. *)
THEOREM ConfirmationIsFinal == Spec => NoUndoAfterConfirmation
  <1>1. SafetyInv /\ [Next]_vars =>
          [\A t \in DOMAIN dir :
             (active = t /\ dir[t].terminal = "confirmed") =>
               /\ include' = include
               /\ \/ runtime' = runtime
                  \/ crashes' > crashes /\ runtime' \in {include, NoTable}]_vars
    <2> HIDE DEF SafetyInv
    <2> QED
      BY PolicyWrites
  <1> HIDE DEF SafetyInv, vars
  <1> QED
    BY <1>1, SafetyInvariant, PTL DEF Spec, NoUndoAfterConfirmation
-----------------------------------------------------------------------------
(* Receipts of claims are never rewritten: the three steps that write one  *)
(* find it unwritten, and so does a torn write.                            *)
THEOREM ClaimsSpentOnce == Spec => ClaimsAreSpentOnce
  <1> DEFINE A == \A c \in Claim : ~Unspent(c) => claims'[c] = claims[c]
  <1>1. SafetyInv /\ [Next]_vars => [A]_vars
    <2> SUFFICES ASSUME SafetyInv, Next, claims' # claims PROVE A
      OBVIOUS
    <2>1. ASSUME NEW p \in Proc, Procedure(p) PROVE A
      <3> USE DEF AuthorizationInv
      <3> HIDE DEF CurInv, WatchdogInv, OutcomeInv, A
      <3>1. \/ ConsumeClaim(p, "claim", "activate")
            \/ ConsumeClaim(p, "confirm_claim", "persist")
            \/ ConsumeClaim(p, "rollback_claim", "restore_include")
        <4> HIDE DEF SafetyInv
        <4> QED
        BY <2>1 DEF Procedure, Acquire, Apply, ApplyPrepare, WriteActive, EnableTimer, StartTimer, LoadCandidate,
           VerifyCandidate, Stage, StageCheck, StageRequest, StageVerification, Confirm, ConfirmCheck, StopTimer,
           ConfirmRecheck, PersistCandidate, PublishConfirmation, Publish, Rollback, RollbackCheck, WriteRollbackAuthorization,
           RestoreInclude, RestoreRuntime, Finalize, DisableTimer, StopWatchdog, ClearActive,
           InstallRuntime, InstallCheck, InstallReplace
      <3>2. At(p, "claim") \/ At(p, "confirm_claim") \/ At(p, "rollback_claim")
        BY <3>1 DEF ConsumeClaim
      <3>3. Unspent(ClaimInUse(p))
        <4>1. CASE At(p, "claim")
          BY <4>1, ConstantsAssumption DEF ClaimInUse
        <4>2. CASE At(p, "confirm_claim")
          BY <4>2, ConstantsAssumption DEF ClaimInUse
        <4>3. CASE At(p, "rollback_claim")
          BY <4>3, ConstantsAssumption DEF ClaimInUse
        <4> QED
          BY <3>2, <4>1, <4>2, <4>3
      <3> QED
        BY <3>1, <3>3 DEF ConsumeClaim, A
    <2>2. ASSUME NEW p \in Proc, Abort(p) PROVE A
      BY <2>2, TearEffect DEF Abort
    <2>3. CASE PowerLoss
      BY <2>3, TearEffect DEF PowerLoss
    <2> QED
      <3> HIDE DEF SafetyInv, A
      <3> QED
        BY <2>1, <2>2, <2>3 DEF Next, LockTimeout, Submit, StartConfirmation, RestartRollback,
           StartLimitWindowEnds, TimerFires, Drift
  <1> HIDE DEF SafetyInv, vars, A
  <1>2. Spec => [][A]_vars
    BY <1>1, SafetyInvariant, PTL DEF Spec
  <1> QED
    BY <1>2 DEF ClaimsAreSpentOnce, A

-----------------------------------------------------------------------------
(* An effective candidate is never left alone: every step leaves the       *)
(* watchdog waiting, leaves or puts the rollback service to work, belongs  *)
(* to the confirmation, or decides.                                        *)
HIDE DEF AuthorizationInv, SnapshotInv, PublishedOutcomeIsInForce, EffectsAreAuthorized,
         Directory
USE DEF AttendanceInv, UndecidedIsAttended, Effective

LEMMA ApplyAttends ==
  ASSUME SafetyInv, AttendanceInv, NEW p \in Proc, Apply(p)
  PROVE  AttendanceInv'
  <1> USE ConstantsAssumption
  <1>1. CASE ApplyPrepare(p)
    <2>1. CASE ~MayApply(p)
      BY <1>1, <2>1 DEF ApplyPrepare
    <2>2. CASE MayApply(p)
      <3>1. /\ At(p, "apply") /\ active' = NoTx /\ timer' = timer /\ Continue(p, "claim")
            /\ \E t \in Tx : DOMAIN dir' = DOMAIN dir \union {t}
        <4> HIDE DEF SafetyInv, AttendanceInv, At, Continue
        <4> QED
          BY <1>1, <2>2 DEF ApplyPrepare
      <3>2. active = NoTx
        BY <2>2
      <3> HIDE <1>1, <2>2
      <3> QED
        BY <3>1, <3>2
    <2> QED
      BY <2>1, <2>2
  <1>2. CASE ConsumeClaim(p, "claim", "activate")
    BY <1>2 DEF ConsumeClaim
  <1>3. CASE WriteActive(p)
    BY <1>3 DEF WriteActive
  <1>4. CASE EnableTimer(p)
    BY <1>4 DEF EnableTimer
  <1>5. CASE StartTimer(p)
    BY <1>5 DEF StartTimer
  <1>6. CASE LoadCandidate(p)
    BY <1>6 DEF LoadCandidate
  <1>7. CASE VerifyCandidate(p)
    BY <1>7 DEF VerifyCandidate
  <1> QED
    BY <1>1, <1>2, <1>3, <1>4, <1>5, <1>6, <1>7 DEF Apply

LEMMA StageAttends ==
  ASSUME SafetyInv, AttendanceInv, NEW p \in Proc, Stage(p)
  PROVE  AttendanceInv'
  <1> USE ConstantsAssumption
  <1>1. CASE StageCheck(p)
    BY <1>1 DEF StageCheck
  <1>2. CASE StageRequest(p)
    BY <1>2 DEF StageRequest, Directory
  <1>3. CASE StageVerification(p)
    BY <1>3 DEF StageVerification, Directory
  <1> QED
    BY <1>1, <1>2, <1>3 DEF Stage

LEMMA ConfirmAttends ==
  ASSUME SafetyInv, AttendanceInv, NEW p \in Proc, Confirm(p)
  PROVE  AttendanceInv'
  <1> USE ConstantsAssumption
  <1>1. CASE ConfirmCheck(p)
    BY <1>1 DEF ConfirmCheck, RollbackQuiescent
  <1>2. CASE StopTimer(p)
    BY <1>2 DEF StopTimer
  <1>3. CASE ConfirmRecheck(p)
    BY <1>3 DEF ConfirmRecheck
  <1>4. CASE ConsumeClaim(p, "confirm_claim", "persist")
    BY <1>4 DEF ConsumeClaim
  <1>5. CASE PersistCandidate(p)
    BY <1>5 DEF PersistCandidate
  <1>6. CASE PublishConfirmation(p)
    <2>1. CASE Reject(p)
      BY <1>6, <2>1 DEF PublishConfirmation, Publish
    <2>2. CASE Publish(p, "publish_confirmation", "confirmed")
      BY <2>2 DEF Publish
    <2> QED
      BY <1>6, <2>1, <2>2 DEF PublishConfirmation
  <1> QED
    BY <1>1, <1>2, <1>3, <1>4, <1>5, <1>6 DEF Confirm

LEMMA RollbackAttends ==
  ASSUME SafetyInv, AttendanceInv, NEW p \in Proc, Rollback(p)
  PROVE  AttendanceInv'
  <1> USE ConstantsAssumption
  <1>1. CASE RollbackCheck(p)
    BY <1>1 DEF RollbackCheck
  <1>2. CASE WriteRollbackAuthorization(p)
    <2>1. CASE dir[cur].rollbackAuthorization
      BY <1>2, <2>1 DEF WriteRollbackAuthorization
    <2>2. CASE ~dir[cur].rollbackAuthorization
      <3>1. /\ At(p, "rollback_authorization") /\ Continue(p, "rollback_claim")
            /\ dir' = [dir EXCEPT ![cur].rollbackAuthorization = TRUE]
            /\ UNCHANGED <<active, include, runtime, timer, cur>>
        <4> HIDE DEF SafetyInv, AttendanceInv, At, Continue
        <4> QED
          BY <1>2, <2>2 DEF WriteRollbackAuthorization
      <3> HIDE <1>2, <2>2
      <3>2. Effective' => Effective
        <4> HIDE DEF AttendanceInv
        <4> QED
          BY <3>1
      <3> QED
        BY <3>1, <3>2
    <2> QED
      BY <2>1, <2>2
  <1>3. CASE ConsumeClaim(p, "rollback_claim", "restore_include")
    BY <1>3 DEF ConsumeClaim
  <1>4. CASE RestoreInclude(p)
    BY <1>4 DEF RestoreInclude
  <1>5. CASE RestoreRuntime(p)
    BY <1>5 DEF RestoreRuntime
  <1>6. CASE Publish(p, "publish_rollback", "rolledback")
    BY <1>6 DEF Publish
  <1> QED
    BY <1>1, <1>2, <1>3, <1>4, <1>5, <1>6 DEF Rollback

LEMMA EndAttends ==
  ASSUME SafetyInv, AttendanceInv, NEW p \in Proc,
         Finalize(p) \/ InstallRuntime(p) \/ Acquire(p) \/ LockTimeout(p) \/ Abort(p)
  PROVE  AttendanceInv'
  <1> USE ConstantsAssumption
  <1>1. CASE DisableTimer(p)
    BY <1>1 DEF DisableTimer
  <1>2. CASE StopWatchdog(p)
    BY <1>2 DEF StopWatchdog
  <1>3. CASE ClearActive(p)
    BY <1>3 DEF ClearActive
  <1>4. CASE InstallCheck(p)
    BY <1>4 DEF InstallCheck
  <1>5. CASE InstallReplace(p)
    BY <1>5 DEF InstallReplace
  <1>6. CASE Acquire(p)
    BY <1>6 DEF Acquire
  <1>7. CASE LockTimeout(p)
    BY <1>7 DEF LockTimeout
  <1>8. CASE Abort(p)
    BY <1>8, TearEffect DEF Abort, Guarded
  <1> QED
    BY <1>1, <1>2, <1>3, <1>4, <1>5, <1>6, <1>7, <1>8 DEF Finalize, InstallRuntime

LEMMA SystemAttends ==
  ASSUME SafetyInv, AttendanceInv,
         \/ \E p \in Invocation : \/ \E r \in Claim \union {Install} : Submit(p, r)
                                 \/ StartConfirmation(p)
         \/ RestartRollback \/ StartLimitWindowEnds \/ TimerFires \/ PowerLoss \/ Drift
         \/ UNCHANGED vars
  PROVE  AttendanceInv'
  <1> USE ConstantsAssumption
  <1>1. ASSUME NEW p \in Invocation, NEW r \in Claim \union {Install}, Submit(p, r)
        PROVE  AttendanceInv'
    BY <1>1 DEF Submit
  <1>2. ASSUME NEW p \in Invocation, StartConfirmation(p)
        PROVE  AttendanceInv'
    BY <1>2 DEF StartConfirmation, RollbackRunning
  <1>3. CASE RestartRollback
    BY <1>3 DEF RestartRollback
  <1>4. CASE StartLimitWindowEnds
    BY <1>4 DEF StartLimitWindowEnds
  <1>5. CASE TimerFires
    BY <1>5 DEF TimerFires
  <1>6. CASE PowerLoss
    BY <1>6, TearEffect DEF PowerLoss
  <1>7. CASE Drift
    BY <1>7 DEF Drift
  <1>8. CASE UNCHANGED vars
    BY <1>8
  <1> QED
    BY <1>1, <1>2, <1>3, <1>4, <1>5, <1>6, <1>7, <1>8

(* An undecided candidate that has taken effect always has somebody to     *)
(* settle it.                                                              *)
THEOREM Attended == Spec => []UndecidedIsAttended
  <1>1. Init => AttendanceInv
    BY ConstantsAssumption DEF Init
  <1>2. SafetyInv /\ AttendanceInv /\ [Next]_vars => AttendanceInv'
    <2> HIDE DEF SafetyInv, AttendanceInv, vars
    <2> QED
      BY ApplyAttends, StageAttends, ConfirmAttends, RollbackAttends, EndAttends, SystemAttends
         DEF Next, Procedure
  <1>3. AttendanceInv => UndecidedIsAttended
    OBVIOUS
  <1> HIDE DEF SafetyInv, AttendanceInv, UndecidedIsAttended, vars
  <1> QED
    BY <1>1, <1>2, <1>3, SafetyInvariant, PTL DEF Spec

-----------------------------------------------------------------------------
(* No run fails half-way because a claim, pointer or terminal record it    *)
(* writes exclusively is already there, wherever earlier runs have failed, *)
(* been killed or lost power.                                              *)
THEOREM ExclusiveWrites == Spec => []ExclusiveWritesAreNew
  <1>1. SafetyInv => ExclusiveWritesAreNew
    <2> SUFFICES ASSUME SafetyInv, holder # NoProc
                 PROVE  ExclusiveWritesAreNew
      BY DEF ExclusiveWritesAreNew
    <2>1. pc[holder] = "claim" => Unspent(ClaimInUse(holder))
      BY ConstantsAssumption DEF ClaimInUse, AuthorizationInv
    <2>2. pc[holder] = "confirm_claim" => Unspent(ClaimInUse(holder))
      BY ConstantsAssumption DEF ClaimInUse, AuthorizationInv
    <2>3. pc[holder] = "rollback_claim" => Unspent(ClaimInUse(holder))
      BY ConstantsAssumption DEF ClaimInUse, AuthorizationInv
    <2>4. pc[holder] = "activate" => active = NoTx
      OBVIOUS
    <2>5. pc[holder] \in {"publish_confirmation", "publish_rollback"} => dir[cur].terminal = "none"
      OBVIOUS
    <2> HIDE DEF SafetyInv, Unspent
    <2> QED
      BY <2>1, <2>2, <2>3, <2>4, <2>5 DEF ExclusiveWritesAreNew
  <1> HIDE DEF SafetyInv
  <1> QED
    BY <1>1, SafetyInvariant, PTL
===============================================================================
