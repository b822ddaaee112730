----------------------------- MODULE OpenSSHProofs -----------------------------
(***************************************************************************)
(* Proofs about OpenSSHTransaction for every set of runs, transactions and *)
(* configurations and every bound.  SafetyInv of module OpenSSHInvariant   *)
(* is inductive; the safety properties and the refinement of module        *)
(* RetirementOutcome follow from it.                                       *)
(***************************************************************************)
EXTENDS OpenSSHInvariant, TLAPS

USE DEF Proc, Conf, Record, Request, Guarded, ApplySteps, ConfirmSteps, RollbackSteps,
        CancelSteps, Critical, Label, SavedSteps, UnitSteps, LoadedSteps, EnabledSteps, StartedSteps, WrittenSteps,
        UndoSteps, RestoredSteps,
        Status, Pending, Names, SafetyInv, TypeOK, LockInv, HolderInv, IdentifierInv,
        SameSnapshot, AfterIsCandidate, ListenersFollow, InForce, PendingIsGuarded, DecisionIsInForce,
        At, Goto, Continue, Reject, Raise, End, TimerNotified, files, systemd, bounds, vars

(* The invariant holds on a host that has never been finalized.            *)
LEMMA InitSafety == Init => SafetyInv
  <1> SUFFICES ASSUME Init PROVE SafetyInv
    OBVIOUS
  <1> USE ConstantsAssumption DEF Init
  <1>1. TypeOK
    <2>1. pc \in [Proc -> Label] /\ request \in [Invocation -> Request \union {NoRequest}]
      OBVIOUS
    <2>2. conf \in Conf /\ live \in Conf \union {NoConf}
      OBVIOUS
    <2>3. failures \in 0..MaxFailures /\ crashes \in 0..MaxCrashes
      OBVIOUS
    <2> HIDE DEF Conf, Record, Label, Proc, Request
    <2> QED
      BY <2>1, <2>2, <2>3
  <1>2. LockInv /\ HolderInv /\ IdentifierInv
    OBVIOUS
  <1>3. AfterIsCandidate(record) /\ AfterIsCandidate(mem)
    OBVIOUS
  <1>4. PendingIsGuarded /\ DecisionIsInForce
    OBVIOUS
  <1> HIDE DEF TypeOK, LockInv, HolderInv, IdentifierInv, AfterIsCandidate,
               PendingIsGuarded, DecisionIsInForce
  <1> QED
    BY <1>1, <1>2, <1>3, <1>4

(* A run that ends, or whose apply turns to its rollback, leaves a sound   *)
(* state whatever it was doing.                                            *)
LEMMA RejectSafety ==
  ASSUME SafetyInv, NEW p \in Proc, holder = p, Reject(p)
  PROVE  SafetyInv'
  BY ConstantsAssumption

LEMMA EndSafely ==
  ASSUME SafetyInv, NEW p \in Proc, NEW failed \in BOOLEAN, holder = p,
         End(p, failed), UNCHANGED <<files, failures>>
  PROVE  SafetyInv'
  BY ConstantsAssumption

(* Taking the lock, and being started, leave the invariant alone. *)
LEMMA AcquireSafety ==
  ASSUME SafetyInv, NEW p \in Proc, Acquire(p)
  PROVE  SafetyInv'
  BY ConstantsAssumption DEF Acquire

LEMMA SubmitSafety ==
  ASSUME SafetyInv, NEW p \in Invocation, NEW r \in Request, Submit(p, r)
  PROVE  SafetyInv'
  BY ConstantsAssumption DEF Submit

(* So do systemd, time, a boot and an edit of the other files. *)
LEMMA EnvironmentSafety ==
  ASSUME SafetyInv,
         \/ RestartService \/ TimerFires \/ \E t \in Tx : DeadlinePasses(t)
         \/ PowerLoss \/ Drift
  PROVE  SafetyInv'
  <1> USE ConstantsAssumption
  <1>1. CASE RestartService
    BY <1>1 DEF RestartService
  <1>2. CASE TimerFires
    BY <1>2 DEF TimerFires
  <1>3. ASSUME NEW t \in Tx, DeadlinePasses(t) PROVE SafetyInv'
    BY <1>3 DEF DeadlinePasses
  <1>4. CASE PowerLoss
    BY <1>4 DEF PowerLoss, FileAt
  <1>5. CASE Drift
    BY <1>5 DEF Drift
  <1> QED
    BY <1>1, <1>2, <1>3, <1>4, <1>5

(* No step of apply breaks the invariant. *)
LEMMA ApplySafety ==
  ASSUME SafetyInv, NEW p \in Proc, Apply(p)
  PROVE  SafetyInv'
  <1> USE ConstantsAssumption
  <1>1. CASE ApplyCheck(p)
    <2> HIDE DEF SafetyInv, Reject
    <2>1. CASE Reject(p)
      BY <1>1, <2>1, RejectSafety DEF ApplyCheck
    <2>2. CASE ~Reject(p)
      <3> DEFINE t == request[p].tx
      <3>1. /\ At(p, "apply") /\ ~Pending(record) /\ CandidateOf[t] # conf.target
            /\ mem' = [status |-> "pending", tx |-> t, before |-> conf, after |-> NoConf]
            /\ Continue(p, "save_pending") /\ UNCHANGED <<files, live, systemd>>
        <4> HIDE DEF At, Pending, Continue, files, systemd
        <4> QED
          BY <1>1, <2>2 DEF ApplyCheck
      <3> HIDE <1>1, <2>2
      <3>2. request[p] \in Request
        BY <3>1 DEF SafetyInv
      <3>3. mem' \in Record
        BY <3>1, <3>2 DEF SafetyInv
      <3> QED
        BY <3>1, <3>2, <3>3 DEF SafetyInv
    <2> QED
      BY <2>1, <2>2
  <1>2. CASE SavePending(p)
    BY <1>2 DEF SavePending, Save
  <1>3. CASE WriteUnits(p)
    BY <1>3 DEF WriteUnits
  <1>4. CASE DaemonReload(p)
    BY <1>4 DEF DaemonReload
  <1>5. CASE EnableTimer(p)
    BY <1>5 DEF EnableTimer
  <1>6. CASE StartTimer(p)
    BY <1>6 DEF StartTimer
  <1>7. CASE WriteTarget(p)
    BY <1>7 DEF WriteTarget
  <1>8. CASE StopListeners(p, "stop", "start")
    BY <1>8 DEF StopListeners
  <1>9. CASE StartListeners(p, "start", "check")
    BY <1>9 DEF StartListeners
  <1>10. CASE CheckApplied(p)
    BY <1>10 DEF CheckApplied
  <1>11. CASE SaveAfter(p)
    BY <1>11 DEF SaveAfter
  <1> QED
    BY <1>1, <1>2, <1>3, <1>4, <1>5, <1>6, <1>7, <1>8, <1>9, <1>10, <1>11 DEF Apply

(* No step of confirm breaks the invariant. *)
LEMMA ConfirmSafety ==
  ASSUME SafetyInv, NEW p \in Proc, Confirm(p)
  PROVE  SafetyInv'
  <1> USE ConstantsAssumption
  <1>1. CASE ConfirmCheck(p)
    <2>1. ASSUME ConfirmationValid(p), Continue(p, "save_confirmed"),
                 UNCHANGED <<files, live, systemd, mem>>
          PROVE  SafetyInv'
      <3>1. At(p, "confirm")
        BY <1>1 DEF ConfirmCheck
      <3> HIDE <1>1
      <3> QED
        BY <2>1, <3>1 DEF ConfirmationValid, Pertinent, PortsMeetContract
    <2>2. ASSUME Late(p), Continue(p, "rollback"), UNCHANGED <<files, live, systemd, mem>>
          PROVE  SafetyInv'
      <3>1. At(p, "confirm") /\ Pending(mem)
        BY <1>1, <2>2 DEF ConfirmCheck, Late, Pertinent
      <3> HIDE <1>1
      <3> QED
        BY <2>2, <3>1
    <2>3. ASSUME Reject(p) PROVE SafetyInv'
      <3> HIDE DEF SafetyInv, Reject
      <3> QED
        BY <1>1, <2>3, RejectSafety DEF ConfirmCheck
    <2> HIDE DEF SafetyInv, Reject, Continue
    <2> QED
      BY <1>1, <2>1, <2>2, <2>3 DEF ConfirmCheck
  <1>2. CASE SaveConfirmed(p)
    BY <1>2 DEF SaveConfirmed, Save
  <1> QED
    BY <1>1, <1>2 DEF Confirm

(* No step of rollback breaks the invariant. *)
LEMMA RollbackSafety ==
  ASSUME SafetyInv, NEW p \in Proc, Rollback(p)
  PROVE  SafetyInv'
  <1> USE ConstantsAssumption
  <1>1. CASE RollbackCheck(p)
    <2> HIDE DEF SafetyInv, Reject, End
    <2>1. CASE Reject(p)
      BY <1>1, <2>1, RejectSafety DEF RollbackCheck
    <2>2. CASE End(p, FALSE) /\ UNCHANGED <<files, failures>>
      BY <1>1, <2>2, EndSafely DEF RollbackCheck
    <2>3. CASE Pending(mem) /\ Continue(p, "restore_rest")
               /\ UNCHANGED <<files, live, systemd, mem>>
      <3> USE DEF SafetyInv
      <3> QED
        BY <1>1, <2>3 DEF RollbackCheck
    <2> QED
      BY <1>1, <2>1, <2>2, <2>3 DEF RollbackCheck
  <1>2. CASE RestoreRest(p)
    BY <1>2 DEF RestoreRest
  <1>3. CASE RestoreTarget(p)
    BY <1>3 DEF RestoreTarget
  <1>4. CASE StopListeners(p, "restore_stop", "restore_start")
    BY <1>4 DEF StopListeners
  <1>5. CASE StartListeners(p, "restore_start", "verify")
    BY <1>5 DEF StartListeners
  <1>6. CASE VerifyRestored(p)
    <2>1. CASE conf = mem.before
      <3>1. /\ At(p, "verify") /\ Continue(p, "save_rolled_back")
            /\ UNCHANGED <<files, live, systemd, mem>>
        <4> HIDE DEF SafetyInv, At, Reject, Continue, files, systemd
        <4> QED
          BY <1>6, <2>1 DEF VerifyRestored
      <3> HIDE <1>6
      <3> QED
        BY <3>1
    <2>2. CASE conf # mem.before
      <3> HIDE DEF SafetyInv, Reject
      <3> QED
        BY <1>6, <2>2, RejectSafety DEF VerifyRestored
    <2> QED
      BY <2>1, <2>2
  <1>7. CASE SaveRolledBack(p)
    BY <1>7 DEF SaveRolledBack, Save
  <1> QED
    BY <1>1, <1>2, <1>3, <1>4, <1>5, <1>6, <1>7 DEF Rollback

(* Neither cancelling the timer nor failing breaks the invariant. *)
LEMMA EndSafety ==
  ASSUME SafetyInv, NEW p \in Proc, CancelTimer(p) \/ WriteRefused(p) \/ Abort(p)
  PROVE  SafetyInv'
  <1> USE ConstantsAssumption
  <1>1. CASE DisableTimer(p)
    <2>1. CASE unitTx # NoTx
      <3>1. /\ At(p, "disable_timer") /\ enabled' = FALSE /\ Continue(p, "stop_timer")
            /\ UNCHANGED <<record, conf, unitTx, leftover, live, systemd, mem>>
        <4> HIDE DEF SafetyInv, At, Reject, Continue, files, systemd
        <4> QED
          BY <1>1, <2>1 DEF DisableTimer
      <3> HIDE <1>1
      <3>2. record # NoRecord /\ ~Pending(record) /\ pc' = [pc EXCEPT ![p] = "stop_timer"]
        BY <3>1
      <3>3. TypeOK'
        <4>1. pc' \in [Proc -> Label]
          BY <3>1
        <4>2. UNCHANGED <<record, conf, unitTx, leftover, live, systemd, mem, holder, request, bounds>>
          BY <3>1
        <4>3. enabled' \in BOOLEAN
          BY <3>1
        <4> HIDE DEF Conf, Record, Label, Proc, Request
        <4> QED
          BY <4>1, <4>2, <4>3
      <3>4. LockInv'
        BY <3>1
      <3>5. HolderInv'
        BY <3>1, <3>2
      <3>6. IdentifierInv'
        BY <3>1
      <3>7. PendingIsGuarded'
        BY <3>1, <3>2
      <3>8. /\ DecisionIsInForce' /\ (~Pending(record) => ListenersFollow)'
            /\ AfterIsCandidate(record)' /\ AfterIsCandidate(mem)'
        BY <3>1
      <3> QED
        BY <3>3, <3>4, <3>5, <3>6, <3>7, <3>8
    <2>2. CASE unitTx = NoTx
      <3> HIDE DEF SafetyInv, Reject
      <3> QED
        BY <1>1, <2>2, RejectSafety DEF DisableTimer
    <2> QED
      BY <2>1, <2>2
  <1>2. CASE StopTimer(p)
    BY <1>2 DEF StopTimer
  <1>3. CASE WriteRefused(p)
    BY <1>3 DEF WriteRefused
  <1>4. CASE Abort(p)
    BY <1>4 DEF Abort, FileAt
  <1> QED
    BY <1>1, <1>2, <1>3, <1>4 DEF CancelTimer

-----------------------------------------------------------------------------
(* SafetyInv holds in every reachable state.                               *)
THEOREM SafetyInvariant == Spec => []SafetyInv
  <1>1. SafetyInv /\ [Next]_vars => SafetyInv'
    <2> SUFFICES ASSUME SafetyInv, [Next]_vars PROVE SafetyInv'
      OBVIOUS
    <2>1. CASE UNCHANGED vars
      BY <2>1
    <2>2. CASE Next
      <3> HIDE DEF SafetyInv
      <3>1. ASSUME NEW p \in Proc, Procedure(p) \/ Abort(p) PROVE SafetyInv'
        BY <3>1, AcquireSafety, ApplySafety, ConfirmSafety, RollbackSafety, EndSafety
           DEF Procedure
      <3>2. ASSUME NEW p \in Invocation, NEW r \in Request, Submit(p, r) PROVE SafetyInv'
        BY <3>2, SubmitSafety
      <3>3. ASSUME \/ RestartService \/ TimerFires \/ \E t \in Tx : DeadlinePasses(t)
                   \/ PowerLoss \/ Drift
            PROVE  SafetyInv'
        BY <3>3, EnvironmentSafety
      <3> QED
        BY <2>2, <3>1, <3>2, <3>3 DEF Next
    <2> QED
      BY <2>1, <2>2
  <1> HIDE DEF SafetyInv, vars
  <1> QED
    BY <1>1, InitSafety, PTL DEF Spec

(* Type correctness of OpenSSHTransaction. *)
THEOREM TypeCorrectness == Spec => []TypeOK
  <1>1. SafetyInv => TypeOK
    OBVIOUS
  <1> HIDE DEF SafetyInv, TypeOK
  <1> QED
    BY <1>1, SafetyInvariant, PTL

(* An undecided drop-in on disk always has an enabled timer of its own.    *)
THEOREM PendingGuarded == Spec => []PendingIsGuarded
  <1>1. SafetyInv => PendingIsGuarded
    OBVIOUS
  <1> HIDE DEF SafetyInv, PendingIsGuarded
  <1> QED
    BY <1>1, SafetyInvariant, PTL

(* A decision that can be read is what is on disk and what listens.        *)
THEOREM DecisionInForce == Spec => []DecisionIsInForce
  <1>1. SafetyInv => DecisionIsInForce
    OBVIOUS
  <1> HIDE DEF SafetyInv, DecisionIsInForce
  <1> QED
    BY <1>1, SafetyInvariant, PTL

(* Once decided, a transaction is never decided otherwise: only four steps *)
(* write state.json; three of them find it pending, and the fourth saves a *)
(* transaction under an identifier that no other apply was given.          *)
THEOREM DecidedOnceHolds == Spec => DecidedOnce
  <1> DEFINE A == \A t \in Tx : (Names(record, t) /\ ~Pending(record) /\ Names(record', t))
                                  => record' = record
  <1>1. SafetyInv /\ [Next]_vars => [A]_vars
    <2> SUFFICES ASSUME SafetyInv, Next, record' # record,
                        NEW t \in Tx, Names(record, t), ~Pending(record)
                 PROVE  ~Names(record', t)
      OBVIOUS
    <2> USE ConstantsAssumption
    <2>1. PICK p \in Proc : SavePending(p)
      <3>1. PICK p \in Proc : Procedure(p)
        BY DEF Next, Abort, Submit, RestartService, TimerFires, DeadlinePasses, PowerLoss, Drift
      <3>2. \/ SavePending(p) \/ SaveAfter(p) \/ SaveConfirmed(p) \/ SaveRolledBack(p)
        BY <3>1 DEF Procedure, Acquire, Apply, Confirm, Rollback, CancelTimer, WriteRefused,
             ApplyCheck, WriteUnits, DaemonReload, EnableTimer, StartTimer, WriteTarget,
             StopListeners, StartListeners, CheckApplied, ConfirmCheck, RollbackCheck,
             RestoreRest, RestoreTarget, VerifyRestored, DisableTimer, StopTimer
      <3>3. ~SaveAfter(p) /\ ~SaveConfirmed(p) /\ ~SaveRolledBack(p)
        BY DEF SaveAfter, SaveConfirmed, SaveRolledBack, Save
      <3> QED
        BY <3>2, <3>3
    <2>2. record' = mem /\ mem.tx = request[p].tx /\ At(p, "save_pending")
      BY <2>1 DEF SavePending, Save
    <2>3. p \in Invocation /\ request[p] = [action |-> "apply", tx |-> mem.tx]
      BY <2>2
    <2>4. PICK q \in Invocation : /\ request[q] = [action |-> "apply", tx |-> record.tx]
                                  /\ pc[q] # "save_pending"
      OBVIOUS
    <2>5. mem.tx # record.tx
      BY <2>2, <2>3, <2>4
    <2> QED
      BY <2>2, <2>5
  <1> HIDE DEF SafetyInv, vars, A
  <1>2. Spec => [][A]_vars
    BY <1>1, SafetyInvariant, PTL DEF Spec
  <1> QED
    BY <1>2 DEF DecidedOnce, A

-----------------------------------------------------------------------------
(* What a deadline has started goes on until a boot: RetryInv is inductive *)
(* given SafetyInv.                                                        *)
USE DEF RetryInv

LEMMA ApplyRetries ==
  ASSUME SafetyInv, RetryInv, NEW p \in Proc, Apply(p)
  PROVE  RetryInv'
  <1> USE ConstantsAssumption
  <1>1. CASE ApplyCheck(p)
    BY <1>1 DEF ApplyCheck
  <1>2. CASE SavePending(p)
    BY <1>2 DEF SavePending, Save
  <1>3. CASE WriteUnits(p)
    BY <1>3 DEF WriteUnits
  <1>4. CASE DaemonReload(p)
    BY <1>4 DEF DaemonReload
  <1>5. CASE EnableTimer(p)
    BY <1>5 DEF EnableTimer
  <1>6. CASE StartTimer(p)
    BY <1>6 DEF StartTimer
  <1>7. CASE WriteTarget(p)
    BY <1>7 DEF WriteTarget
  <1>8. CASE StopListeners(p, "stop", "start")
    BY <1>8 DEF StopListeners
  <1>9. CASE StartListeners(p, "start", "check")
    BY <1>9 DEF StartListeners
  <1>10. CASE CheckApplied(p)
    BY <1>10 DEF CheckApplied
  <1>11. CASE SaveAfter(p)
    BY <1>11 DEF SaveAfter
  <1> QED
    BY <1>1, <1>2, <1>3, <1>4, <1>5, <1>6, <1>7, <1>8, <1>9, <1>10, <1>11 DEF Apply

LEMMA DecideRetries ==
  ASSUME SafetyInv, RetryInv, NEW p \in Proc, Confirm(p) \/ Rollback(p) \/ CancelTimer(p)
  PROVE  RetryInv'
  <1> USE ConstantsAssumption
  <1>1. CASE ConfirmCheck(p)
    BY <1>1 DEF ConfirmCheck
  <1>2. CASE SaveConfirmed(p)
    BY <1>2 DEF SaveConfirmed, Save
  <1>3. CASE RollbackCheck(p)
    BY <1>3 DEF RollbackCheck
  <1>4. CASE RestoreRest(p)
    BY <1>4 DEF RestoreRest
  <1>5. CASE RestoreTarget(p)
    BY <1>5 DEF RestoreTarget
  <1>6. CASE StopListeners(p, "restore_stop", "restore_start")
    BY <1>6 DEF StopListeners
  <1>7. CASE StartListeners(p, "restore_start", "verify")
    BY <1>7 DEF StartListeners
  <1>8. CASE VerifyRestored(p)
    BY <1>8 DEF VerifyRestored
  <1>9. CASE SaveRolledBack(p)
    BY <1>9 DEF SaveRolledBack, Save
  <1>10. CASE DisableTimer(p)
    BY <1>10 DEF DisableTimer
  <1>11. CASE StopTimer(p)
    BY <1>11 DEF StopTimer
  <1> QED
    BY <1>1, <1>2, <1>3, <1>4, <1>5, <1>6, <1>7, <1>8, <1>9, <1>10, <1>11
       DEF Confirm, Rollback, CancelTimer

LEMMA EnvironmentRetries ==
  ASSUME SafetyInv, RetryInv,
         \/ \E p \in Proc : Acquire(p) \/ WriteRefused(p) \/ Abort(p)
         \/ \E p \in Invocation, r \in Request : Submit(p, r)
         \/ RestartService \/ TimerFires \/ \E t \in Tx : DeadlinePasses(t)
         \/ PowerLoss \/ Drift \/ UNCHANGED vars
  PROVE  RetryInv'
  <1> USE ConstantsAssumption
  <1>1. ASSUME NEW p \in Proc, Acquire(p) PROVE RetryInv'
    BY <1>1 DEF Acquire
  <1>2. ASSUME NEW p \in Proc, WriteRefused(p) PROVE RetryInv'
    BY <1>2 DEF WriteRefused
  <1>3. ASSUME NEW p \in Proc, Abort(p) PROVE RetryInv'
    BY <1>3 DEF Abort
  <1>4. ASSUME NEW p \in Invocation, NEW r \in Request, Submit(p, r) PROVE RetryInv'
    BY <1>4 DEF Submit
  <1>5. CASE RestartService
    BY <1>5 DEF RestartService
  <1>6. CASE TimerFires
    BY <1>6 DEF TimerFires
  <1>7. ASSUME NEW t \in Tx, DeadlinePasses(t) PROVE RetryInv'
    BY <1>7 DEF DeadlinePasses
  <1>8. CASE PowerLoss
    BY <1>8 DEF PowerLoss
  <1>9. CASE Drift
    BY <1>9 DEF Drift
  <1>10. CASE UNCHANGED vars
    BY <1>10
  <1> QED
    BY <1>1, <1>2, <1>3, <1>4, <1>5, <1>6, <1>7, <1>8, <1>9, <1>10

LEMMA RetryInvariant == Spec => []RetryInv
  <1>1. Init => RetryInv
    BY ConstantsAssumption DEF Init
  <1>2. SafetyInv /\ RetryInv /\ [Next]_vars => RetryInv'
    <2> HIDE DEF SafetyInv, RetryInv, vars, Proc, Request
    <2> QED
      BY ApplyRetries, DecideRetries, EnvironmentRetries DEF Next, Procedure
  <1> HIDE DEF SafetyInv, RetryInv, vars
  <1> QED
    BY <1>1, <1>2, SafetyInvariant, PTL DEF Spec

(* A rollback that its deadline has started is given up by nothing but a   *)
(* boot: only apply's replacement of the drop-in puts a candidate in force,*)
(* and the service comes to rest only where the record is decided.         *)
THEOREM OnlyABoot == Spec => OnlyABootAbandons
  <1> DEFINE A == Abandoned' => Abandoned \/ crashes' # crashes
  <1>1. SafetyInv /\ RetryInv /\ [Next]_vars => [A]_vars
    <2> SUFFICES ASSUME SafetyInv, RetryInv, Next, Abandoned', ~Abandoned, crashes' = crashes
                 PROVE  FALSE
      OBVIOUS
    <2> USE ConstantsAssumption DEF Abandoned
    <2>1. ASSUME NEW p \in Proc, Apply(p) PROVE FALSE
      BY <2>1 DEF Apply, ApplyCheck, SavePending, Save, WriteUnits, DaemonReload, EnableTimer, StartTimer,
         WriteTarget, StopListeners, StartListeners, CheckApplied, SaveAfter
    <2>2. ASSUME NEW p \in Proc, Confirm(p) PROVE FALSE
      BY <2>2 DEF Confirm, ConfirmCheck, SaveConfirmed, Save
    <2>3. ASSUME NEW p \in Proc, Rollback(p) PROVE FALSE
      BY <2>3 DEF Rollback, RollbackCheck, RestoreRest, RestoreTarget, VerifyRestored, SaveRolledBack,
         Save, StopListeners, StartListeners
    <2>4. ASSUME NEW p \in Proc, CancelTimer(p) \/ WriteRefused(p) \/ Abort(p) \/ Acquire(p) PROVE FALSE
      BY <2>4 DEF CancelTimer, DisableTimer, StopTimer, WriteRefused, Abort, Acquire
    <2>5. ASSUME NEW p \in Invocation, NEW r \in Request, Submit(p, r) PROVE FALSE
      BY <2>5 DEF Submit
    <2>6. ~RestartService /\ ~TimerFires /\ ~Drift /\ ~PowerLoss
      BY DEF RestartService, TimerFires, Drift, PowerLoss
    <2>7. ASSUME NEW t \in Tx, DeadlinePasses(t) PROVE FALSE
      BY <2>7 DEF DeadlinePasses
    <2> QED
      <3> HIDE DEF SafetyInv, RetryInv, Abandoned, Proc, Request
      <3> QED
        BY <2>1, <2>2, <2>3, <2>4, <2>5, <2>6, <2>7 DEF Next, Procedure
  <1> HIDE DEF SafetyInv, RetryInv, vars, A
  <1>2. Spec => [][A]_vars
    BY <1>1, SafetyInvariant, RetryInvariant, PTL DEF Spec
  <1> QED
    BY <1>2 DEF OnlyABootAbandons, A
-----------------------------------------------------------------------------
(* Refinement of RetirementOutcome.  Four kinds of step are visible: apply *)
(* saves its record (Begin), the drop-in or the listeners move while it is *)
(* pending (Work), and one of the two decisions is saved (Confirm,         *)
(* RollBack).  Every other step leaves the mapped state alone.             *)
HIDE DEF RetryInv, Proc, Conf, Record, Request, Guarded, ApplySteps, ConfirmSteps, RollbackSteps,
         CancelSteps, Critical, Label, SavedSteps, UnitSteps, LoadedSteps, EnabledSteps, StartedSteps, WrittenSteps,
         UndoSteps, RestoredSteps,
         Status, Pending, Names, SafetyInv, TypeOK, LockInv, HolderInv, IdentifierInv,
         SameSnapshot, AfterIsCandidate, ListenersFollow, InForce, PendingIsGuarded, DecisionIsInForce,
         At, Goto, Continue, Reject, Raise, End, TimerNotified, files, systemd, bounds, vars

USE DEF Pending, Status

Either == {record.before.target, CandidateOf[record.tx]}

(* Only the snapshot and the candidate are ever on disk or listened with.  *)
SoundTargets ==
  /\ ~Pending(record) => ListenersFollow
  /\ Pending(record) => conf.target \in Either /\ (live # NoConf => live.target \in Either)

(* apply has found another drop-in than its candidate.                     *)
NewCandidate ==
  holder # NoProc /\ pc[holder] = "save_pending" => CandidateOf[mem.tx] # conf.target

(* The record is the same, or tells more of the same pending transaction.  *)
SameRecord ==
  \/ record' = record
  \/ /\ Pending(record) /\ Pending(record)'
     /\ record'.tx = record.tx /\ record'.before = record.before

Rests == /\ SameRecord
         /\ conf'.target = conf.target
         /\ live' = live \/ (live # NoConf /\ live' # NoConf /\ live'.target = live.target)

Moves == /\ Pending(record) /\ SameRecord
         /\ conf'.target \in Either
         /\ live' # NoConf => live'.target \in Either

Saves == \E p \in Proc : SavePending(p) \/ SaveConfirmed(p) \/ SaveRolledBack(p)

(* What the holder does to drop-in and listeners.                          *)
LEMMA HolderKinds ==
  ASSUME SafetyInv, SoundTargets, NEW p \in Proc, Procedure(p) \/ Abort(p)
  PROVE  Rests \/ Moves \/ Saves
<1> USE ConstantsAssumption DEF SafetyInv, Rests, SameRecord, files, systemd, bounds, Continue, Goto
<1>1. CASE UNCHANGED <<record, conf, live>>
  BY <1>1
<1>2. ASSUME NEW step \in {"stop", "restore_stop"}, NEW next, StopListeners(p, step, next)
      PROVE  Moves
  BY <1>2 DEF StopListeners, Moves, At, HolderInv, SavedSteps, UndoSteps, Guarded, RollbackSteps,
       SoundTargets
<1>3. ASSUME NEW step \in {"start", "restore_start"}, NEW next, StartListeners(p, step, next)
      PROVE  Moves
  BY <1>3 DEF StartListeners, Moves, At, HolderInv, SavedSteps, UndoSteps, Guarded,
       RollbackSteps, SoundTargets
<1>4. CASE WriteTarget(p)
  BY <1>4 DEF WriteTarget, Moves, At, HolderInv, SavedSteps, Guarded, SoundTargets, SameSnapshot,
       TypeOK, Conf, Either
<1>5. CASE RestoreTarget(p)
  BY <1>5 DEF RestoreTarget, Moves, At, HolderInv, UndoSteps, RollbackSteps, SoundTargets,
       SameSnapshot, TypeOK,
              Conf, Either
<1>6. CASE RestoreRest(p)
  BY <1>6 DEF RestoreRest, TypeOK, Conf
<1>7. CASE SaveAfter(p)
  BY <1>7 DEF SaveAfter, At, HolderInv, SavedSteps, Guarded, SameSnapshot, End
<1>8. CASE SavePending(p) \/ SaveConfirmed(p) \/ SaveRolledBack(p)
  BY <1>8 DEF Saves
<1> QED
  BY <1>1, <1>2, <1>3, <1>4, <1>5, <1>6, <1>7, <1>8
     DEF Procedure, Acquire, Apply, ApplyCheck, WriteUnits, DaemonReload, EnableTimer, StartTimer,
         CheckApplied, Confirm, ConfirmCheck, Rollback, RollbackCheck, VerifyRestored, CancelTimer,
         DisableTimer, StopTimer, WriteRefused, Abort, Reject, Raise, End

(* What any step does to them.                                            *)
LEMMA StepKinds ==
  ASSUME SafetyInv, SoundTargets, [Next]_vars
  PROVE  Rests \/ Moves \/ Saves
<1> USE ConstantsAssumption DEF Rests, SameRecord, files, systemd, bounds
<1>1. CASE PowerLoss
  BY <1>1 DEF PowerLoss, Moves, SoundTargets, ListenersFollow, SafetyInv, TypeOK
<1>2. CASE Drift
  BY <1>2 DEF Drift, SafetyInv, TypeOK, Conf
<1>3. CASE UNCHANGED <<record, conf, live>>
  BY <1>3
<1> QED
  BY <1>1, <1>2, <1>3, HolderKinds
     DEF Next, vars, Submit, RestartService, TimerFires, DeadlinePasses

(* The candidate stays new until it is saved.                              *)
LEMMA NewStep ==
  ASSUME SafetyInv, NewCandidate, [Next]_vars
  PROVE  NewCandidate'
<1> USE ConstantsAssumption DEF SafetyInv, TypeOK, NewCandidate, files, systemd, bounds, Proc,
     Goto, Continue
<1>1. ASSUME NEW p \in Proc, ApplyCheck(p) PROVE NewCandidate'
  BY <1>1 DEF ApplyCheck, Reject, Raise, End, At, Guarded
<1>2. ASSUME NEW p \in Proc, Procedure(p) \/ Abort(p), ~ApplyCheck(p)
      PROVE  holder' = NoProc \/ pc'[holder'] # "save_pending"
  BY <1>2 DEF Procedure, Acquire, Apply, SavePending, Save, WriteUnits, DaemonReload,
       EnableTimer, StartTimer,
         WriteTarget, StopListeners, StartListeners, SaveAfter, RestoreRest, RestoreTarget,
              SaveConfirmed,
         SaveRolledBack, CheckApplied, Confirm, ConfirmCheck, Rollback, RollbackCheck,
              VerifyRestored, CancelTimer,
         DisableTimer, StopTimer, WriteRefused, Abort, Reject, Raise, End, At, Request, LockInv
<1>3. CASE PowerLoss
  BY <1>3 DEF PowerLoss
<1>4. CASE Drift
  BY <1>4 DEF Drift, Conf
<1>5. CASE \/ \E p \in Invocation, r \in Request : Submit(p, r)
           \/ RestartService \/ TimerFires \/ \E t \in Tx : DeadlinePasses(t)
  BY <1>5 DEF Submit, RestartService, TimerFires, DeadlinePasses, LockInv, Critical, ApplySteps
<1>6. CASE UNCHANGED vars
  BY <1>6 DEF vars
<1> QED
  BY <1>1, <1>2, <1>3, <1>4, <1>5, <1>6 DEF Next

(* Each kind of step is a step of the promise.                             *)
LEMMA KindsSimulate ==
  ASSUME SafetyInv, SafetyInv', SoundTargets, NewCandidate, Rests \/ Moves \/ Saves
  PROVE  SoundTargets' /\ [Promise!Next]_(Promise!vars)
<1> USE ConstantsAssumption DEF SafetyInv, TypeOK, Record
<1>1. CASE Rests
  <2>1. SettledTarget' = SettledTarget
    BY <1>1 DEF Rests, SameRecord, SettledTarget
  <2>2. SoundTargets'
    BY <1>1 DEF Rests, SameRecord, SoundTargets, ListenersFollow, Either
  <2> QED
    BY <1>1, <2>1, <2>2 DEF Rests, SameRecord, Promise!vars
<1>2. CASE Moves
  <2>1. SettledTarget' = SettledTarget /\ SettledTarget = record.before.target
    BY <1>2 DEF Moves, SameRecord, SettledTarget
  <2>2. SoundTargets'
    BY <1>2 DEF Moves, SameRecord, SoundTargets, Either
  <2>3. Promise!Work
    BY <1>2, <2>1 DEF Moves, SameRecord, Either, Promise!Work
  <2> QED BY <2>2, <2>3 DEF Promise!Next
<1>3. ASSUME NEW p \in Proc, SavePending(p)
      PROVE  SoundTargets' /\ Promise!Next
  <2>1. /\ ~Pending(record) /\ ListenersFollow /\ CandidateOf[mem.tx] # conf.target
        /\ record' = mem /\ Pending(mem) /\ mem.before.target = conf.target /\ mem.tx \in Tx
        /\ UNCHANGED <<conf, live>>
    BY <1>3 DEF SavePending, Save, At, HolderInv, SoundTargets, NewCandidate, systemd
  <2>2. SettledTarget = conf.target /\ SettledTarget' = conf.target
    BY <2>1 DEF SettledTarget, DecisionIsInForce
  <2>3. SoundTargets'
    BY <2>1 DEF SoundTargets, Either, ListenersFollow
  <2>4. Promise!Begin(mem.tx)
    BY <2>1, <2>2 DEF Promise!Begin
  <2> QED BY <2>1, <2>3, <2>4 DEF Promise!Next
<1>4. ASSUME NEW p \in Proc, SaveConfirmed(p)
      PROVE  SoundTargets' /\ Promise!Next
  <2>1. /\ Pending(record) /\ record' = [record EXCEPT !.status = "confirmed"]
        /\ conf.target = CandidateOf[record.tx] /\ ListenersFollow
        /\ UNCHANGED <<conf, live>>
    BY <1>4 DEF SaveConfirmed, Save, At, HolderInv, systemd
  <2>2. SettledTarget' = CandidateOf[record.tx] /\ record' # NoRecord /\ ~Pending(record)' /\
       record.tx \in Tx
    BY <2>1 DEF SettledTarget
  <2>3. SoundTargets'
    BY <2>1, <2>2 DEF SoundTargets, ListenersFollow
  <2>4. Promise!Confirm
    BY <2>1, <2>2 DEF Promise!Confirm, Promise!Close, ListenersFollow
  <2> QED BY <2>3, <2>4 DEF Promise!Next
<1>5. ASSUME NEW p \in Proc, SaveRolledBack(p)
      PROVE  SoundTargets' /\ Promise!Next
  <2>1. /\ Pending(record) /\ Pending(mem) /\ record' = [mem EXCEPT !.status = "rolled_back"]
        /\ mem.before = record.before /\ mem.tx = record.tx
        /\ conf.target = record.before.target /\ ListenersFollow
        /\ UNCHANGED <<conf, live>>
    BY <1>5 DEF SaveRolledBack, Save, At, HolderInv, systemd, UndoSteps, RestoredSteps,
         RollbackSteps, SameSnapshot
  <2>2. /\ SettledTarget' = record.before.target /\ SettledTarget = record.before.target
        /\ ~Pending(record)' /\ record.tx \in Tx
    BY <2>1 DEF SettledTarget
  <2>3. SoundTargets'
    BY <2>1, <2>2 DEF SoundTargets, ListenersFollow
  <2>4. Promise!RollBack
    BY <2>1, <2>2 DEF Promise!RollBack, Promise!Close, ListenersFollow
  <2> QED BY <2>3, <2>4 DEF Promise!Next
<1> QED
  BY <1>1, <1>2, <1>3, <1>4, <1>5 DEF Saves

(* The program keeps RetirementOutcome: one transaction at a time, undone  *)
(* to what was settled before it, and nothing moves outside of one.        *)
THEOREM Refinement == Spec => KeepsPromise
<1>1. Init => Promise!Init /\ SoundTargets /\ NewCandidate
  BY ConstantsAssumption
     DEF Init, Promise!Init, SettledTarget, SoundTargets, NewCandidate, ListenersFollow, Conf
<1>2. /\ SafetyInv /\ SafetyInv' /\ SoundTargets /\ NewCandidate /\ [Next]_vars
      => SoundTargets' /\ NewCandidate' /\ [Promise!Next]_(Promise!vars)
  BY StepKinds, NewStep, KindsSimulate
<1> QED
  BY <1>1, <1>2, SafetyInvariant, PTL DEF Spec, KeepsPromise, Promise!Spec
===============================================================================
