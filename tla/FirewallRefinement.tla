-------------------------- MODULE FirewallRefinement --------------------------
(***************************************************************************)
(* The program implements FirewallOutcome.  Under the mapping Promise of   *)
(* FirewallTransaction five kinds of step are visible: the pointer is      *)
(* written (Begin) or torn (Wedge), a terminal record is published         *)
(* (Confirm, RollBack), the pointer is removed (Close).  Every other step  *)
(* leaves the mapped state alone.                                          *)
(***************************************************************************)
EXTENDS FirewallProofs

(* What a step leaves alone when no decision is taken.                     *)
SameDecisions ==
  /\ active' = active
  /\ include' = include \/ Undecided
  /\ DOMAIN dir \subseteq DOMAIN dir'
  /\ \A t \in DOMAIN dir' \ DOMAIN dir : dir'[t].terminal \notin Settled
  /\ \A t \in DOMAIN dir :
       /\ dir'[t].candidate = dir[t].candidate
       /\ dir'[t].persistentBackup = dir[t].persistentBackup
       /\ dir'[t].terminal = dir[t].terminal
            \/ (dir[t].terminal \notin Settled /\ dir'[t].terminal \notin Settled)

USE DEF Settled, Undecided, Outcome

(* The four components of the mapped state.                                *)
LEMMA SameDecisionsStutters ==
  ASSUME SafetyInv, SafetyInv', SameDecisions
  PROVE  UNCHANGED Promise!vars
  <1>1. /\ active \in Tx => active \in DOMAIN dir
        /\ DOMAIN dir' \subseteq Tx /\ DOMAIN dir \subseteq Tx
    BY DEF SafetyInv, CurInv, TypeOK
  <1>2. (active' \in DOMAIN dir') <=> (active \in DOMAIN dir)
    BY <1>1 DEF SameDecisions
  <1>3. Undecided' <=> Undecided
    BY <1>2 DEF SameDecisions
  <1>4. (IF Undecided THEN dir[active].persistentBackup ELSE include)'
          = IF Undecided THEN dir[active].persistentBackup ELSE include
    BY <1>2, <1>3 DEF SameDecisions
  <1>5. (IF active \in DOMAIN dir THEN dir[active].candidate ELSE NoTable)'
          = IF active \in DOMAIN dir THEN dir[active].candidate ELSE NoTable
    BY <1>2 DEF SameDecisions
  <1>6. ASSUME NEW t \in Tx
        PROVE  (IF t \in DOMAIN dir /\ dir[t].terminal \in Settled
                THEN dir[t].terminal ELSE "none")'
                 = IF t \in DOMAIN dir /\ dir[t].terminal \in Settled
                   THEN dir[t].terminal ELSE "none"
    BY <1>6 DEF SameDecisions
  <1>7. active' = active
    BY DEF SameDecisions
  <1> QED
    BY <1>4, <1>5, <1>6, <1>7 DEF Promise!vars

(* A step that writes neither pointer, directories nor include.            *)
LEMMA QuietSteps ==
  ASSUME UNCHANGED <<active, dir, include>>
  PROVE  SameDecisions
  BY DEF SameDecisions

(* Before the pointer is written, the holder's snapshot is the include.    *)
LEMMA BeginSimulation ==
  ASSUME SafetyInv, NEW p \in Proc, WriteActive(p)
  PROVE  \E t \in Tx, c \in Policy \ {NoTable} : Promise!Begin(t, c)
  <1> USE ConstantsAssumption DEF WriteActive, At, Continue
  <1>1. /\ holder \in Proc /\ holder # NoProc /\ pc[holder] = "activate"
        /\ active = NoTx /\ cur \in DOMAIN dir /\ DOMAIN dir \subseteq Tx
    BY DEF SafetyInv, CurInv, UnpublishedSteps, TypeOK, Proc
  <1>2. /\ dir[cur].terminal = "none" /\ dir[cur].persistentBackup = include
        /\ dir[cur].candidate \in Policy \ {NoTable}
    BY <1>1 DEF SafetyInv, OutcomeInv, SnapshotInv, TypeOK, Directory, UnpublishedSteps
  <1>3. /\ active' = cur /\ dir' = dir /\ include' = include
        /\ active \notin DOMAIN dir
    BY <1>1
  <1>4. Promise!Begin(cur, dir[cur].candidate)
    BY <1>1, <1>2, <1>3 DEF Promise!Begin
  <1> QED
    BY <1>1, <1>2, <1>4

(* A published terminal record decides the active transaction.             *)
LEMMA DecisionSimulation ==
  ASSUME SafetyInv, NEW p \in Proc,
         \/ Publish(p, "publish_confirmation", "confirmed")
         \/ Publish(p, "publish_rollback", "rolledback")
  PROVE  Promise!Confirm \/ Promise!RollBack
  <1> USE ConstantsAssumption DEF Publish, At, Continue
  <1>1. /\ holder \in Proc /\ holder # NoProc
        /\ pc[holder] \in {"publish_confirmation", "publish_rollback"}
        /\ active \in Tx /\ cur = active /\ active \in DOMAIN dir
        /\ DOMAIN dir \subseteq Tx
    BY DEF SafetyInv, CurInv, PublishedSteps, EntrySteps, UnpublishedSteps, InstallSteps,
           Critical, ConfirmSteps, RollbackSteps, TypeOK, Proc
  <1>2. /\ dir[active].terminal = "none"
        /\ pc[holder] = "publish_confirmation" => include = dir[active].candidate
        /\ pc[holder] = "publish_rollback" => include = dir[active].persistentBackup
    BY <1>1 DEF SafetyInv, OutcomeInv, PublishedSteps, EntrySteps, UnpublishedSteps,
                InstallSteps, FinalSteps, Critical, ConfirmSteps, RollbackSteps
  <1>3. dir \in [DOMAIN dir -> Directory]
    BY DEF SafetyInv, TypeOK
  <1>4. PICK outcome \in {"confirmed", "rolledback"} :
          /\ dir' = [dir EXCEPT ![active].terminal = outcome]
          /\ active' = active /\ include' = include
          /\ pc[holder] = IF outcome = "confirmed" THEN "publish_confirmation"
                          ELSE "publish_rollback"
    BY <1>1
  <1>5. /\ DOMAIN dir' = DOMAIN dir
        /\ dir'[active].terminal = outcome
        /\ dir'[active].candidate = dir[active].candidate
        /\ \A t \in DOMAIN dir \ {active} : dir'[t] = dir[t]
    BY <1>1, <1>3, <1>4 DEF Directory
  <1> DEFINE decided == [t \in Tx |-> IF t \in DOMAIN dir /\ dir[t].terminal \in Settled
                                     THEN dir[t].terminal ELSE "none"]
  <1>6. decided' = [decided EXCEPT ![active] = outcome]
    BY <1>1, <1>2, <1>4, <1>5
  <1>7. decided[active] = "none"
    BY <1>1, <1>2
  <1>8. Undecided /\ ~Undecided'
    BY <1>1, <1>2, <1>4, <1>5
  <1>9. CASE outcome = "confirmed"
    <2>1. include = dir[active].candidate
      BY <1>2, <1>4, <1>9
    <2> QED
      BY <1>1, <1>4, <1>5, <1>6, <1>7, <1>8, <1>9, <2>1 DEF Promise!Confirm, Promise!Open
  <1>10. CASE outcome = "rolledback"
    <2>1. include = dir[active].persistentBackup
      BY <1>2, <1>4, <1>10
    <2> QED
      BY <1>1, <1>4, <1>5, <1>6, <1>7, <1>8, <1>10, <2>1 DEF Promise!RollBack, Promise!Open
  <1> QED
    BY <1>4, <1>9, <1>10

(* The pointer is removed after the decision.                              *)
LEMMA CloseSimulation ==
  ASSUME SafetyInv, NEW p \in Proc, ClearActive(p)
  PROVE  Promise!Close
  <1> USE ConstantsAssumption DEF ClearActive, At
  <1>1. /\ holder \in Proc /\ holder # NoProc /\ pc[holder] = "clear"
        /\ active \in Tx /\ cur = active /\ active \in DOMAIN dir
        /\ DOMAIN dir \subseteq Tx
    BY DEF SafetyInv, CurInv, PublishedSteps, EntrySteps, UnpublishedSteps, InstallSteps,
           Critical, FinalSteps, TypeOK, Proc
  <1>2. dir[active].terminal \in Settled
    BY <1>1 DEF SafetyInv, OutcomeInv, FinalSteps
  <1>3. /\ active' = NoTx /\ dir' = dir /\ include' = include
        /\ NoTx \notin DOMAIN dir
    BY <1>1
  <1> QED
    BY <1>1, <1>2, <1>3 DEF Promise!Close

(* An interrupted write decides nothing; at worst it tears the pointer.    *)
LEMMA TearSimulation ==
  ASSUME SafetyInv, NEW p \in Proc, Tear(p), include' = include
  PROVE  SameDecisions \/ Promise!Wedge
  <1> USE ConstantsAssumption
  <1>1. CASE active' = active
    BY <1>1, TearEffect DEF SameDecisions
  <1>2. CASE active' # active
    <2>1. active = NoTx /\ active' = TornTx /\ dir' = dir
      BY <1>2, TearEffect DEF Tear
    <2>2. NoTx \notin DOMAIN dir /\ TornTx \notin DOMAIN dir
      BY DEF SafetyInv, TypeOK
    <2> QED
      BY <2>1, <2>2 DEF Promise!Wedge
  <1> QED
    BY <1>1, <1>2

-----------------------------------------------------------------------------
(* One procedure at a time: what its steps look like from outside.         *)
Visible == \/ \E t \in Tx, c \in Policy \ {NoTable} : Promise!Begin(t, c)
           \/ Promise!Wedge \/ Promise!Confirm \/ Promise!RollBack \/ Promise!Close

(* The holder of the lock is on the active transaction, or preparing one.  *)
LEMMA HolderWorksOnDirectory ==
  ASSUME SafetyInv, NEW p \in Proc, holder = p, pc[p] \in PublishedSteps
  PROVE  /\ cur = active /\ active \in DOMAIN dir /\ dir[active] \in Directory
         /\ pc[p] \notin FinalSteps => Undecided
  <1>1. cur = active /\ active \in DOMAIN dir
    BY ConstantsAssumption DEF SafetyInv, CurInv, Proc
  <1>2. pc[p] \notin FinalSteps => dir[cur].terminal = "none"
    BY ConstantsAssumption DEF SafetyInv, OutcomeInv, Proc
  <1> QED
    BY <1>1, <1>2 DEF SafetyInv, TypeOK

LEMMA ApplySimulation ==
  ASSUME SafetyInv, NEW p \in Proc, Apply(p)
  PROVE  SameDecisions \/ Visible
  <1>1. CASE ApplyPrepare(p)
    <2>1. CASE UNCHANGED <<active, dir, include>>
      BY <2>1, QuietSteps
    <2>2. CASE ~UNCHANGED <<active, dir, include>>
      <3> DEFINE d == [candidate |-> CandidateOf[request[p]],
                       persistentBackup |-> include, runtimeBackup |-> runtime,
                       static |-> static, request |-> NoClaim, verification |-> NoClaim,
                       rollbackAuthorization |-> FALSE, terminal |-> "none"]
      <3>1. PICK t \in Tx \ DOMAIN dir :
              /\ dir' = [u \in DOMAIN dir \union {t} |-> IF u = t THEN d ELSE dir[u]]
              /\ UNCHANGED <<active, include>>
        BY <1>1, <2>2 DEF ApplyPrepare, Reject, durable
      <3>2. d.terminal = "none"
        OBVIOUS
      <3> QED
        BY <3>1, <3>2 DEF SameDecisions
    <2> QED
      BY <2>1, <2>2
  <1>2. CASE WriteActive(p)
    BY <1>2, BeginSimulation DEF Visible
  <1>3. CASE \/ ConsumeClaim(p, "claim", "activate") \/ EnableTimer(p) \/ StartTimer(p)
             \/ LoadCandidate(p) \/ VerifyCandidate(p)
    BY <1>3, QuietSteps DEF ConsumeClaim, EnableTimer, StartTimer, LoadCandidate,
                            VerifyCandidate, durable
  <1> QED
    BY <1>1, <1>2, <1>3 DEF Apply

LEMMA StageSimulation ==
  ASSUME SafetyInv, NEW p \in Proc, Stage(p)
  PROVE  SameDecisions
  <1>1. CASE UNCHANGED <<active, dir, include>>
    BY <1>1, QuietSteps
  <1>2. CASE ~UNCHANGED <<active, dir, include>>
    <2>1. /\ holder = p /\ pc[p] \in {"stage_request", "stage_verification"}
          /\ UNCHANGED <<active, include>>
          /\ \/ dir' = [dir EXCEPT ![cur].request = request[p]]
             \/ dir' = [dir EXCEPT ![cur].verification = request[p]]
      BY <1>2 DEF Stage, StageCheck, StageRequest, StageVerification, At, Continue,
                  Reject, durable
    <2>2. cur \in DOMAIN dir /\ dir \in [DOMAIN dir -> Directory]
      BY <2>1, HolderWorksOnDirectory
         DEF SafetyInv, TypeOK, PublishedSteps, EntrySteps, UnpublishedSteps, InstallSteps,
             Critical, StageSteps
    <2> QED
      BY <2>1, <2>2 DEF SameDecisions, Directory
  <1> QED
    BY <1>1, <1>2

LEMMA ConfirmSimulation ==
  ASSUME SafetyInv, NEW p \in Proc, Confirm(p)
  PROVE  SameDecisions \/ Visible
  <1>1. CASE ConfirmCheck(p) \/ StopTimer(p) \/ ConfirmRecheck(p)
               \/ ConsumeClaim(p, "confirm_claim", "persist")
    BY <1>1, QuietSteps DEF ConfirmCheck, StopTimer, ConfirmRecheck, ConsumeClaim, Reject, durable
  <1>2. CASE PersistCandidate(p)
    <2>1. Undecided
      BY <1>2, HolderWorksOnDirectory
         DEF PersistCandidate, At, PublishedSteps, EntrySteps, UnpublishedSteps, InstallSteps,
             Critical, ConfirmSteps, FinalSteps
    <2> QED
      BY <1>2, <2>1 DEF PersistCandidate, SameDecisions
  <1>3. CASE Publish(p, "publish_confirmation", "confirmed")
    BY <1>3, DecisionSimulation DEF Visible
  <1>4. CASE Reject(p)
    BY <1>4, QuietSteps DEF Reject, durable
  <1> QED
    BY <1>1, <1>2, <1>3, <1>4 DEF Confirm, PublishConfirmation

LEMMA RollbackSimulation ==
  ASSUME SafetyInv, NEW p \in Proc, Rollback(p)
  PROVE  SameDecisions \/ Visible
  <1> USE DEF At, PublishedSteps, EntrySteps, UnpublishedSteps, InstallSteps,
              Critical, RollbackSteps, FinalSteps
  <1>1. CASE RollbackCheck(p) \/ ConsumeClaim(p, "rollback_claim", "restore_include")
               \/ RestoreRuntime(p)
    BY <1>1, QuietSteps DEF RollbackCheck, ConsumeClaim, RestoreRuntime, Reject, durable
  <1>2. CASE WriteRollbackAuthorization(p) /\ ~Reject(p)
    <2>1. cur \in DOMAIN dir /\ dir \in [DOMAIN dir -> Directory]
      BY <1>2, HolderWorksOnDirectory DEF WriteRollbackAuthorization, SafetyInv, TypeOK
    <2> QED
      BY <1>2, <2>1 DEF WriteRollbackAuthorization, SameDecisions, Directory
  <1>3. CASE RestoreInclude(p) /\ ~Reject(p)
    <2>1. Undecided
      BY <1>3, HolderWorksOnDirectory DEF RestoreInclude
    <2> QED
      BY <1>3, <2>1 DEF RestoreInclude, SameDecisions
  <1>4. CASE Publish(p, "publish_rollback", "rolledback")
    BY <1>4, DecisionSimulation DEF Visible
  <1>5. CASE Reject(p)
    BY <1>5, QuietSteps DEF Reject, durable
  <1> QED
    BY <1>1, <1>2, <1>3, <1>4, <1>5 DEF Rollback

(* Every step of the system is a step of FirewallOutcome or stutters.      *)
LEMMA StepSimulation ==
  ASSUME SafetyInv, SafetyInv', [Next]_vars
  PROVE  [Promise!Next]_(Promise!vars)
  <1>0. SUFFICES SameDecisions \/ Visible
    BY SameDecisionsStutters DEF Visible, Promise!Next
  <1>1. ASSUME NEW p \in Proc, Procedure(p) PROVE SameDecisions \/ Visible
    <2>1. CASE Apply(p) \/ Stage(p) \/ Confirm(p) \/ Rollback(p)
      BY <2>1, ApplySimulation, StageSimulation, ConfirmSimulation, RollbackSimulation
    <2>2. CASE DisableTimer(p) \/ StopWatchdog(p)
      BY <2>2, QuietSteps DEF DisableTimer, StopWatchdog, durable
    <2>3. CASE ClearActive(p)
      BY <2>3, CloseSimulation DEF Visible
    <2>4. CASE Acquire(p) \/ InstallRuntime(p)
      BY <2>4, QuietSteps DEF Acquire, InstallRuntime, InstallCheck, InstallReplace, Reject, durable
    <2> QED
      BY <1>1, <2>1, <2>2, <2>3, <2>4 DEF Procedure, Finalize
  <1>2. ASSUME NEW p \in Proc, LockTimeout(p) PROVE SameDecisions
    BY <1>2, QuietSteps DEF LockTimeout, durable
  <1>3. ASSUME NEW p \in Proc, Abort(p) PROVE SameDecisions \/ Visible
    BY <1>3, TearSimulation DEF Abort, Visible
  <1>4. CASE PowerLoss
    <2>1. holder \in Proc \union {NoProc} /\ include' = include
      BY <1>4 DEF PowerLoss, SafetyInv, TypeOK
    <2>2. CASE UNCHANGED <<active, dir>>
      BY <2>1, <2>2, QuietSteps
    <2>3. CASE holder \in Proc /\ Tear(holder)
      BY <2>1, <2>3, TearSimulation DEF Visible
    <2> QED
      BY <1>4, <2>1, <2>2, <2>3 DEF PowerLoss
  <1>5. CASE \/ \E p \in Invocation : \/ \E r \in Claim \union {Install} : Submit(p, r)
                                     \/ StartConfirmation(p)
             \/ RestartRollback \/ StartLimitWindowEnds \/ TimerFires \/ Drift
             \/ UNCHANGED vars
    <2>1. UNCHANGED <<active, dir, include>>
      BY <1>5 DEF Submit, StartConfirmation, RestartRollback, StartLimitWindowEnds,
                  TimerFires, Drift, durable, vars
    <2> QED
      BY <2>1, QuietSteps
  <1> QED
    BY <1>1, <1>2, <1>3, <1>4, <1>5 DEF Next

(* The program implements FirewallOutcome: one settled policy, changed by  *)
(* confirmations only, and one decision per transaction.                   *)
THEOREM Refinement == Spec => KeepsPromise
  <1>1. Init => Promise!Init
    BY ConstantsAssumption DEF Init, Promise!Init
  <1>2. SafetyInv /\ SafetyInv' /\ [Next]_vars => [Promise!Next]_(Promise!vars)
    BY StepSimulation
  <1> QED
    BY <1>1, <1>2, SafetyInvariant, PTL DEF Spec, KeepsPromise, Promise!Spec
===============================================================================
