-------------------------- MODULE FirewallInvariant --------------------------
(* The inductive invariant behind the safety of FirewallTransaction.       *)
EXTENDS FirewallTransaction

ConfirmSvcLabel == ConfirmSteps \union FinalSteps \union {"idle", "wait"}
RollbackSvcLabel == (RollbackSteps \ {"rollback_authorization", "rollback_claim"})
                      \union FinalSteps \union {"idle", "wait", "restarting", "failed"}

(* An invocation is at a step of the procedure it was asked for; an apply  *)
(* may be undoing itself.                                                  *)
RequestLabel(p) ==
  /\ pc[p] \notin ConfirmSteps \union {"restarting", "failed"}
  /\ pc[p] \notin {"idle", "done"} => request[p] \in Claim \union {Install}
  /\ pc[p] \in ApplySteps => Asks(p, "apply")
  /\ pc[p] \in StageSteps => Asks(p, "confirm")
  /\ pc[p] \in {"rollback_authorization", "rollback_claim"} => Asks(p, "rollback")
  /\ pc[p] \in RollbackSteps \union FinalSteps => Asks(p, "apply") \/ Asks(p, "rollback")

(* The lock: a process is inside exactly while it is the holder.           *)
LockInv ==
  /\ \A p \in Proc : pc[p] \in Critical <=> holder = p
  /\ pc[ConfirmSvc] \in ConfirmSvcLabel
  /\ pc[RollbackSvc] \in RollbackSvcLabel
  /\ \A p \in Invocation : RequestLabel(p)

(* Steps before a transaction is chosen, before it is published, and on    *)
(* the published one.                                                      *)
EntrySteps == {"apply", "stage", "confirm", "rollback"} \union InstallSteps
UnpublishedSteps == {"claim", "activate"}
PublishedSteps == Critical \ (EntrySteps \union UnpublishedSteps)

(* The holder works on the active transaction, or on one it is preparing.  *)
CurInv ==
  /\ active \in Tx => active \in DOMAIN dir
  /\ holder # NoProc /\ pc[holder] \in UnpublishedSteps =>
       active = NoTx /\ cur \in DOMAIN dir
  /\ holder # NoProc /\ pc[holder] \in PublishedSteps =>
       active \in Tx /\ cur = active

(* What a snapshot holds.                                                  *)
SnapshotInv ==
  \A t \in DOMAIN dir : /\ dir[t].candidate # NoTable
                        /\ dir[t].runtimeBackup \in {dir[t].persistentBackup, NoTable}

(* The watchdog: off between transactions; an undecided transaction whose  *)
(* watchdog is off has changed nothing, though a boot may have left no     *)
(* table.                                                                  *)
WatchdogInv ==
  /\ IdleIsDisarmed
  /\ active \notin Tx => runtime \in {include, NoTable}
  /\ Undecided =>
       LET d == dir[active]
       IN /\ include \in {d.persistentBackup, d.candidate}
          /\ ~timerEnabled => /\ include = d.persistentBackup
                              /\ runtime \in {d.persistentBackup, d.runtimeBackup, NoTable}
  /\ holder # NoProc =>
       /\ pc[holder] \in {"start_timer", "load", "verify"} => timerEnabled
       /\ pc[holder] \in {"stop_watchdog", "clear"} => ~timerEnabled
       /\ pc[holder] = "clear" => timer = "inactive"

(* What the holder has established on its way to the terminal record.      *)
OutcomeInv ==
  /\ PublishedOutcomeIsInForce
  /\ holder # NoProc =>
       LET d == dir[cur]
       IN /\ pc[holder] \in UnpublishedSteps =>
               /\ d.terminal = "none"
               /\ d.persistentBackup = include /\ d.runtimeBackup = runtime
          /\ pc[holder] \in PublishedSteps \ FinalSteps => d.terminal = "none"
          /\ pc[holder] \in FinalSteps => d.terminal \in Settled
          /\ pc[holder] \in {"confirm_claim", "persist", "publish_confirmation"} =>
               runtime = d.candidate
          /\ pc[holder] = "publish_confirmation" => include = d.candidate
          /\ pc[holder] \in {"restore_runtime", "publish_rollback"} =>
               include = d.persistentBackup
          /\ pc[holder] = "publish_rollback" => runtime = d.runtimeBackup

(* The claim behind a step is open until the step that spends it, and its  *)
(* receipt names the transaction from then on.                             *)
AuthorizationInv ==
  /\ EffectsAreAuthorized
  /\ \A t \in DOMAIN dir : dir[t].request \in Claim => ActionOf[dir[t].request] = "confirm"
  /\ holder # NoProc =>
       LET mine == request[holder]
           staged == dir[cur].request
           bound(c) == CandidateOf[c] = dir[cur].candidate
       IN /\ pc[holder] = "claim" => Unspent(mine) /\ bound(mine)
          /\ pc[holder] = "activate" => claims[mine] = cur /\ bound(mine)
          /\ pc[holder] \in {"rollback_authorization", "rollback_claim"} => Unspent(mine)
          /\ pc[holder] \in {"stop_timer", "recheck", "confirm_claim"} =>
               staged \in Claim /\ bound(staged) /\ Unspent(staged)
          /\ pc[holder] \in {"persist", "publish_confirmation"} =>
               staged \in Claim /\ bound(staged) /\ claims[staged] = cur

(* Behind UndecidedIsAttended: a watchdog that has fired has started the   *)
(* rollback, and the candidate is loaded under a watchdog that was started.*)
AttendanceInv ==
  /\ UndecidedIsAttended
  /\ timer = "elapsed" => pc[RollbackSvc] # "idle"
  /\ holder # NoProc /\ pc[holder] \in {"load", "verify"} => timer # "inactive"

SafetyInv == /\ TypeOK /\ LockInv /\ CurInv /\ SnapshotInv
             /\ WatchdogInv /\ OutcomeInv /\ AuthorizationInv
==============================================================================
