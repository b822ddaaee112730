--------------------------- MODULE OpenSSHInvariant ---------------------------
(* The inductive invariant behind the safety of OpenSSHTransaction.        *)
EXTENDS OpenSSHTransaction

(* The lock: a process is inside exactly while it is the holder, at a step *)
(* of its own procedure.                                                   *)
LockInv ==
  /\ \A p \in Proc : pc[p] \in Critical <=> holder = p
  /\ pc[Svc] \in RollbackSteps \union CancelSteps \union {"idle", "wait", "restarting"}
  /\ \A p \in Invocation : /\ pc[p] # "restarting"
                           /\ pc[p] \notin {"idle", "done"} => request[p] \in Request
                           /\ pc[p] \in ApplySteps => request[p].action = "apply"

(* Steps of apply once its record is saved, its unit file written, and the *)
(* timer enabled; steps of rollback once the decision to undo is taken.    *)
SavedSteps == Guarded
UnitSteps == Guarded \ {"write_units"}
LoadedSteps == UnitSteps \ {"reload"}
EnabledSteps == LoadedSteps \ {"enable_timer"}
StartedSteps == EnabledSteps \ {"start_timer"}
WrittenSteps == {"stop", "start", "check", "save_after"}
UndoSteps == RollbackSteps \ {"rollback"}
RestoredSteps == {"restore_stop", "restore_start", "verify", "save_rolled_back"}

(* The record on disk and the one in memory speak of the same snapshot.    *)
SameSnapshot ==
  /\ mem # NoRecord /\ record # NoRecord
  /\ mem.tx = record.tx /\ mem.before = record.before

AfterIsCandidate(r) ==
  r # NoRecord /\ r.after # NoConf => r.after.target = CandidateOf[r.tx]

ListenersFollow == live # NoConf /\ live.target = conf.target

(* What the holder has established.                                        *)
HolderInv ==
  LET s == pc[holder]
  IN holder # NoProc =>
       /\ s = "save_pending" => /\ Pending(mem) /\ mem.tx = request[holder].tx
                                /\ conf.target = mem.before.target
                                /\ ~Pending(record)
       /\ s \in SavedSteps \union UndoSteps =>
            Pending(mem) /\ Pending(record) /\ SameSnapshot
       /\ s = "rollback" /\ Pending(mem) => Pending(record) /\ SameSnapshot
       /\ s \in UnitSteps => unitTx = mem.tx
       /\ s \in LoadedSteps => loaded = mem.tx
       /\ s \in EnabledSteps => enabled
       /\ s \in StartedSteps => timer # "inactive"
       /\ s \in WrittenSteps => conf.target = CandidateOf[mem.tx]
       /\ s = "confirm" => mem = record
       /\ s = "save_confirmed" =>
            /\ mem = record /\ Pending(mem)
            /\ conf.target = CandidateOf[mem.tx] /\ ListenersFollow
       /\ s \in RestoredSteps => conf.target = mem.before.target
       /\ s \in {"verify", "save_rolled_back"} => ListenersFollow
       /\ s \in CancelSteps => record # NoRecord /\ ~Pending(record)

(* Identifiers are not used again, and the record names an apply that got  *)
(* past saving it.                                                         *)
IdentifierInv ==
  /\ \A p, q \in Invocation :
       request[p] # NoRequest /\ request[p] = request[q] /\ request[p].action = "apply"
         => p = q
  /\ record # NoRecord =>
       \E q \in Invocation :
         /\ request[q] = [action |-> "apply", tx |-> record.tx]
         /\ pc[q] \notin {"idle", "wait", "apply", "save_pending"}

SafetyInv == /\ TypeOK /\ LockInv /\ HolderInv /\ IdentifierInv
             /\ AfterIsCandidate(record) /\ AfterIsCandidate(mem)
             /\ (~Pending(record) => ListenersFollow)
             /\ PendingIsGuarded /\ DecisionIsInForce

(* Behind OnlyABootAbandons: a deadline that systemd has loaded or fired   *)
(* belongs to an apply that got past saving its record; the service reads  *)
(* the record under the lock; and while an apply works, its own deadline   *)
(* has not been served yet.                                                *)
RetryInv ==
  /\ \A t \in fired \union ({unitTx, loaded} \ {NoTx}) : \E q \in Invocation :
       /\ request[q] = [action |-> "apply", tx |-> t]
       /\ pc[q] \notin {"idle", "wait", "apply", "save_pending"}
  /\ holder = Svc /\ pc[Svc] = "rollback" => mem = record
  /\ holder # NoProc /\ pc[holder] \in SavedSteps /\ mem.tx \in fired => pc[Svc] # "idle"
===============================================================================
