-------------------------- MODULE OpenSSHTransaction --------------------------
(***************************************************************************)
(* The guarded port retirement of roles/openssh_server:                    *)
(* files/transaction.py run as root by the role (apply, confirm, rollback) *)
(* and by the rollback service, which a persistent timer starts at the     *)
(* deadline of the transaction and which restarts when it fails.           *)
(*                                                                         *)
(*   apply    save a pending record, write and start the timer, replace    *)
(*            the managed drop-in, hand the listeners over, save again     *)
(*   confirm  verify, save a confirmed record, cancel the timer            *)
(*   rollback restore the snapshot, hand the listeners over, save a        *)
(*            rolled back record, cancel the timer                         *)
(*                                                                         *)
(* All of them hold one flock and wait for it without a limit.  Files are  *)
(* replaced through a temporary name opened exclusively; a process that is *)
(* killed while it writes may leave that name behind.                      *)
(*                                                                         *)
(* A target is the content of the managed drop-in; rest stands for all the *)
(* other files of the fingerprint.                                         *)
(***************************************************************************)
EXTENDS Naturals

CONSTANTS
  Invocation,      \* program runs started by the role
  Svc, NoProc,     \* the rollback service's process; nobody
  Tx, NoTx,        \* transactions, each with its deadline; none
  Target, Rest,    \* contents of the managed drop-in and of the other files
  CandidateOf,     \* the drop-in a transaction applies
  Good,            \* the drop-ins that meet the port contract
  NoConf,          \* no fingerprint; no listener
  NoRecord,        \* no state.json; no record in memory
  NoRequest,
  MayLeave,        \* BOOLEAN: may a killed write leave its temporary name?
  MaxFailures,     \* bound: failed commands, kills and edits of other files
  MaxCrashes       \* bound: power losses and reboots

Proc == Invocation \union {Svc}
Conf == [target: Target, rest: Rest]
Record == [status: {"pending", "confirmed", "rolled_back"}, tx: Tx,
           before: Conf, after: Conf \union {NoConf}]
Request == [action: {"apply", "confirm", "rollback"}, tx: Tx]

(* The steps of apply inside its try, of apply, of confirm, of rollback.   *)
Guarded == {"write_units", "reload", "enable_timer", "start_timer", "write_target",
            "stop", "start", "check", "save_after"}
ApplySteps == Guarded \union {"apply", "save_pending"}
ConfirmSteps == {"confirm", "save_confirmed"}
RollbackSteps == {"rollback", "restore_rest", "restore_target", "restore_stop",
                  "restore_start", "verify", "save_rolled_back"}
CancelSteps == {"disable_timer", "stop_timer"}
Critical == ApplySteps \union ConfirmSteps \union RollbackSteps \union CancelSteps
Label == Critical \union {"idle", "wait", "restarting", "done"}

ASSUME ConstantsAssumption ==
  /\ Svc \notin Invocation /\ NoProc \notin Proc
  /\ NoTx \notin Tx /\ NoConf \notin Conf
  /\ NoRecord \notin Record /\ NoRequest \notin Request
  /\ CandidateOf \in [Tx -> Target] /\ Good \subseteq Target
  /\ MayLeave \in BOOLEAN
  /\ MaxFailures \in Nat /\ MaxCrashes \in Nat

VARIABLES
  (* durable *)
  record,    \* state.json
  conf,      \* the configuration files
  unitTx,    \* the transaction whose deadline the timer unit file holds
  enabled,   \* the timer is enabled, so a boot starts it
  fired,     \* the transactions whose timer has been stamped as triggered
  leftover,  \* the files whose temporary name has been left behind
  (* volatile *)
  live,      \* the configuration the listeners run with; NoConf: no listener
  timer,     \* the timer unit; elapsed is active too
  loaded,    \* the transaction whose deadline systemd has loaded
  holder, mem,  \* the process holding the lock and its record in memory
  pc, request,
  passed,    \* the transactions whose deadline has passed
  failures, crashes

files == <<record, conf, unitTx, enabled, leftover>>
systemd == <<timer, loaded, fired>>
bounds == <<passed, failures, crashes>>
vars == <<record, conf, unitTx, enabled, fired, leftover, live, timer, loaded,
          holder, mem, pc, request, passed, failures, crashes>>

(* Types.                                                                  *)
TypeOK ==
  /\ record \in Record \union {NoRecord} /\ mem \in Record \union {NoRecord}
  /\ conf \in Conf /\ live \in Conf \union {NoConf}
  /\ unitTx \in Tx \union {NoTx} /\ loaded \in Tx \union {NoTx}
  /\ enabled \in BOOLEAN /\ timer \in {"inactive", "waiting", "elapsed"}
  /\ fired \subseteq Tx /\ passed \subseteq Tx
  /\ leftover \subseteq {"state", "unit", "target", "rest"}
  /\ holder \in Proc \union {NoProc}
  /\ pc \in [Proc -> Label]
  /\ request \in [Invocation -> Request \union {NoRequest}]
  /\ failures \in 0..MaxFailures /\ crashes \in 0..MaxCrashes

(* A host whose listeners run with its configuration, never finalized.     *)
Init ==
  /\ record = NoRecord /\ mem = NoRecord
  /\ conf \in Conf /\ live = conf
  /\ unitTx = NoTx /\ loaded = NoTx /\ enabled = FALSE /\ timer = "inactive"
  /\ fired = {} /\ passed = {} /\ leftover = {}
  /\ holder = NoProc /\ pc = [p \in Proc |-> "idle"]
  /\ request = [p \in Invocation |-> NoRequest]
  /\ failures = 0 /\ crashes = 0

-----------------------------------------------------------------------------
(* The lock, the processes and systemd.                                    *)

At(p, step) == holder = p /\ pc[p] = step
Goto(p, step) == pc' = [pc EXCEPT ![p] = step]

Status(r) == IF r = NoRecord THEN "none" ELSE r.status
Pending(r) == Status(r) = "pending"
Names(r, t) == r # NoRecord /\ r.tx = t

(* The file a step replaces.                                               *)
FileAt(step) ==
  CASE step \in {"save_pending", "save_after", "save_confirmed", "save_rolled_back"} -> "state"
    [] step = "write_units" -> "unit"
    [] step \in {"write_target", "restore_target"} -> "target"
    [] step = "restore_rest" -> "rest"
    [] OTHER -> "none"

(* The exclusive open of the temporary name succeeds.                      *)
CanWrite(step) == FileAt(step) \notin leftover

(* A timer is told of every change of its service: a calendar deadline     *)
(* that still lies ahead makes an elapsed one wait again.                  *)
TimerNotified == IF timer = "elapsed" /\ loaded \notin passed THEN "waiting" ELSE timer

(* Mutant of End: the unit has no Restart=, a failed run stays failed.      *)
EndWithoutRestart(p, failed) ==
  /\ holder' = NoProc /\ mem' = NoRecord
  /\ IF p = Svc
     THEN /\ Goto(p, IF failed THEN "failed" ELSE "idle")
          /\ timer' = TimerNotified
     ELSE Goto(p, "done") /\ UNCHANGED timer
  /\ UNCHANGED <<live, loaded, fired, request, passed, crashes>>

(* The run ends; Restart=on-failure for the service.                       *)
End(p, failed) ==
  /\ holder' = NoProc /\ mem' = NoRecord
  /\ IF p = Svc
     THEN /\ Goto(p, IF failed THEN "restarting" ELSE "idle")
          /\ timer' = TimerNotified
     ELSE Goto(p, "done") /\ UNCHANGED timer
  /\ UNCHANGED <<live, loaded, fired, request, passed, crashes>>

(* An exception: apply rolls back from its own memory once it has saved.   *)
Raise(p) ==
  \/ /\ pc[p] \in Guarded /\ Goto(p, "rollback")
     /\ UNCHANGED <<live, systemd, holder, mem, request, passed, crashes>>
  \/ pc[p] \notin Guarded /\ End(p, TRUE)

Reject(p) == Raise(p) /\ UNCHANGED <<files, failures>>

Continue(p, step) == Goto(p, step) /\ UNCHANGED <<holder, request, bounds>>

(* The role starts a run over a fresh connection; the operator takes a new *)
(* identifier for every apply.                                             *)
Submit(p, r) ==
  /\ pc[p] = "idle" /\ live # NoConf
  /\ r.action = "apply" => \A q \in Invocation : request[q] # r
  /\ request' = [request EXCEPT ![p] = r]
  /\ Goto(p, "wait")
  /\ UNCHANGED <<files, live, systemd, holder, mem, bounds>>

(* flock, without a limit; every run but apply then reads state.json.      *)
Acquire(p) ==
  /\ pc[p] = "wait" /\ holder = NoProc
  /\ holder' = p
  /\ LET action == IF p = Svc THEN "rollback" ELSE request[p].action
     IN /\ Goto(p, action)
        /\ mem' = IF action = "apply" THEN NoRecord ELSE record
  /\ UNCHANGED <<files, live, systemd, request, bounds>>

(* RestartSec elapses.                                                     *)
RestartService ==
  /\ pc[Svc] = "restarting" /\ Goto(Svc, "wait")
  /\ timer' = TimerNotified
  /\ UNCHANGED <<files, live, loaded, fired, holder, mem, request, bounds>>

(* Three hundred seconds after apply took its deadline.  The commands that *)
(* lead up to the running timer take at most thirty seconds each.          *)
DeadlinePasses(t) ==
  /\ t \notin passed
  /\ Names(record, t) \/ loaded = t
  /\ ~\E p \in Invocation :
        /\ pc[p] \in {"write_units", "reload", "enable_timer", "start_timer"}
        /\ Names(mem, t)
  /\ passed' = passed \union {t}
  /\ UNCHANGED <<files, live, systemd, holder, mem, pc, request, failures, crashes>>

(* OnCalendar= is reached: the trigger is stamped and the service started. *)
TimerFires ==
  /\ timer = "waiting" /\ loaded \in passed
  /\ timer' = "elapsed" /\ fired' = fired \union {loaded}
  /\ Goto(Svc, IF pc[Svc] = "idle" THEN "wait" ELSE pc[Svc])
  /\ UNCHANGED <<files, live, loaded, holder, mem, request, bounds>>

-----------------------------------------------------------------------------
(* apply.                                                                  *)

(* Mutant of ApplyCheck: an undecided transaction is not looked for.       *)
ApplyCheckAnyway(p) ==
  /\ At(p, "apply")
  /\ \/ Reject(p)
     \/ LET t == request[p].tx
        IN /\ live # NoConf /\ CandidateOf[t] # conf.target
           /\ mem' = [status |-> "pending", tx |-> t, before |-> conf, after |-> NoConf]
           /\ Continue(p, "save_pending")
           /\ UNCHANGED <<files, live, systemd>>

(* The guard may refuse what the operator asked for (another fingerprint,  *)
(* receipt, connection); a second pending transaction and a candidate that *)
(* is in place already end the run as well.                                *)
ApplyCheck(p) ==
  /\ At(p, "apply")
  /\ \/ Reject(p)
     \/ LET t == request[p].tx
        IN /\ live # NoConf /\ ~Pending(record)
           /\ CandidateOf[t] # conf.target
           /\ mem' = [status |-> "pending", tx |-> t, before |-> conf, after |-> NoConf]
           /\ Continue(p, "save_pending")
           /\ UNCHANGED <<files, live, systemd>>

(* Saves the record in memory with what the step has learnt.               *)
Save(p, step, new, next) ==
  /\ At(p, step) /\ CanWrite(step)
  /\ record' = new /\ mem' = new
  /\ Continue(p, next)
  /\ UNCHANGED <<conf, unitTx, enabled, leftover, live, systemd>>

SavePending(p) == Save(p, "save_pending", mem, "write_units")

WriteUnits(p) ==
  /\ At(p, "write_units") /\ CanWrite("write_units")
  /\ unitTx' = mem.tx
  /\ Continue(p, "reload")
  /\ UNCHANGED <<record, conf, enabled, leftover, live, systemd, mem>>

(* A timer that waits is scheduled anew, an elapsed one stays elapsed.     *)
DaemonReload(p) ==
  /\ At(p, "reload")
  /\ loaded' = unitTx
  /\ Continue(p, "enable_timer")
  /\ UNCHANGED <<files, live, timer, fired, mem>>

(* Mutant of EnableTimer: start instead of enable --now.                   *)
EnableNothing(p) ==
  /\ At(p, "enable_timer")
  /\ Continue(p, "start_timer")
  /\ UNCHANGED <<files, live, systemd, mem>>

EnableTimer(p) ==
  /\ At(p, "enable_timer")
  /\ enabled' = TRUE
  /\ Continue(p, "start_timer")
  /\ UNCHANGED <<record, conf, unitTx, leftover, live, systemd, mem>>

(* enable --now and is-active are content with any active timer.           *)
StartTimer(p) ==
  /\ At(p, "start_timer")
  /\ timer' = IF timer = "inactive" THEN "waiting" ELSE timer
  /\ Continue(p, "write_target")
  /\ UNCHANGED <<files, live, loaded, fired, mem>>

WriteTarget(p) ==
  /\ At(p, "write_target") /\ CanWrite("write_target")
  /\ conf' = [conf EXCEPT !.target = CandidateOf[mem.tx]]
  /\ Continue(p, "stop")
  /\ UNCHANGED <<record, unitTx, enabled, leftover, live, systemd, mem>>

(* reconcile: daemon and socket stop, systemd reloads, both start.         *)
StopListeners(p, step, next) ==
  /\ At(p, step)
  /\ live' = NoConf
  /\ Continue(p, next)
  /\ UNCHANGED <<files, systemd, mem>>

StartListeners(p, step, next) ==
  /\ At(p, step)
  /\ live' = conf /\ loaded' = unitTx
  /\ Continue(p, next)
  /\ UNCHANGED <<files, timer, fired, mem>>

(* check_ports: the drop-in decides the ports, and the listeners have them. *)
PortsMeetContract ==
  live # NoConf /\ live.target = conf.target /\ conf.target \in Good

CheckApplied(p) ==
  /\ At(p, "check")
  /\ IF PortsMeetContract /\ mem.tx \notin passed
     THEN /\ mem' = [mem EXCEPT !.after = conf]
          /\ Continue(p, "save_after")
          /\ UNCHANGED <<files, live, systemd>>
     ELSE Reject(p)

SaveAfter(p) ==
  /\ At(p, "save_after") /\ CanWrite("save_after")
  /\ record' = mem
  /\ End(p, FALSE)
  /\ UNCHANGED <<conf, unitTx, enabled, leftover, failures>>

Apply(p) ==
  \/ ApplyCheck(p) \/ SavePending(p) \/ WriteUnits(p) \/ DaemonReload(p)
  \/ EnableTimer(p) \/ StartTimer(p) \/ WriteTarget(p)
  \/ StopListeners(p, "stop", "start") \/ StartListeners(p, "start", "check")
  \/ CheckApplied(p) \/ SaveAfter(p)

-----------------------------------------------------------------------------
(* confirm.                                                                *)

(* The pending transaction the request names.                              *)
Pertinent(p) == Pending(mem) /\ Names(mem, request[p].tx)

(* Mutant of ConfirmationValid: the fingerprint is not compared.           *)
ConfirmationValidByPorts(p) ==
  Pertinent(p) /\ mem.tx \notin passed /\ PortsMeetContract

ConfirmationValid(p) ==
  Pertinent(p) /\ mem.tx \notin passed /\ conf = mem.after /\ PortsMeetContract

Late(p) == Pertinent(p) /\ mem.tx \in passed

(* A late confirmation undoes the transaction.  The guard may refuse, and  *)
(* a transaction already confirmed ends the run too.                       *)
ConfirmCheck(p) ==
  /\ At(p, "confirm")
  /\ \/ /\ ConfirmationValid(p)
        /\ Continue(p, "save_confirmed")
        /\ UNCHANGED <<files, live, systemd, mem>>
     \/ /\ Late(p)
        /\ Continue(p, "rollback")
        /\ UNCHANGED <<files, live, systemd, mem>>
     \/ ~Late(p) /\ Reject(p)

SaveConfirmed(p) ==
  Save(p, "save_confirmed", [mem EXCEPT !.status = "confirmed"], "disable_timer")

Confirm(p) == ConfirmCheck(p) \/ SaveConfirmed(p)

-----------------------------------------------------------------------------
(* rollback.                                                               *)

(* Mutant of RollbackCheck: whatever state.json says is undone.            *)
RollbackCheckIgnoringStatus(p) ==
  /\ At(p, "rollback")
  /\ IF mem # NoRecord
     THEN /\ Continue(p, "restore_rest")
          /\ UNCHANGED <<files, live, systemd, mem>>
     ELSE Reject(p)

(* Mutant of RollbackCheck: nothing to undo before apply saved again.      *)
RollbackCheckAfterApply(p) ==
  /\ At(p, "rollback")
  /\ IF Pending(mem) /\ mem.after # NoConf
     THEN /\ Continue(p, "restore_rest")
          /\ UNCHANGED <<files, live, systemd, mem>>
     ELSE End(p, FALSE) /\ UNCHANGED <<files, failures>>

RollbackCheck(p) ==
  /\ At(p, "rollback")
  /\ \/ /\ Pending(mem)
        /\ Continue(p, "restore_rest")
        /\ UNCHANGED <<files, live, systemd, mem>>
     \/ /\ Status(mem) = "confirmed" \/ (Status(mem) = "rolled_back" /\ conf = mem.before)
        /\ End(p, FALSE) /\ UNCHANGED <<files, failures>>
     \/ /\ Status(mem) = "none" \/ (Status(mem) = "rolled_back" /\ conf # mem.before)
        /\ Reject(p)

RestoreRest(p) ==
  /\ At(p, "restore_rest") /\ CanWrite("restore_rest")
  /\ conf' = [conf EXCEPT !.rest = mem.before.rest]
  /\ Continue(p, "restore_target")
  /\ UNCHANGED <<record, unitTx, enabled, leftover, live, systemd, mem>>

RestoreTarget(p) ==
  /\ At(p, "restore_target") /\ CanWrite("restore_target")
  /\ conf' = [conf EXCEPT !.target = mem.before.target]
  /\ Continue(p, "restore_stop")
  /\ UNCHANGED <<record, unitTx, enabled, leftover, live, systemd, mem>>

VerifyRestored(p) ==
  /\ At(p, "verify")
  /\ IF conf = mem.before
     THEN Continue(p, "save_rolled_back") /\ UNCHANGED <<files, live, systemd, mem>>
     ELSE Reject(p)

SaveRolledBack(p) ==
  Save(p, "save_rolled_back", [mem EXCEPT !.status = "rolled_back"], "disable_timer")

Rollback(p) ==
  \/ RollbackCheck(p) \/ RestoreRest(p) \/ RestoreTarget(p)
  \/ StopListeners(p, "restore_stop", "restore_start")
  \/ StartListeners(p, "restore_start", "verify")
  \/ VerifyRestored(p) \/ SaveRolledBack(p)

(* cancel_timer: disable --now, refused for a unit that was never written. *)
DisableTimer(p) ==
  /\ At(p, "disable_timer")
  /\ IF unitTx = NoTx THEN Reject(p)
     ELSE /\ enabled' = FALSE
          /\ Continue(p, "stop_timer")
          /\ UNCHANGED <<record, conf, unitTx, leftover, live, systemd, mem>>

StopTimer(p) ==
  /\ At(p, "stop_timer")
  /\ timer' = "inactive"
  /\ holder' = NoProc /\ mem' = NoRecord
  /\ Goto(p, IF p = Svc THEN "idle" ELSE "done")
  /\ UNCHANGED <<files, live, loaded, fired, request, bounds>>

CancelTimer(p) == DisableTimer(p) \/ StopTimer(p)

-----------------------------------------------------------------------------
(* Failure.                                                                *)

(* The temporary name exists already.                                      *)
WriteRefused(p) == holder = p /\ ~CanWrite(pc[p]) /\ Reject(p)

(* A command fails or times out and raises, or the process is killed.      *)
Abort(p) ==
  /\ holder = p
  /\ failures < MaxFailures /\ failures' = failures + 1
  /\ \/ Raise(p) /\ UNCHANGED leftover
     \/ /\ End(p, TRUE)
        /\ \/ UNCHANGED leftover
           \/ /\ MayLeave /\ FileAt(pc[p]) # "none"
              /\ leftover' = leftover \union {FileAt(pc[p])}
  /\ UNCHANGED <<record, conf, unitTx, enabled>>

(* Power loss or reboot: the listeners start with the configuration, and   *)
(* an enabled persistent timer waits unless its trigger has been stamped.  *)
PowerLoss ==
  /\ crashes < MaxCrashes /\ crashes' = crashes + 1
  /\ live' = conf /\ loaded' = unitTx
  /\ timer' = IF ~enabled THEN "inactive"
              ELSE IF unitTx \in fired THEN "elapsed" ELSE "waiting"
  /\ holder' = NoProc /\ mem' = NoRecord
  /\ pc' = [p \in Proc |-> IF p \in Invocation /\ pc[p] # "idle" THEN "done" ELSE "idle"]
  /\ \/ UNCHANGED leftover
     \/ /\ MayLeave /\ holder # NoProc /\ FileAt(pc[holder]) # "none"
        /\ leftover' = leftover \union {FileAt(pc[holder])}
  /\ UNCHANGED <<record, conf, unitTx, enabled, fired, request, passed, failures>>

(* Somebody edits one of the other files.                                  *)
Drift ==
  /\ failures < MaxFailures /\ failures' = failures + 1
  /\ \E r \in Rest \ {conf.rest} : conf' = [conf EXCEPT !.rest = r]
  /\ UNCHANGED <<record, unitTx, enabled, leftover, live, systemd, holder, mem, pc,
                 request, passed, crashes>>

-----------------------------------------------------------------------------
Procedure(p) == \/ Acquire(p) \/ Apply(p) \/ Confirm(p) \/ Rollback(p)
                \/ CancelTimer(p) \/ WriteRefused(p)

Next ==
  \/ \E p \in Proc : Procedure(p) \/ Abort(p)
  \/ \E p \in Invocation, r \in Request : Submit(p, r)
  \/ RestartService \/ TimerFires \/ \E t \in Tx : DeadlinePasses(t)
  \/ PowerLoss \/ Drift

Spec == Init /\ [][Next]_vars

(* A process that can move does; time passes; systemd restarts and fires.  *)
Fairness ==
  /\ \A p \in Proc : WF_vars(Procedure(p))
  /\ WF_vars(RestartService) /\ WF_vars(TimerFires)
  /\ \A t \in Tx : WF_vars(DeadlinePasses(t))

FairSpec == Spec /\ Fairness

-----------------------------------------------------------------------------
(* The candidate of an undecided transaction is on disk or listened with.  *)
InForce ==
  /\ Pending(record)
  /\ \/ conf.target # record.before.target
     \/ live # NoConf /\ live.target # record.before.target

(* While it is, the timer is active and enabled, and both its unit file    *)
(* and systemd have this transaction's deadline: a boot finds it too.  A   *)
(* pending record that no timer guards is therefore harmless.              *)
PendingIsGuarded ==
  InForce => /\ enabled /\ timer # "inactive"
             /\ unitTx = record.tx /\ loaded = record.tx

(* Once the deadline of a pending transaction has started the rollback, it *)
(* is not given up: failing, dying, waiting for the lock or finding a      *)
(* record half-way leave it running or about to restart.  Only a boot ends *)
(* it.                                                                     *)
Abandoned == Pending(record) /\ record.tx \in fired /\ pc[Svc] = "idle"

OnlyABootAbandons ==
  [][Abandoned' => Abandoned \/ crashes' # crashes]_vars

(* A decision that can be read is in force, on disk and in the listeners,  *)
(* until the next apply has saved its own record: no late rollback, no     *)
(* repeated confirmation and no crash leaves anything else.                *)
DecisionIsInForce ==
  Status(record) \in {"confirmed", "rolled_back"} =>
    /\ conf.target = IF Status(record) = "confirmed" THEN CandidateOf[record.tx]
                     ELSE record.before.target
    /\ live # NoConf /\ live.target = conf.target

(* Once decided, a transaction is never decided otherwise.                 *)
DecidedOnce ==
  [][\A t \in Tx : (Names(record, t) /\ ~Pending(record) /\ Names(record', t))
                     => record' = record]_vars

(* A timer that the rollback of an earlier transaction has not cancelled   *)
(* stays elapsed when it is told of a later deadline: is-active is content *)
(* with it, but it does not fire unless its service changes state.         *)
StaleTimer == Pending(record) /\ record.tx \notin fired /\ timer = "elapsed"

(* The two ways in which the timer may not start the rollback of what is   *)
(* pending: a boot after the trigger, and an elapsed timer left behind.    *)
Unwatched == Abandoned \/ StaleTimer

(* Liveness: a transaction that is pending with its drop-in on disk does   *)
(* not stay so, whatever fails and whoever dies, unless it is unwatched.   *)
UndecidedOnDisk(t) ==
  Pending(record) /\ record.tx = t /\ conf.target # record.before.target

PendingIsDecided ==
  \A t \in Tx : UndecidedOnDisk(t) ~> ~(Pending(record) /\ record.tx = t) \/ Unwatched

(* Liveness: listeners stopped under a timer come back, whoever dies while *)
(* they are down, with the same exception.                                 *)
ListenersComeBack ==
  (live = NoConf /\ timer # "inactive") ~> live # NoConf \/ Unwatched

-----------------------------------------------------------------------------
(* Refinement: what is settled is what the record says of the transaction  *)
(* decided last, or the snapshot of the one under way.                     *)
SettledTarget ==
  IF record = NoRecord THEN conf.target
  ELSE IF record.status = "confirmed" THEN CandidateOf[record.tx]
  ELSE record.before.target

Promise == INSTANCE RetirementOutcome WITH
  settled <- SettledTarget,
  open    <- IF Pending(record) THEN record.tx ELSE NoTx,
  disk    <- conf.target,
  heard   <- IF live = NoConf THEN NoConf ELSE live.target,
  None    <- NoConf

(* Every step is a step of RetirementOutcome or leaves it alone, through   *)
(* failures, kills, reboots, retries and runs that come late.              *)
KeepsPromise == Promise!Spec
=============================================================================
