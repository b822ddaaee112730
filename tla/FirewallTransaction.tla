------------------------- MODULE FirewallTransaction -------------------------
(***************************************************************************)
(* The rollback-protected firewall transaction of roles/host_firewall:     *)
(* files/firewall_transaction.py run as root by the role (apply,           *)
(* stage-confirm, rollback, install-runtime) and by two systemd services   *)
(* (confirm.service, rollback.service), with rollback.timer as watchdog.   *)
(*                                                                         *)
(* One transaction of the program is:                                      *)
(*                                                                         *)
(*   apply    snapshot, consume claim, publish the active pointer, arm the *)
(*            watchdog, load the candidate ruleset                         *)
(*   stage    leave the signed confirmation in the transaction directory   *)
(*   confirm  stop the watchdog, recheck, consume claim, make the          *)
(*            candidate the boot-time include, publish the terminal        *)
(*            record, disable the watchdog, remove the active pointer      *)
(*   rollback restore include and ruleset, publish the terminal record,    *)
(*            disable the watchdog, remove the active pointer              *)
(*                                                                         *)
(* All of them hold one flock, so at most one process (holder) is inside;  *)
(* between any two of its steps a process may be killed, a command may     *)
(* fail or time out, the watchdog may fire, and the power may go.  Each    *)
(* durable or externally visible effect is therefore an action of its own. *)
(*                                                                         *)
(* A policy stands for a whole nftables ruleset file and the table it      *)
(* loads.  Time is abstract: a timer may fire and a wait may expire at any *)
(* moment (module FirewallBudgets treats the durations).                   *)
(***************************************************************************)
EXTENDS Naturals

CONSTANTS
  Invocation,       \* program runs started by the role (Ansible commands)
  ConfirmSvc,       \* the process of the confirmation service
  RollbackSvc,      \* the process of the rollback service
  NoProc,           \* nobody: the lock is free
  Tx, NoTx, TornTx, \* transaction ids; no pointer; a torn (unreadable) file
  Claim, NoClaim, TornClaim,  \* signed one-time authorizations
  Install,          \* the request of an install-runtime run
  Policy, NoTable,  \* rulesets; NoTable: the role's table is absent
  Approved,         \* the policies whose egress status is "approved"
  ActionOf,         \* the action a claim authorizes
  CandidateOf,      \* the candidate a claim binds
  Static,           \* contents of program, units, verifier, administrator root
  Including,        \* those whose root has exactly one include of the role
  Loadable,         \* those whose root passes nft --check
  StartLimitBurst,  \* StartLimitBurst= of the rollback service
  MayTear,          \* BOOLEAN: may an interrupted exclusive write be torn?
  MaxFailures,      \* bound: failed commands, expired waits and kills
  MaxCrashes        \* bound: power losses

Proc == Invocation \union {ConfirmSvc, RollbackSvc}

(* Where a process can be while it holds the lock.                         *)
ApplySteps    == {"apply", "claim", "activate", "enable_timer",
                  "start_timer", "load", "verify"}
StageSteps    == {"stage", "stage_request", "stage_verification"}
ConfirmSteps  == {"confirm", "stop_timer", "recheck", "confirm_claim",
                  "persist", "publish_confirmation"}
RollbackSteps == {"rollback", "rollback_authorization", "rollback_claim",
                  "restore_include", "restore_runtime", "publish_rollback"}
FinalSteps    == {"disable_timer", "stop_watchdog", "clear"}
InstallSteps  == {"install", "replace_assets"}
Critical == ApplySteps \union StageSteps \union ConfirmSteps
              \union RollbackSteps \union FinalSteps \union InstallSteps
Label == Critical \union {"idle", "wait", "staged", "restarting", "failed", "done"}

(* The armed part of apply: an exception in it runs the rollback inline.   *)
Guarded == {"enable_timer", "start_timer", "load", "verify"}

Directory ==
  [candidate: Policy, persistentBackup: Policy, runtimeBackup: Policy,
   static: Static,
   request: Claim \union {NoClaim, TornClaim},
   verification: Claim \union {NoClaim, TornClaim},
   rollbackAuthorization: BOOLEAN,
   terminal: {"none", "torn", "confirmed", "rolledback"}]

ASSUME ConstantsAssumption ==
  /\ ConfirmSvc \notin Invocation /\ RollbackSvc \notin Invocation
  /\ ConfirmSvc # RollbackSvc
  /\ NoTx \notin Tx /\ TornTx \notin Tx /\ NoTx # TornTx
  /\ NoProc \notin Proc
  /\ NoClaim \notin Claim /\ TornClaim \notin Claim /\ NoClaim # TornClaim
  /\ Install \notin Claim /\ Install # NoClaim
  /\ NoTable \in Policy /\ Approved \subseteq Policy \ {NoTable}
  /\ ActionOf \in [Claim -> {"apply", "confirm", "rollback"}]
  /\ CandidateOf \in [Claim -> Policy \ {NoTable}]
  /\ Including \subseteq Static /\ Loadable \subseteq Static
  /\ StartLimitBurst \in Nat \ {0}
  /\ MayTear \in BOOLEAN
  /\ MaxFailures \in Nat /\ MaxCrashes \in Nat

VARIABLES
  (* durable: survives a power loss *)
  active,       \* active.json: absent, torn, or a transaction id
  dir,          \* the transaction directories, by id
  claims,       \* claims/<id>.json: the transaction that consumed the claim
  include,      \* the persistent include: what the next boot loads
  timerEnabled, \* the watchdog timer is enabled, so a boot starts it
  static,       \* program, units, verifier and administrator root
  (* volatile *)
  runtime,      \* the role's table in the kernel
  timer,        \* the watchdog timer unit
  starts,       \* rollback service starts counted against StartLimitBurst
  holder,       \* the process holding the transaction lock
  cur,          \* the transaction the holder works on
  pc,           \* the step each process is at
  request,      \* what each invocation was asked to do
  (* bounds *)
  failures, crashes

durable == <<active, dir, claims, include, timerEnabled, static>>
vars == <<active, dir, claims, include, timerEnabled, static, runtime, timer,
          starts, holder, cur, pc, request, failures, crashes>>

(* Types.  Among them: the rollback service never exceeds its start limit. *)
TypeOK ==
  /\ active \in Tx \union {NoTx, TornTx}
  /\ DOMAIN dir \subseteq Tx /\ dir \in [DOMAIN dir -> Directory]
  /\ claims \in [Claim -> Tx \union {NoTx, TornTx}]
  /\ include \in Policy /\ runtime \in Policy
  /\ timerEnabled \in BOOLEAN
  /\ static \in Static
  /\ timer \in {"inactive", "waiting", "elapsed"}
  /\ starts \in 0..StartLimitBurst
  /\ holder \in Proc \union {NoProc}
  /\ cur \in Tx \union {NoTx}
  /\ pc \in [Proc -> Label]
  /\ request \in [Invocation -> Claim \union {NoClaim, Install}]
  /\ failures \in 0..MaxFailures /\ crashes \in 0..MaxCrashes

(* A host with a valid provisioned include, its table loaded or absent,    *)
(* and the runtime just installed: no transaction has ever run.            *)
Init ==
  /\ active = NoTx
  /\ dir = [t \in {} |-> NoTx]
  /\ claims = [c \in Claim |-> NoTx]
  /\ include \in Policy \ {NoTable}
  /\ runtime \in {include, NoTable}
  /\ timerEnabled = FALSE /\ timer = "inactive"
  /\ static \in Static
  /\ starts = 0
  /\ holder = NoProc /\ cur = NoTx
  /\ pc = [p \in Proc |-> "idle"]
  /\ request = [p \in Invocation |-> NoClaim]
  /\ failures = 0 /\ crashes = 0

-----------------------------------------------------------------------------
(* Processes, the lock, and systemd.                                       *)

At(p, step) == holder = p /\ pc[p] = step
Goto(p, step) == pc' = [pc EXCEPT ![p] = step]

(* What the running program is: the role's runs by their request; an apply *)
(* that undoes itself and the rollback service both roll back "watchdog".  *)
Asks(p, action) == p \in Invocation /\ request[p] \in Claim /\ ActionOf[request[p]] = action
Explicit(p) == Asks(p, "rollback")

(* The rollback unit's ActiveState as systemctl show prints it.            *)
RollbackQuiescent == pc[RollbackSvc] = "idle"
RollbackRunning == pc[RollbackSvc] \in Critical \union {"wait"}

(* Mutant of RollbackStartJob: one start more than StartLimitBurst.        *)
RollbackStartJobOffByOne(f) ==
  LET due == f[RollbackSvc] \in {"idle", "failed"} /\ active # NoTx
      allowed == due /\ starts <= StartLimitBurst
  IN /\ pc' = IF due
              THEN [f EXCEPT ![RollbackSvc] = IF allowed THEN "wait" ELSE "failed"]
              ELSE f
     /\ starts' = IF allowed THEN starts + 1 ELSE starts

(* A start job for the rollback service when the processes are at f:       *)
(* skipped without an active pointer (ConditionPathExists), merged with a  *)
(* run in progress or a pending restart, refused past the start limit.     *)
RollbackStartJob(f) ==
  LET due == f[RollbackSvc] \in {"idle", "failed"} /\ active # NoTx
  IN /\ pc' = IF due
              THEN [f EXCEPT ![RollbackSvc] =
                      IF starts < StartLimitBurst THEN "wait" ELSE "failed"]
              ELSE f
     /\ starts' = IF due /\ starts < StartLimitBurst THEN starts + 1 ELSE starts

Release(p) == /\ holder' = IF holder = p THEN NoProc ELSE holder
              /\ cur' = IF holder = p THEN NoTx ELSE cur

(* The program returns 0.                                                  *)
Succeed(p) ==
  /\ Release(p)
  /\ Goto(p, IF p \in Invocation THEN "done" ELSE "idle")
  /\ UNCHANGED starts

(* Mutant of Fail: the confirmation unit has no OnFailure=.                 *)
FailWithoutOnFailure(p) ==
  /\ Release(p)
  /\ Goto(p, IF p \in Invocation THEN "done"
             ELSE IF p = RollbackSvc THEN "restarting" ELSE "idle")
  /\ UNCHANGED starts

(* The program raises or dies: Restart=on-failure of the rollback service, *)
(* OnFailure= of the confirmation service.                                 *)
Fail(p) ==
  /\ Release(p)
  /\ \/ p \in Invocation /\ Goto(p, "done") /\ UNCHANGED starts
     \/ p = RollbackSvc /\ Goto(p, "restarting") /\ UNCHANGED starts
     \/ p = ConfirmSvc /\ RollbackStartJob([pc EXCEPT ![p] = "idle"])

(* Ansible starts one run of the program with a signed request.            *)
Submit(p, r) ==
  /\ pc[p] = "idle"
  /\ request' = [request EXCEPT ![p] = r]
  /\ Goto(p, "wait")
  /\ UNCHANGED <<durable, runtime, timer, starts, holder, cur, failures, crashes>>

Runs(p, step) ==
  \/ p = ConfirmSvc /\ step = "confirm"
  \/ (p = RollbackSvc \/ Explicit(p)) /\ step = "rollback"
  \/ Asks(p, "apply") /\ step = "apply"
  \/ Asks(p, "confirm") /\ step = "stage"
  \/ p \in Invocation /\ request[p] = Install /\ step = "install"

Acquire(p) ==
  /\ pc[p] = "wait" /\ holder = NoProc
  /\ holder' = p
  /\ \E step \in {"apply", "stage", "confirm", "rollback", "install"} :
       Runs(p, step) /\ Goto(p, step)
  /\ UNCHANGED <<durable, runtime, timer, starts, cur, request, failures, crashes>>

(* The bounded wait for the lock expires under another holder.             *)
LockTimeout(p) ==
  /\ pc[p] = "wait" /\ holder # NoProc
  /\ failures < MaxFailures /\ failures' = failures + 1
  /\ Fail(p)
  /\ UNCHANGED <<durable, runtime, timer, request, crashes>>

(* RestartSec elapses: the condition and the start limit apply again.      *)
RestartRollback ==
  /\ pc[RollbackSvc] = "restarting"
  /\ RollbackStartJob([pc EXCEPT ![RollbackSvc] = "idle"])
  /\ UNCHANGED <<durable, runtime, timer, holder, cur, request, failures, crashes>>

(* StartLimitIntervalSec elapses since the first counted start.            *)
StartLimitWindowEnds ==
  /\ starts > 0 /\ starts' = 0
  /\ UNCHANGED <<durable, runtime, timer, holder, cur, pc, request, failures, crashes>>

(* OnActiveSec elapses.  The timer stays active (elapsed) and will not     *)
(* fire again until it is stopped and started.                             *)
TimerFires ==
  /\ timer = "waiting" /\ timer' = "elapsed"
  /\ RollbackStartJob(pc)
  /\ UNCHANGED <<durable, runtime, holder, cur, request, failures, crashes>>

(* confirm.yml starts the confirmation service once staging returned 0;    *)
(* Before= makes the job wait for a running rollback job.                  *)
StartConfirmation(p) ==
  /\ p \in Invocation /\ pc[p] = "staged"
  /\ ~RollbackRunning
  /\ pc' = [pc EXCEPT ![p] = "done",
                      ![ConfirmSvc] = IF @ = "idle" /\ active # NoTx THEN "wait" ELSE @]
  /\ UNCHANGED <<durable, runtime, timer, starts, holder, cur, request, failures, crashes>>

-----------------------------------------------------------------------------
(* What the procedures check.                                              *)

Settled == {"confirmed", "rolledback"}
Outcome == IF active \in DOMAIN dir THEN dir[active].terminal ELSE "none"
Unspent(c) == claims[c] = NoTx

(* validate_metadata_and_assets with the static assets.                    *)
StaticUnchanged == dir[active].static = static

(* The administrator root as validate_root_include and nft --check find it:*)
(* what a boot loads, and what confirmation and every rollback insist on.  *)
RootUsable == static \in Including \intersect Loadable

(* The request's fields equal the metadata of the active transaction.      *)
Binds(c) == CandidateOf[c] = dir[active].candidate

(* A request for the active transaction that is still open to it.          *)
Admissible(c) == StaticUnchanged /\ Binds(c) /\ Unspent(c)

(* What confirm holds true both before and after stopping the watchdog.    *)
PendingUnchanged ==
  /\ StaticUnchanged /\ static \in Including
  /\ include = dir[active].persistentBackup
  /\ dir[active].request \in Claim
  /\ dir[active].verification = dir[active].request
  /\ Binds(dir[active].request)
  /\ runtime = dir[active].candidate

ConfirmationValid ==
  /\ PendingUnchanged
  /\ Unspent(dir[active].request)
  /\ dir[active].candidate \in Approved

(* The claim the holder is about to consume.                               *)
ClaimInUse(p) == IF p = ConfirmSvc THEN dir[cur].request ELSE request[p]

(* A check fails: the program raises and nothing has changed.              *)
Reject(p) ==
  /\ Fail(p)
  /\ UNCHANGED <<durable, runtime, timer, request, failures, crashes>>

(* The rest of the system stands still while p moves on to a step.         *)
Continue(p, step) ==
  /\ Goto(p, step)
  /\ UNCHANGED <<starts, holder, request, failures, crashes>>

-----------------------------------------------------------------------------
(* apply_transaction.                                                      *)

(* Mutant of MayApply: the receipt of the claim is not looked for.         *)
MayApplyAgain(p) == active = NoTx /\ static \in Including

MayApply(p) == active = NoTx /\ static \in Including /\ Unspent(request[p])

ApplyPrepare(p) ==
  /\ At(p, "apply")
  /\ IF MayApply(p)
     THEN \E t \in Tx \ DOMAIN dir :
            /\ cur' = t
            /\ dir' = [u \in DOMAIN dir \union {t} |->
                         IF u = t
                         THEN [candidate |-> CandidateOf[request[p]],
                               persistentBackup |-> include,
                               runtimeBackup |-> runtime,
                               static |-> static,
                               request |-> NoClaim, verification |-> NoClaim,
                               rollbackAuthorization |-> FALSE,
                               terminal |-> "none"]
                         ELSE dir[u]]
            /\ Continue(p, "claim")
            /\ UNCHANGED <<active, claims, include, timerEnabled, static, runtime, timer>>
     ELSE Reject(p)

ConsumeClaim(p, step, next) ==
  /\ At(p, step)
  /\ claims' = [claims EXCEPT ![ClaimInUse(p)] = cur]
  /\ Continue(p, next)
  /\ UNCHANGED <<active, dir, include, timerEnabled, static, runtime, timer, cur>>

WriteActive(p) ==
  /\ At(p, "activate")
  /\ active' = cur
  /\ Continue(p, "enable_timer")
  /\ UNCHANGED <<dir, claims, include, timerEnabled, static, runtime, timer, cur>>

(* systemctl enable --now: the boot link, then a start job, which does     *)
(* nothing to a timer that is already active.                              *)
EnableTimer(p) ==
  /\ At(p, "enable_timer")
  /\ timerEnabled' = TRUE
  /\ Continue(p, "start_timer")
  /\ UNCHANGED <<active, dir, claims, include, static, runtime, timer, cur>>

StartTimer(p) ==
  /\ At(p, "start_timer")
  /\ timer' = IF timer = "inactive" THEN "waiting" ELSE timer
  /\ Continue(p, "load")
  /\ UNCHANGED <<durable, runtime, cur>>

LoadCandidate(p) ==
  /\ At(p, "load")
  /\ runtime' = dir[cur].candidate
  /\ Continue(p, "verify")
  /\ UNCHANGED <<durable, timer, cur>>

VerifyCandidate(p) ==
  /\ At(p, "verify")
  /\ runtime = dir[cur].candidate
  /\ Succeed(p)
  /\ UNCHANGED <<durable, runtime, timer, request, failures, crashes>>

Apply(p) ==
  \/ ApplyPrepare(p) \/ ConsumeClaim(p, "claim", "activate") \/ WriteActive(p)
  \/ EnableTimer(p) \/ StartTimer(p) \/ LoadCandidate(p) \/ VerifyCandidate(p)

-----------------------------------------------------------------------------
(* stage_confirmation.                                                     *)

StageCheck(p) ==
  /\ At(p, "stage")
  /\ IF active \in Tx /\ Outcome = "none" /\ Admissible(request[p])
     THEN /\ cur' = active
          /\ Continue(p, "stage_request")
          /\ UNCHANGED <<durable, runtime, timer>>
     ELSE Reject(p)

(* Staging the same bytes again is accepted, any other are refused.        *)
StageRequest(p) ==
  /\ At(p, "stage_request")
  /\ IF dir[cur].request \in {NoClaim, request[p]}
     THEN /\ dir' = [dir EXCEPT ![cur].request = request[p]]
          /\ Continue(p, "stage_verification")
          /\ UNCHANGED <<active, claims, include, timerEnabled, static, runtime, timer, cur>>
     ELSE Reject(p)

StageVerification(p) ==
  /\ At(p, "stage_verification")
  /\ IF dir[cur].verification \in {NoClaim, request[p]}
     THEN /\ dir' = [dir EXCEPT ![cur].verification = request[p]]
          /\ holder' = NoProc /\ cur' = NoTx
          /\ Goto(p, "staged")
          /\ UNCHANGED <<active, claims, include, timerEnabled, static, runtime, timer,
                         starts, request, failures, crashes>>
     ELSE Reject(p)

Stage(p) == StageCheck(p) \/ StageRequest(p) \/ StageVerification(p)

-----------------------------------------------------------------------------
(* confirm_transaction.                                                    *)

ConfirmCheck(p) ==
  /\ At(p, "confirm")
  /\ IF RollbackQuiescent /\ active \in Tx
          /\ (Outcome = "confirmed" \/ (Outcome = "none" /\ ConfirmationValid))
     THEN /\ cur' = active
          /\ Continue(p, IF Outcome = "confirmed" THEN "disable_timer" ELSE "stop_timer")
          /\ UNCHANGED <<durable, runtime, timer>>
     ELSE Reject(p)

(* Mutant of StopTimer: disable --now where the code only stops.           *)
StopTimerDisabling(p) ==
  /\ At(p, "stop_timer")
  /\ timerEnabled' = FALSE /\ timer' = "inactive"
  /\ Continue(p, "recheck")
  /\ UNCHANGED <<active, dir, claims, include, static, runtime, cur>>

(* systemctl stop, not disable: a boot starts the timer again.             *)
StopTimer(p) ==
  /\ At(p, "stop_timer")
  /\ timer' = "inactive"
  /\ Continue(p, "recheck")
  /\ UNCHANGED <<durable, runtime, cur>>

(* Mutant of ConfirmRecheck: the claim is not consumed.                    *)
ConfirmRecheckWithoutClaim(p) ==
  /\ At(p, "recheck")
  /\ IF RollbackQuiescent /\ PendingUnchanged
     THEN /\ Continue(p, "persist")
          /\ UNCHANGED <<durable, runtime, timer, cur>>
     ELSE Reject(p)

ConfirmRecheck(p) ==
  /\ At(p, "recheck")
  /\ IF RollbackQuiescent /\ PendingUnchanged
     THEN /\ Continue(p, "confirm_claim")
          /\ UNCHANGED <<durable, runtime, timer, cur>>
     ELSE Reject(p)

(* Mutant of PersistCandidate: the include is left as it was.              *)
PersistNothing(p) ==
  /\ At(p, "persist")
  /\ Continue(p, "publish_confirmation")
  /\ UNCHANGED <<durable, runtime, timer, cur>>

PersistCandidate(p) ==
  /\ At(p, "persist")
  /\ include' = dir[cur].candidate
  /\ Continue(p, "publish_confirmation")
  /\ UNCHANGED <<active, dir, claims, timerEnabled, static, runtime, timer, cur>>

Publish(p, step, outcome) ==
  /\ At(p, step)
  /\ dir' = [dir EXCEPT ![cur].terminal = outcome]
  /\ Continue(p, "disable_timer")
  /\ UNCHANGED <<active, claims, include, timerEnabled, static, runtime, timer, cur>>

(* The root is checked with the new include before the record is written.  *)
PublishConfirmation(p) ==
  \/ static \in Loadable /\ Publish(p, "publish_confirmation", "confirmed")
  \/ At(p, "publish_confirmation") /\ static \notin Loadable /\ Reject(p)

Confirm(p) ==
  \/ ConfirmCheck(p) \/ StopTimer(p) \/ ConfirmRecheck(p)
  \/ ConsumeClaim(p, "confirm_claim", "persist") \/ PersistCandidate(p)
  \/ PublishConfirmation(p)

-----------------------------------------------------------------------------
(* rollback_locked.                                                        *)

(* Mutant of MayRollBack: static drift stops the watchdog too.             *)
MayRollBackUndrifted(p) ==
  StaticUnchanged /\ (Explicit(p) => Admissible(request[p]))

(* An explicit rollback refuses the drift that the watchdog tolerates.     *)
MayRollBack(p) == Explicit(p) => Admissible(request[p])

(* Mutant of RollbackCheck: the terminal record is not looked at.          *)
RollbackCheckIgnoringTerminal(p) ==
  /\ At(p, "rollback")
  /\ IF active \in Tx /\ MayRollBack(p)
     THEN /\ cur' = active
          /\ Continue(p, IF Explicit(p) THEN "rollback_authorization" ELSE "restore_include")
          /\ UNCHANGED <<durable, runtime, timer>>
     ELSE Reject(p)

RollbackCheck(p) ==
  /\ At(p, "rollback")
  /\ \/ /\ active = NoTx /\ ~Explicit(p)
        /\ Succeed(p)
        /\ UNCHANGED <<durable, runtime, timer, request, failures, crashes>>
     \/ /\ active \in Tx /\ Outcome \in Settled
        /\ cur' = active
        /\ Continue(p, "disable_timer")
        /\ UNCHANGED <<durable, runtime, timer>>
     \/ /\ active \in Tx /\ Outcome = "none" /\ MayRollBack(p)
        /\ cur' = active
        /\ Continue(p, IF Explicit(p) THEN "rollback_authorization" ELSE "restore_include")
        /\ UNCHANGED <<durable, runtime, timer>>
     \/ /\ \/ active = NoTx /\ Explicit(p)
           \/ active = TornTx
           \/ active \in Tx /\ Outcome = "torn"
           \/ active \in Tx /\ Outcome = "none" /\ ~MayRollBack(p)
        /\ Reject(p)

(* Written exclusively: a second explicit rollback of the transaction finds *)
(* the name taken, whether or not the first one did anything more.         *)
WriteRollbackAuthorization(p) ==
  /\ At(p, "rollback_authorization")
  /\ IF ~dir[cur].rollbackAuthorization
     THEN /\ dir' = [dir EXCEPT ![cur].rollbackAuthorization = TRUE]
          /\ Continue(p, "rollback_claim")
          /\ UNCHANGED <<active, claims, include, timerEnabled, static, runtime, timer, cur>>
     ELSE Reject(p)

(* Whoever rolls back, the watchdog too, needs the include in the root.    *)
RestoreInclude(p) ==
  /\ At(p, "restore_include")
  /\ IF static \in Including
     THEN /\ include' = dir[cur].persistentBackup
          /\ Continue(p, "restore_runtime")
          /\ UNCHANGED <<active, dir, claims, timerEnabled, static, runtime, timer, cur>>
     ELSE Reject(p)

(* Mutant of RestoreRuntime: a table absent before apply is not removed.   *)
RestoreRuntimeIfPresent(p) ==
  /\ At(p, "restore_runtime")
  /\ IF static \in Loadable
     THEN /\ runtime' = IF dir[cur].runtimeBackup = NoTable THEN runtime
                        ELSE dir[cur].runtimeBackup
          /\ Continue(p, "publish_rollback")
          /\ UNCHANGED <<durable, timer, cur>>
     ELSE Reject(p)

(* ... and a root that passes nft --check, before the table is put back.   *)
RestoreRuntime(p) ==
  /\ At(p, "restore_runtime")
  /\ IF static \in Loadable
     THEN /\ runtime' = dir[cur].runtimeBackup
          /\ Continue(p, "publish_rollback")
          /\ UNCHANGED <<durable, timer, cur>>
     ELSE Reject(p)

Rollback(p) ==
  \/ RollbackCheck(p) \/ WriteRollbackAuthorization(p)
  \/ ConsumeClaim(p, "rollback_claim", "restore_include")
  \/ RestoreInclude(p) \/ RestoreRuntime(p)
  \/ Publish(p, "publish_rollback", "rolledback")

-----------------------------------------------------------------------------
(* The end of every decided transaction: disable --now, then unlink.       *)

(* Mutant of DisableTimer: disable without --now leaves the timer running. *)
DisableTimerOnly(p) ==
  /\ At(p, "disable_timer")
  /\ timerEnabled' = FALSE
  /\ Continue(p, "clear")
  /\ UNCHANGED <<active, dir, claims, include, static, runtime, timer, cur>>

DisableTimer(p) ==
  /\ At(p, "disable_timer")
  /\ timerEnabled' = FALSE
  /\ Continue(p, "stop_watchdog")
  /\ UNCHANGED <<active, dir, claims, include, static, runtime, timer, cur>>

StopWatchdog(p) ==
  /\ At(p, "stop_watchdog")
  /\ timer' = "inactive"
  /\ Continue(p, "clear")
  /\ UNCHANGED <<durable, runtime, cur>>

ClearActive(p) ==
  /\ At(p, "clear")
  /\ active' = NoTx
  /\ Succeed(p)
  /\ UNCHANGED <<dir, claims, include, timerEnabled, static, runtime, timer,
                 request, failures, crashes>>

Finalize(p) == DisableTimer(p) \/ StopWatchdog(p) \/ ClearActive(p)

(* install_runtime replaces program and units between transactions only.   *)
InstallCheck(p) ==
  /\ At(p, "install")
  /\ IF active = NoTx
     THEN Continue(p, "replace_assets") /\ UNCHANGED <<durable, runtime, timer, cur>>
     ELSE Reject(p)

InstallReplace(p) ==
  /\ At(p, "replace_assets")
  /\ static' \in Static
  /\ Succeed(p)
  /\ UNCHANGED <<active, dir, claims, include, timerEnabled, runtime, timer,
                 request, failures, crashes>>

InstallRuntime(p) == InstallCheck(p) \/ InstallReplace(p)

-----------------------------------------------------------------------------
(* Failure.                                                                *)

(* The exclusive write p is at leaves nothing, or the name of a file whose *)
(* content never got there.                                                *)
Tear(p) ==
  LET at == IF holder = p THEN pc[p] ELSE "idle"
      tornClaim == at \in {"claim", "confirm_claim", "rollback_claim"}
      tornFile == CASE at = "stage_request" -> dir[cur].request = NoClaim
                    [] at = "stage_verification" -> dir[cur].verification = NoClaim
                    [] OTHER -> at \in {"rollback_authorization", "publish_confirmation",
                                        "publish_rollback"}
  IN \/ UNCHANGED <<active, dir, claims>>
     \/ /\ MayTear /\ at = "activate"
        /\ active' = TornTx /\ UNCHANGED <<dir, claims>>
     \/ /\ MayTear /\ tornClaim
        /\ claims' = [claims EXCEPT ![ClaimInUse(p)] = TornTx]
        /\ UNCHANGED <<active, dir>>
     \/ /\ MayTear /\ tornFile
        /\ dir' = [dir EXCEPT
             ![cur].request = IF at = "stage_request" THEN TornClaim ELSE @,
             ![cur].verification = IF at = "stage_verification" THEN TornClaim ELSE @,
             ![cur].rollbackAuthorization = @ \/ at = "rollback_authorization",
             ![cur].terminal = IF at \in {"publish_confirmation", "publish_rollback"}
                               THEN "torn" ELSE @]
        /\ UNCHANGED <<active, claims>>

(* A command fails or times out, a write fails, or the process is killed   *)
(* (TimeoutStartSec=, a lost host session).  An exception in the armed     *)
(* part of apply starts the rollback; being killed there does not.         *)
Abort(p) ==
  /\ holder = p
  /\ failures < MaxFailures /\ failures' = failures + 1
  /\ Tear(p)
  /\ \/ Fail(p)
     \/ /\ pc[p] \in Guarded
        /\ Goto(p, "rollback") /\ cur' = NoTx
        /\ UNCHANGED <<starts, holder>>
  /\ UNCHANGED <<include, timerEnabled, static, runtime, timer, request, crashes>>

(* Power loss and boot: nftables.service loads the root and with it the    *)
(* include, or nothing when the root is unusable; timers.target starts the *)
(* timer if it is enabled, and no service is started.                      *)
PowerLoss ==
  /\ crashes < MaxCrashes /\ crashes' = crashes + 1
  /\ IF holder = NoProc THEN UNCHANGED <<active, dir, claims>> ELSE Tear(holder)
  /\ runtime' = IF RootUsable THEN include ELSE NoTable
  /\ timer' = IF timerEnabled THEN "waiting" ELSE "inactive"
  /\ starts' = 0 /\ holder' = NoProc /\ cur' = NoTx
  /\ pc' = [p \in Proc |-> IF p \in Invocation /\ pc[p] # "idle" THEN "done" ELSE "idle"]
  /\ UNCHANGED <<include, timerEnabled, static, request, failures>>

(* The administrator edits a static asset, at any time.                    *)
Drift ==
  /\ static' \in Static \ {static}
  /\ UNCHANGED <<active, dir, claims, include, timerEnabled, runtime, timer, starts,
                 holder, cur, pc, request, failures, crashes>>

-----------------------------------------------------------------------------
Procedure(p) == \/ Acquire(p) \/ Apply(p) \/ Stage(p) \/ Confirm(p) \/ Rollback(p)
                \/ Finalize(p) \/ InstallRuntime(p)

Next ==
  \/ \E p \in Proc : Procedure(p) \/ LockTimeout(p) \/ Abort(p)
  \/ \E p \in Invocation : \/ \E r \in Claim \union {Install} : Submit(p, r)
                           \/ StartConfirmation(p)
  \/ RestartRollback \/ StartLimitWindowEnds \/ TimerFires
  \/ PowerLoss \/ Drift

Spec == Init /\ [][Next]_vars

(* A process that can move does, and systemd's timers run out.             *)
Fairness ==
  /\ \A p \in Proc : WF_vars(Procedure(p))
  /\ WF_vars(RestartRollback) /\ WF_vars(TimerFires)

FairSpec == Spec /\ Fairness

-----------------------------------------------------------------------------
(* Safety.                                                                 *)

(* The boot-time include never holds a candidate whose confirmation is not *)
(* published unless the active pointer names it and the watchdog is        *)
(* enabled, so that whatever happens the next boot finds it and undoes it. *)
UndecidedIncludeIsGuarded ==
  \A t \in DOMAIN dir :
    (active = t /\ dir[t].terminal # "confirmed" /\ include # dir[t].persistentBackup)
      => timerEnabled

(* Without an active transaction there is no watchdog, enabled or running: *)
(* the enable --now of the next apply really starts a fresh timeout.       *)
IdleIsDisarmed == active = NoTx => (~timerEnabled /\ timer = "inactive")

(* There has been a boot and the table is absent, as a boot through an     *)
(* unusable root leaves it.                                                *)
BootedBare == crashes > 0 /\ runtime = NoTable

(* A published outcome is the whole truth: confirmed means the candidate   *)
(* is what a boot loads and what runs, rolled back means the include is    *)
(* the snapshot and the table is the snapshot or what a boot made of it.   *)
PublishedOutcomeIsInForce ==
  \A t \in DOMAIN dir : active = t =>
    /\ dir[t].terminal = "confirmed" =>
         /\ include = dir[t].candidate
         /\ runtime = dir[t].candidate \/ BootedBare
    /\ dir[t].terminal = "rolledback" =>
         /\ include = dir[t].persistentBackup
         /\ runtime \in {dir[t].runtimeBackup, include} \/ BootedBare

(* Every transaction that became active, and every confirmation, has spent *)
(* a claim for its own action and candidate, written before it took effect.*)
EffectsAreAuthorized ==
  /\ \A t \in DOMAIN dir : active = t =>
       \E c \in Claim : /\ claims[c] = t /\ ActionOf[c] = "apply"
                        /\ CandidateOf[c] = dir[t].candidate
  /\ \A t \in DOMAIN dir : dir[t].terminal = "confirmed" =>
       \E c \in Claim : /\ claims[c] = t /\ ActionOf[c] = "confirm"
                        /\ CandidateOf[c] = dir[t].candidate

(* A transaction is undecided until its terminal record can be read.       *)
Undecided == active \in DOMAIN dir /\ Outcome \notin Settled

(* A candidate that has changed the include or the running table, and is   *)
(* not decided.                                                            *)
Effective ==
  /\ Undecided
  /\ \/ include # dir[active].persistentBackup
     \/ runtime \notin {dir[active].persistentBackup, dir[active].runtimeBackup, NoTable}

(* Such a candidate is never left alone: the watchdog still waits, or the  *)
(* rollback service has been started and not come to rest (or its start    *)
(* limit has refused it), or the confirmation that stopped the watchdog is *)
(* still inside; whoever fails or is killed, and at every boot.            *)
UndecidedIsAttended ==
  Effective =>
    \/ timer = "waiting" \/ pc[RollbackSvc] # "idle"
    \/ pc[ConfirmSvc] \in {"recheck", "confirm_claim", "persist", "publish_confirmation"}

(* No exclusive write of a claim, the pointer or the terminal record finds *)
(* its name taken, by whatever runs, torn writes and kills have left: what *)
(* the checks under the lock have established holds until the write, so no *)
(* run fails half-way of its own doing.  The one exclusive write that may  *)
(* find its name taken is the authorization of a repeated explicit         *)
(* rollback, which is the first effect of its run.                         *)
ExclusiveWritesAreNew ==
  holder # NoProc =>
    /\ pc[holder] \in {"claim", "confirm_claim", "rollback_claim"} => Unspent(ClaimInUse(holder))
    /\ pc[holder] = "activate" => active = NoTx
    /\ pc[holder] \in {"publish_confirmation", "publish_rollback"} => dir[cur].terminal = "none"

(* A signed authorization takes effect once: its receipt, be it torn, is   *)
(* never rewritten, neither by a repeated run nor for another transaction. *)
ClaimsAreSpentOnce ==
  [][\A c \in Claim : ~Unspent(c) => claims'[c] = claims[c]]_vars

(* Once a confirmation is published no rollback, late or retried, touches  *)
(* the include or the running table of that transaction: only a boot makes *)
(* the table anew.                                                         *)
NoUndoAfterConfirmation ==
  [][\A t \in DOMAIN dir :
       (active = t /\ dir[t].terminal = "confirmed") =>
         /\ include' = include
         /\ \/ runtime' = runtime
            \/ crashes' > crashes /\ runtime' \in {include, NoTable}]_vars

(* A candidate new to this host that runs as an undecided transaction.     *)
InForce(t) ==
  /\ t \in DOMAIN dir /\ active = t /\ runtime = dir[t].candidate
  /\ dir[t].candidate \notin {dir[t].persistentBackup, dir[t].runtimeBackup}
  /\ dir[t].terminal \in {"none", "torn"}

(* Liveness: such a candidate does not stay undecided, through failures,   *)
(* kills, a power loss and drift of the static assets: it is confirmed or  *)
(* rolled back, unless the start limit has refused the rollback service.   *)
(* The premise is the code's own: every rollback insists on a usable root, *)
(* so the promise is made to an administrator who leaves the root usable   *)
(* or repairs it in the end.                                               *)
UndecidedCandidateIsSettled ==
  <>[]RootUsable =>
    \A t \in Tx : InForce(t) ~> \/ t \in DOMAIN dir /\ dir[t].terminal \in Settled
                               \/ pc[RollbackSvc] = "failed"

-----------------------------------------------------------------------------
(* Refinement: until a transaction is decided the settled policy is the one *)
(* in its snapshot.                                                        *)
Promise == INSTANCE FirewallOutcome WITH
  settled  <- IF Undecided THEN dir[active].persistentBackup ELSE include,
  pending  <- active,
  proposal <- IF active \in DOMAIN dir THEN dir[active].candidate ELSE NoTable,
  outcome  <- [t \in Tx |-> IF t \in DOMAIN dir /\ dir[t].terminal \in Settled
                            THEN dir[t].terminal ELSE "none"]

(* The program keeps the promise: every step is a step of FirewallOutcome  *)
(* or leaves it alone, through failures, kills and power losses.           *)
KeepsPromise == Promise!Spec
=============================================================================
