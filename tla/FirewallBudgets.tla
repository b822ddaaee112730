--------------------------- MODULE FirewallBudgets ---------------------------
(***************************************************************************)
(* The durations of one run of the firewall transaction program: the       *)
(* action's budget, the bounded lock wait, the per-command timeout, the    *)
(* separate budget of the rollback inside a failed apply, and the expiry   *)
(* they must all stay below.  That expiry is the watchdog for apply        *)
(* (OnActiveSec=, from the moment the timer was started) and systemd's     *)
(* TimeoutStartSec= for the two services; all three are the same setting.  *)
(*                                                                         *)
(* Time is counted in seconds from the start of the run.  Commands end by  *)
(* the deadline because their timeout is cut to what remains; the          *)
(* program's own work between commands has no timeout and is charged to    *)
(* overrun when it lasts beyond the deadline.                              *)
(***************************************************************************)
EXTENDS Integers

CONSTANTS
  WatchdogTimeout, CommandTimeout, LockWaitTimeout,  \* the configuration
  MaxOverrun  \* bound: seconds of the program's own work past a deadline

SafetyMargin == 5

(* RuntimeConfig.validate_shape, and work that stays within the margin.    *)
ASSUME ShapeAssumption ==
  /\ WatchdogTimeout \in 60..900
  /\ CommandTimeout \in 5..60
  /\ LockWaitTimeout \in 1..60
  /\ CommandTimeout * 2 + 5 < WatchdogTimeout
  /\ LockWaitTimeout + 5 < WatchdogTimeout
  /\ MaxOverrun \in 0..(SafetyMargin - 1)

LeastOf(a, b) == IF a <= b THEN a ELSE b
GreatestOf(a, b) == IF a >= b THEN a ELSE b

(* Mutant of RollbackBudget: a flat minute, whatever the watchdog timeout.  *)
FlatRollbackBudget == GreatestOf(CommandTimeout + 5, 60)

RollbackBudget == GreatestOf(CommandTimeout + 5, LeastOf(60, WatchdogTimeout \div 3))

(* Mutant of TransactionBudget: an apply may use the rollback's share too. *)
BudgetWithoutReserve(action) ==
  IF action = "watchdog-rollback" THEN RollbackBudget ELSE WatchdogTimeout - SafetyMargin

TransactionBudget(action) ==
  IF action = "apply" THEN WatchdogTimeout - RollbackBudget - SafetyMargin
  ELSE IF action = "watchdog-rollback" THEN RollbackBudget
  ELSE WatchdogTimeout - SafetyMargin

Action == {"apply", "confirm", "watchdog-rollback"}

VARIABLES
  action,    \* what the run does
  phase,     \* waiting for the lock, running, undoing a failed apply, over
  now,       \* seconds since the run started
  deadline,  \* the command deadline in force
  armed,     \* an expiry is running: always for a service, later for apply
  expiry,    \* when it falls due
  overrun    \* seconds of own work past a deadline so far

vars == <<action, phase, now, deadline, armed, expiry, overrun>>

(* Types; every duration is a count of whole seconds.                      *)
TypeOK ==
  /\ action \in Action
  /\ phase \in {"wait", "run", "undo", "done"}
  /\ now \in Nat /\ deadline \in Nat /\ expiry \in Nat
  /\ armed \in BOOLEAN
  /\ overrun \in 0..MaxOverrun

Init ==
  /\ action \in Action
  /\ phase = "wait" /\ now = 0
  /\ deadline = TransactionBudget(action)
  /\ armed = (action # "apply") /\ expiry = WatchdogTimeout
  /\ overrun = 0

(* The lock is polled until its own timeout or the deadline, whichever     *)
(* comes first, and refused when the deadline has passed.                  *)
Wait(d) ==
  /\ phase = "wait"
  /\ now + d <= LeastOf(LockWaitTimeout, deadline)
  /\ now' = now + d
  /\ phase' \in (IF now' < deadline THEN {"run", "done"} ELSE {"done"})
  /\ UNCHANGED <<action, deadline, armed, expiry, overrun>>

(* An exception: the armed part of apply undoes itself with a fresh budget.*)
Fail ==
  IF phase = "run" /\ action = "apply" /\ armed'
  THEN phase' = "undo" /\ deadline' = now' + RollbackBudget
  ELSE phase' = "done" /\ UNCHANGED deadline

(* A command takes d seconds, at most its timeout and what remains.        *)
Command(d) ==
  /\ phase \in {"run", "undo"} /\ now < deadline
  /\ d <= LeastOf(CommandTimeout, deadline - now)
  /\ now' = now + d
  /\ UNCHANGED <<armed, expiry>>
  /\ UNCHANGED <<phase, deadline>> \/ Fail
  /\ UNCHANGED <<action, overrun>>

(* The command of apply that starts the watchdog timer, which may happen   *)
(* at any moment e of the command's d seconds, even if the command fails.  *)
Arm(d, e) ==
  /\ phase = "run" /\ action = "apply" /\ ~armed /\ now < deadline
  /\ d <= LeastOf(CommandTimeout, deadline - now) /\ e <= d
  /\ now' = now + d
  /\ armed' = TRUE /\ expiry' = now + e + WatchdogTimeout
  /\ UNCHANGED <<phase, deadline>> \/ Fail
  /\ UNCHANGED <<action, overrun>>

(* The program's own work between commands.                                *)
Work(d) ==
  /\ phase \in {"run", "undo"}
  /\ now' = now + d
  /\ overrun' = overrun + GreatestOf(0, now' - GreatestOf(now, deadline))
  /\ overrun' <= MaxOverrun
  /\ UNCHANGED <<action, phase, deadline, armed, expiry>>

(* run_command refuses to start once the deadline has passed.              *)
Expire ==
  /\ phase \in {"run", "undo"} /\ now >= deadline
  /\ UNCHANGED <<action, now, armed, expiry, overrun>>
  /\ Fail

Finish ==
  /\ phase \in {"run", "undo"} /\ phase' = "done"
  /\ UNCHANGED <<action, now, deadline, armed, expiry, overrun>>

Duration == 0..WatchdogTimeout

Next ==
  \/ \E d \in Duration : Wait(d) \/ Command(d) \/ Work(d) \/ \E e \in 0..d : Arm(d, e)
  \/ Expire \/ Finish

Spec == Init /\ [][Next]_vars

(* Whatever its commands, waits and failures take, a run is over before    *)
(* the watchdog falls due (apply, its own rollback included) and before    *)
(* systemd kills it (the services).                                        *)
EndsBeforeExpiry == armed => now < expiry
=============================================================================
