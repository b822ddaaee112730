------------------------ MODULE FirewallBudgetsProofs ------------------------
(* The budgets keep every run below its expiry in every configuration that *)
(* validate_shape accepts.                                                 *)
EXTENDS FirewallBudgets, TLAPS

(* Every accepted configuration leaves each action a positive budget (with *)
(* none, command_deadline_until refuses the run), and a rollback at least  *)
(* one command at its full timeout.                                        *)
LEMMA BudgetBounds ==
  /\ RollbackBudget \in Nat /\ RollbackBudget >= CommandTimeout + 5
  /\ \A act \in Action : /\ TransactionBudget(act) \in Nat \ {0}
                         /\ TransactionBudget(act) <= WatchdogTimeout - SafetyMargin
  /\ TransactionBudget("apply") + RollbackBudget = WatchdogTimeout - SafetyMargin
<1>1. RollbackBudget \in Nat /\ RollbackBudget >= CommandTimeout + 5
        /\ RollbackBudget + SafetyMargin < WatchdogTimeout
  BY ShapeAssumption DEF RollbackBudget, GreatestOf, LeastOf, SafetyMargin
<1>2. QED
  BY <1>1, ShapeAssumption DEF TransactionBudget, Action, SafetyMargin

(* What is left of the expiry at every moment of a run: an apply that has  *)
(* not failed still has the whole rollback budget in hand.                 *)
BudgetInv ==
  /\ TypeOK
  /\ expiry >= WatchdogTimeout
  /\ phase = "wait" => /\ overrun = 0 /\ now <= deadline
                       /\ deadline = TransactionBudget(action)
  /\ phase = "run" => /\ deadline = TransactionBudget(action)
                      /\ now <= deadline + overrun
  /\ phase = "undo" => /\ action = "apply"
                       /\ deadline <= WatchdogTimeout - SafetyMargin + overrun
  /\ now <= WatchdogTimeout - SafetyMargin + overrun

LEMMA InitBudget == Init => BudgetInv
  BY BudgetBounds, ShapeAssumption
  DEF Init, BudgetInv, TypeOK, SafetyMargin, Action

LEMMA StepBudget == BudgetInv /\ [Next]_vars => BudgetInv'
<1>. SUFFICES ASSUME BudgetInv, [Next]_vars PROVE BudgetInv'
  OBVIOUS
<1>. USE BudgetBounds, ShapeAssumption DEF BudgetInv, TypeOK, SafetyMargin, Action
<1>1. TransactionBudget(action) \in Nat /\ TransactionBudget(action) <= WatchdogTimeout - 5
  OBVIOUS
<1>2. ASSUME NEW d \in Duration, Wait(d) PROVE BudgetInv'
  BY <1>1, <1>2 DEF Wait, Duration, LeastOf
<1>3. ASSUME NEW d \in Duration, Command(d) PROVE BudgetInv'
  BY <1>1, <1>3 DEF Command, Fail, Duration, LeastOf
<1>4. ASSUME NEW d \in Duration, NEW e \in 0..d, Arm(d, e) PROVE BudgetInv'
  BY <1>1, <1>4 DEF Arm, Fail, Duration, LeastOf
<1>5. ASSUME NEW d \in Duration, Work(d) PROVE BudgetInv'
  BY <1>1, <1>5 DEF Work, Duration, GreatestOf
<1>6. CASE Expire
  BY <1>1, <1>6 DEF Expire, Fail
<1>7. CASE Finish
  BY <1>1, <1>7 DEF Finish
<1>8. CASE UNCHANGED vars
  BY <1>8 DEF vars
<1>9. QED
  BY <1>2, <1>3, <1>4, <1>5, <1>6, <1>7, <1>8 DEF Next

(* The budget arithmetic, for every accepted configuration.                *)
THEOREM BudgetInvariant == Spec => []BudgetInv
<1>1. QED
  BY InitBudget, StepBudget, PTL DEF Spec

(* A run of the program, a failed apply with its own rollback included, is *)
(* over before the watchdog or systemd would interrupt it.                 *)
THEOREM RunsEndBeforeExpiry == Spec => []EndsBeforeExpiry
<1>1. BudgetInv => EndsBeforeExpiry
  BY ShapeAssumption DEF BudgetInv, TypeOK, EndsBeforeExpiry, SafetyMargin
<1>2. QED
  BY <1>1, BudgetInvariant, PTL

(* Every duration stays a count of whole seconds, overrun in its bound.    *)
THEOREM TypeCorrectness == Spec => []TypeOK
<1>1. BudgetInv => TypeOK
  BY DEF BudgetInv
<1>2. QED
  BY <1>1, BudgetInvariant, PTL
=============================================================================
