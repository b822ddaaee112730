------------------------------ MODULE MCFirewall ------------------------------
(* FirewallTransaction on small instances: which claims have been signed,  *)
(* for which action and which candidate.                                   *)
EXTENDS FirewallInvariant, TLC

CONSTANTS i1, i2, i3, t1, t2, t3, a1, a2, c1, c2, r1, base, p1, p2, d1, d2, d3

MCActionOf == [c \in Claim |-> CASE c \in {a1, a2} -> "apply"
                                 [] c \in {c1, c2} -> "confirm"
                                 [] c = r1 -> "rollback"]
MCCandidateOf == [c \in Claim |-> IF c \in {a2, c2} THEN p2 ELSE p1]

Interchangeable == Permutations(Invocation) \union Permutations(Tx)

(* Liveness cannot use SYMMETRY; taking the interchangeable invocations    *)
(* and transaction ids in one order is the same reduction.                 *)
InOrder ==
  /\ (pc[i1] = "idle" => pc'[i2] = "idle")
  /\ (t2 \in DOMAIN dir' => t1 \in DOMAIN dir')

(* The runs start where no candidate is provisioned already; the ones for  *)
(* liveness with the assets the role has installed and the table loaded.   *)
NewCandidatesSpec == Init /\ include = base /\ [][Next]_vars

LiveSpec == /\ Init /\ include = base /\ runtime = base /\ static = d1
            /\ [][Next /\ InOrder]_vars
            /\ Fairness

-----------------------------------------------------------------------------
(* What the repository says of the watchdog, and the code does not do.     *)

(* An undecided candidate does not stay in force for ever, power losses    *)
(* included: either it is decided or the table is put back ("Rollback      *)
(* unconfirmed lit host firewall transaction after timeout",               *)
(* rollback.timer.j2).                                                     *)
UnconfirmedIsRolledBack == \A t \in Tx : InForce(t) ~> ~InForce(t)
===============================================================================
