--------------------------- MODULE FirewallOutcome ---------------------------
(***************************************************************************)
(* What the firewall transaction promises its operator, without locks,     *)
(* services, files or failures: a host has one settled policy, the one     *)
(* its next boot may rely on; at most one transaction is pending, with one *)
(* proposal; it is decided once, and only a confirmation changes what is   *)
(* settled; the pointer goes away only after the decision.                 *)
(***************************************************************************)
CONSTANTS Tx, NoTx, TornTx, Policy, NoTable

VARIABLES
  settled,   \* the policy decided last
  pending,   \* the open transaction; TornTx: a pointer nobody can read
  proposal,  \* the candidate of the open transaction
  outcome    \* the decision on every transaction so far

vars == <<settled, pending, proposal, outcome>>

Init ==
  /\ settled \in Policy \ {NoTable}
  /\ pending = NoTx /\ proposal = NoTable
  /\ outcome = [t \in Tx |-> "none"]

Begin(t, c) ==
  /\ pending = NoTx /\ outcome[t] = "none"
  /\ pending' = t /\ proposal' = c
  /\ UNCHANGED <<settled, outcome>>

(* Power was lost while the pointer was written: nothing begins any more.  *)
Wedge ==
  /\ pending = NoTx /\ pending' = TornTx
  /\ UNCHANGED <<settled, proposal, outcome>>

Open == pending \in Tx /\ outcome[pending] = "none"

Confirm ==
  /\ Open
  /\ outcome' = [outcome EXCEPT ![pending] = "confirmed"]
  /\ settled' = proposal
  /\ UNCHANGED <<pending, proposal>>

RollBack ==
  /\ Open
  /\ outcome' = [outcome EXCEPT ![pending] = "rolledback"]
  /\ UNCHANGED <<settled, pending, proposal>>

Close ==
  /\ pending \in Tx /\ outcome[pending] # "none"
  /\ pending' = NoTx /\ proposal' = NoTable
  /\ UNCHANGED <<settled, outcome>>

Next == \/ \E t \in Tx, c \in Policy \ {NoTable} : Begin(t, c)
        \/ Wedge \/ Confirm \/ RollBack \/ Close

Spec == Init /\ [][Next]_vars
==============================================================================
