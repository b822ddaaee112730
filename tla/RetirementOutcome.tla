--------------------------- MODULE RetirementOutcome ---------------------------
(***************************************************************************)
(* What the guarded retirement promises the operator who may be locked     *)
(* out, without lock, timer, service, files or failures: one transaction   *)
(* is open at a time; while it is, the drop-in on disk and the one the     *)
(* listeners run with are the settled one or its candidate, and nothing    *)
(* else; it is closed by one decision, with disk and listeners already as  *)
(* decided; what a roll back settles is what was settled before it opened; *)
(* and while none is open nothing moves.                                   *)
(***************************************************************************)
CONSTANTS Tx, NoTx, Target, None, CandidateOf

VARIABLES
  settled,  \* the drop-in decided last
  open,     \* the transaction under way
  disk,     \* the drop-in on disk
  heard     \* the one the listeners run with; None: no listener

vars == <<settled, open, disk, heard>>

Init ==
  /\ settled \in Target /\ disk = settled /\ heard = settled
  /\ open = NoTx

Begin(t) ==
  /\ open = NoTx /\ CandidateOf[t] # settled
  /\ open' = t
  /\ UNCHANGED <<settled, disk, heard>>

Work ==
  /\ open \in Tx
  /\ disk' \in {settled, CandidateOf[open]}
  /\ heard' \in {settled, CandidateOf[open], None}
  /\ UNCHANGED <<settled, open>>

Close(decided) ==
  /\ open \in Tx /\ disk = decided /\ heard = decided
  /\ open' = NoTx /\ settled' = decided
  /\ UNCHANGED <<disk, heard>>

Confirm == Close(CandidateOf[open])
RollBack == Close(settled)

Next == (\E t \in Tx : Begin(t)) \/ Work \/ Confirm \/ RollBack

Spec == Init /\ [][Next]_vars
================================================================================
