------------------------------- MODULE MCOpenSSH -------------------------------
(* OpenSSHTransaction on small instances, and what its documents say.      *)
EXTENDS OpenSSHInvariant, TLC

CONSTANTS i1, i2, i3, t1, t2, old, new1, new2, r1, r2

MCCandidateOf == [t \in Tx |-> IF t = t1 THEN new1 ELSE new2]

Interchangeable == Permutations(Invocation) \union Permutations(Rest)

(* Liveness cannot use SYMMETRY: interchangeable runs start in one order,  *)
(* and take the interchangeable identifiers in one order.                  *)
InOrder ==
  /\ pc[i1] = "idle" => pc'[i2] = "idle"
  /\ pc'[i1] # "idle" => request'[i1].tx = t1

LiveSpec == /\ Init /\ conf = [target |-> old, rest |-> r1]
            /\ [][Next /\ InOrder]_vars
            /\ Fairness

-----------------------------------------------------------------------------
(* A rollback that fails is repeated until it succeeds ("Retry even after  *)
(* a partial rollback", transaction.py; "its service retries failed        *)
(* rollback", roles/openssh_server/README.md).                             *)
PartialRollbackIsRetried ==
  \A t \in Tx : UndecidedOnDisk(t) ~> ~(Pending(record) /\ record.tx = t)
================================================================================
