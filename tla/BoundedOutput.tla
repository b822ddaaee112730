----------------------------- MODULE BoundedOutput -----------------------------
(***************************************************************************)
(* git_output of scripts/materialize-exact-revision-review.py with a byte  *)
(* limit: a child writes two pipes, the parent reads both without blocking *)
(* until both are at their end, under one deadline.                        *)
(*                                                                         *)
(* Bytes are counted, not represented: the n-th byte read is the n-th      *)
(* byte written.                                                           *)
(***************************************************************************)
EXTENDS Naturals

CONSTANTS
  MaxBytes,   \* max_bytes, exclusive: output of this length is refused
  ReadSize,   \* the largest single read, and the cap of the kept stderr
  PipeSize,   \* capacity of a pipe
  MaxWrite    \* bound: bytes the child writes to each stream

ASSUME SizesAssumption ==
  /\ MaxBytes \in Nat \ {0} /\ ReadSize \in Nat \ {0}
  /\ PipeSize \in Nat \ {0} /\ MaxWrite \in Nat

Stream == {"stdout", "stderr"}

VARIABLES
  child,       \* "none", "running", "exited" or "killed"
  code,        \* its exit status, once it has one
  writing,     \* the stream the child is in a write to, or "none"
  written,     \* bytes written to each stream
  open,        \* the streams whose writing end is open
  taken,       \* bytes the parent has read of each stream
  kept,        \* bytes the parent keeps of each stream
  registered,  \* the streams of the selector
  ready,       \* what select returned and is not handled yet
  exceeded,    \* limit_exceeded
  expired,     \* the deadline has passed
  pc, result

childVars == <<writing, written, open>>
parentVars == <<taken, kept, registered, ready, exceeded>>
vars == <<child, code, writing, written, open, taken, kept, registered, ready, exceeded,
          expired, pc, result>>

Result == {"none", "ok", "limit", "timeout", "failed", "error"}

(* Types.                                                                  *)
TypeOK ==
  /\ child \in {"none", "running", "exited", "killed"}
  /\ code \in {"none", "zero", "nonzero"}
  /\ writing \in Stream \union {"none"}
  /\ written \in [Stream -> 0..MaxWrite] /\ open \subseteq Stream
  /\ taken \in [Stream -> 0..MaxWrite] /\ kept \in [Stream -> 0..MaxWrite]
  /\ registered \subseteq Stream /\ ready \subseteq Stream
  /\ exceeded \in BOOLEAN /\ expired \in BOOLEAN
  /\ pc \in {"start", "loop", "read", "wait", "finally", "done"}
  /\ result \in Result

Init ==
  /\ child = "none" /\ code = "none"
  /\ writing = "none" /\ written = [s \in Stream |-> 0] /\ open = {}
  /\ taken = [s \in Stream |-> 0] /\ kept = [s \in Stream |-> 0]
  /\ registered = {} /\ ready = {} /\ exceeded = FALSE /\ expired = FALSE
  /\ pc = "start" /\ result = "none"

-----------------------------------------------------------------------------
(* The child and the clock.                                                *)

InPipe(s) == written[s] - taken[s]

(* A write blocks the child while the pipe is full.                        *)
BeginWrite(s) ==
  /\ child = "running" /\ writing = "none" /\ s \in open
  /\ written[s] < MaxWrite /\ writing' = s
  /\ UNCHANGED <<child, code, written, open, parentVars, expired, pc, result>>

Write(s) ==
  /\ child = "running" /\ writing = s /\ writing' = "none"
  /\ \E n \in 1..(PipeSize - InPipe(s)) :
       /\ written[s] + n <= MaxWrite
       /\ written' = [written EXCEPT ![s] = @ + n]
  /\ UNCHANGED <<child, code, open, parentVars, expired, pc, result>>

CloseStream(s) ==
  /\ child = "running" /\ writing = "none" /\ s \in open
  /\ open' = open \ {s}
  /\ UNCHANGED <<child, code, writing, written, parentVars, expired, pc, result>>

Exit ==
  /\ child = "running" /\ writing = "none"
  /\ child' = "exited" /\ code' \in {"zero", "nonzero"} /\ open' = {}
  /\ UNCHANGED <<writing, written, parentVars, expired, pc, result>>

Expire ==
  /\ ~expired /\ pc # "start" /\ expired' = TRUE
  /\ UNCHANGED <<child, code, childVars, parentVars, pc, result>>

-----------------------------------------------------------------------------
(* The parent.                                                             *)

Lesser(a, b) == IF a <= b THEN a ELSE b

(* Killing an exited child changes nothing.                                *)
Kill ==
  IF child = "running"
  THEN child' = "killed" /\ code' = "nonzero" /\ open' = {}
  ELSE UNCHANGED <<child, code, open>>

Start ==
  /\ pc = "start" /\ pc' = "loop"
  /\ child' = "running" /\ open' = Stream /\ registered' = Stream
  /\ UNCHANGED <<code, writing, written, taken, kept, ready, exceeded, expired, result>>

StartFails ==
  /\ pc = "start" /\ pc' = "done" /\ result' = "failed"
  /\ UNCHANGED <<child, code, childVars, parentVars, expired>>

Readable == {s \in registered : InPipe(s) > 0 \/ s \notin open}

Select ==
  /\ pc = "loop" /\ ~expired /\ Readable # {}
  /\ ready' = Readable /\ pc' = "read"
  /\ UNCHANGED <<child, code, childVars, taken, kept, registered, exceeded,
                 expired, result>>

EndOfLoop ==
  /\ pc = "loop" /\ registered = {} /\ pc' = "wait"
  /\ UNCHANGED <<child, code, childVars, parentVars, expired, result>>

(* Mutant of RoomFor: max_bytes taken for an inclusive limit.              *)
RoomForInclusive(s) ==
  IF s = "stdout" THEN MaxBytes - kept[s] ELSE ReadSize - kept[s]

(* remaining_allowed, and what the kept stderr may still grow by.          *)
RoomFor(s) ==
  IF s = "stdout" THEN MaxBytes - 1 - kept[s] ELSE ReadSize - kept[s]

(* Mutant of AskFor: no sentinel, so a full buffer asks for nothing.       *)
AskForAllowed(s) == IF s = "stdout" THEN Lesser(ReadSize, RoomFor(s)) ELSE ReadSize

(* stdout asks for one sentinel byte beyond what it may keep.              *)
AskFor(s) == IF s = "stdout" THEN Lesser(ReadSize, RoomFor(s) + 1) ELSE ReadSize

(* Back to the loop when every event of this select is handled.            *)
Handled(s) ==
  /\ ready' = ready \ {s}
  /\ pc' = IF ready = {s} THEN "loop" ELSE "read"

(* Mutant of ReadEnd: the first stream at its end stops the reading.       *)
ReadEndOfBoth(s) ==
  /\ pc = "read" /\ s \in ready /\ InPipe(s) = 0 /\ s \notin open
  /\ registered' = {} /\ Handled(s)
  /\ UNCHANGED <<child, code, childVars, taken, kept, exceeded, expired, result>>

ReadEnd(s) ==
  /\ pc = "read" /\ s \in ready /\ InPipe(s) = 0 /\ s \notin open
  /\ registered' = registered \ {s} /\ Handled(s)
  /\ UNCHANGED <<child, code, childVars, taken, kept, exceeded, expired, result>>

(* Mutant of ReadData: stderr is left alone until stdout is at its end.    *)
ReadDataInOrder(s) ==
  /\ pc = "read" /\ s \in ready /\ InPipe(s) > 0
  /\ LET n == IF s = "stderr" /\ "stdout" \in registered
              THEN 0 ELSE Lesser(InPipe(s), AskFor(s))
         over == s = "stdout" /\ n > RoomFor(s)
     IN /\ taken' = [taken EXCEPT ![s] = @ + n]
        /\ kept' = [kept EXCEPT ![s] = @ + Lesser(n, RoomFor(s))]
        /\ exceeded' = (exceeded \/ over)
        /\ IF over THEN Kill ELSE UNCHANGED <<child, code, open>>
  /\ Handled(s)
  /\ UNCHANGED <<writing, written, registered, expired, result>>

ReadData(s) ==
  /\ pc = "read" /\ s \in ready /\ InPipe(s) > 0
  /\ LET n == Lesser(InPipe(s), AskFor(s))
         over == s = "stdout" /\ n > RoomFor(s)
     IN /\ taken' = [taken EXCEPT ![s] = @ + n]
        /\ kept' = [kept EXCEPT ![s] = @ + Lesser(n, RoomFor(s))]
        /\ exceeded' = (exceeded \/ over)
        /\ IF over THEN Kill ELSE UNCHANGED <<child, code, open>>
  /\ Handled(s)
  /\ UNCHANGED <<writing, written, registered, expired, result>>

(* Any other exception of a read.                                          *)
ReadFails ==
  /\ pc = "read" /\ pc' = "finally" /\ result' = "error"
  /\ UNCHANGED <<child, code, childVars, parentVars, expired>>

TimedOut == Kill /\ pc' = "finally" /\ result' = "timeout"

LoopTimeout ==
  /\ pc = "loop" /\ registered # {} /\ expired /\ TimedOut
  /\ UNCHANGED <<writing, written, parentVars, expired>>

(* Mutant of WaitTimeout: the last wait has no timeout.                    *)
WaitForEver ==
  /\ pc = "wait" /\ expired /\ child # "running" /\ TimedOut
  /\ UNCHANGED <<writing, written, parentVars, expired>>

WaitTimeout ==
  /\ pc = "wait" /\ expired /\ TimedOut
  /\ UNCHANGED <<writing, written, parentVars, expired>>

Waited ==
  /\ pc = "wait" /\ child # "running" /\ pc' = "finally"
  /\ UNCHANGED <<child, code, childVars, parentVars, expired, result>>

(* Mutant of Finish: the return code decides before the limit.             *)
FinishByCode ==
  /\ pc = "finally" /\ pc' = "done" /\ Kill
  /\ result' = IF result # "none" THEN result
               ELSE IF code = "zero" THEN "ok"
               ELSE IF exceeded THEN "limit" ELSE "failed"
  /\ UNCHANGED <<writing, written, parentVars, expired>>

(* Mutant of Finish: the finally block only closes the pipes.              *)
FinishWithoutKill ==
  /\ pc = "finally" /\ pc' = "done" /\ UNCHANGED <<child, code, open>>
  /\ result' = IF result # "none" THEN result
               ELSE IF exceeded THEN "limit"
               ELSE IF code # "zero" THEN "failed" ELSE "ok"
  /\ UNCHANGED <<writing, written, parentVars, expired>>

(* The finally block, then the limit before the return code.               *)
Finish ==
  /\ pc = "finally" /\ pc' = "done" /\ Kill
  /\ result' = IF result # "none" THEN result
               ELSE IF exceeded THEN "limit"
               ELSE IF code # "zero" THEN "failed" ELSE "ok"
  /\ UNCHANGED <<writing, written, parentVars, expired>>

Done == pc = "done" /\ child # "running" /\ UNCHANGED vars

Child == Exit \/ \E s \in Stream : BeginWrite(s) \/ Write(s) \/ CloseStream(s)
Reads == \E s \in Stream : ReadEnd(s) \/ ReadData(s)
Parent ==
  \/ Start \/ StartFails \/ Select \/ EndOfLoop \/ Reads \/ ReadFails
  \/ LoopTimeout \/ WaitTimeout \/ Waited \/ Finish

Next == Child \/ Expire \/ Parent \/ Done

Spec == Init /\ [][Next]_vars

-----------------------------------------------------------------------------
(* Output that is handed on is everything the child wrote, of a child that *)
(* ended well, and stays below the limit; a refusal for length was         *)
(* necessary (git_output's return and its two last failures).              *)
OutputIsComplete ==
  /\ result = "ok" =>
       /\ kept["stdout"] = written["stdout"] /\ written["stdout"] < MaxBytes
       /\ child = "exited" /\ code = "zero"
  /\ result = "limit" => written["stdout"] >= MaxBytes

(* However much the child writes and in whatever chunks, the parent never  *)
(* keeps as much as the limit, nor more than one read of stderr.           *)
MemoryIsBounded ==
  kept["stdout"] < MaxBytes /\ kept["stderr"] <= ReadSize

(* No way out of the function leaves the child running.                    *)
NoChildLeft == pc = "done" => child # "running"

(* While the call waits, the child can go on or there is something to      *)
(* read, and what select has found readable still is when it is read (so   *)
(* BlockingIOError has nothing to skip): a child is never left in a write  *)
(* to a full pipe that nobody drains.                                      *)
ChildCanGoOn ==
  child = "running" /\ (writing = "none" \/ InPipe(writing) < PipeSize)

SomebodyCanGoOn ==
  /\ pc = "loop" /\ registered # {} => Readable # {} \/ ChildCanGoOn
  /\ pc = "read" => ready # {} /\ ready \subseteq Readable
  /\ pc = "wait" => child # "running" \/ ChildCanGoOn

(* No event is handled in vain: it takes bytes out of a pipe or ends a     *)
(* stream, the sentinel byte of a full buffer included, so the loop        *)
(* neither spins nor takes a read of nothing for the end.                  *)
EveryReadTakes ==
  [][ready' # ready /\ ready' \subseteq ready =>
       \/ registered' # registered
       \/ \E s \in Stream : taken'[s] > taken[s]]_vars

(* The parent is scheduled; the clock and the child are not relied on.     *)
ScheduledSpec == Spec /\ WF_vars(Parent)

(* A child that hangs, or writes for ever, is ended by the deadline once   *)
(* the clock gets there.                                                   *)
EndsByDeadline == WF_vars(Expire) => <>(pc = "done")

(* A child that goes on whenever its pipe has room, and so ends, is waited *)
(* for without help of the deadline: neither of two full pipes blocks it   *)
(* for ever.                                                               *)
EndsWithChild == WF_vars(Child) => <>(pc = "done")
================================================================================
