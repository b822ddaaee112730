-------------------------- MODULE BoundedOutputProofs --------------------------
(* The bounded reader keeps its promises for every limit, read size and    *)
(* pipe size, and whatever the child writes.                               *)
EXTENDS BoundedOutput, TLAPS

(* What is kept is the beginning of what was read, which is the beginning  *)
(* of what was written.                                                    *)
Counted ==
  /\ \A s \in Stream : taken[s] <= written[s]
  /\ kept["stdout"] = Lesser(taken["stdout"], MaxBytes - 1)
  /\ kept["stderr"] = Lesser(taken["stderr"], ReadSize)
  /\ exceeded <=> taken["stdout"] >= MaxBytes

(* A stream leaves the selector at its end, and nothing follows that end.  *)
EndIsFinal ==
  /\ child # "running" => open = {}
  /\ child = "running" => writing = "none" \/ writing \in open
  /\ pc = "start" => child = "none" /\ registered = {}
  /\ \A s \in Stream \ registered : taken[s] = written[s] /\ s \notin open

(* How the child ended, and what the way out says about it.                *)
Outcome ==
  /\ code = "zero" => child = "exited"
  /\ pc \in {"loop", "read", "wait"} => result = "none"
  /\ pc = "start" => result = "none"
  /\ pc = "wait" => registered = {}
  /\ pc = "finally" /\ result = "none" => registered = {}
  /\ pc = "finally" => result \in {"none", "timeout", "error"}
  /\ pc = "done" => child # "running" /\ result # "none"
  /\ result = "limit" => exceeded
  /\ result = "ok" => pc = "done" /\ registered = {} /\ ~exceeded /\ code = "zero"

(* The inductive invariant.                                                *)
Inv == TypeOK /\ Counted /\ EndIsFinal /\ Outcome

-----------------------------------------------------------------------------
LEMMA InitInv == Init => Inv
<1> SUFFICES ASSUME Init PROVE Inv
  OBVIOUS
<1>1. TypeOK
  <2>1. [s \in Stream |-> 0] \in [Stream -> 0..MaxWrite]
    BY SizesAssumption
  <2> QED BY <2>1 DEF Init, TypeOK, Stream, Result
<1>2. Counted
  BY SizesAssumption DEF Init, Counted, Stream, Lesser
<1>3. EndIsFinal /\ Outcome
  BY DEF Init, EndIsFinal, Outcome
<1> QED BY <1>1, <1>2, <1>3 DEF Inv

(* The child only adds to a stream that is still open.                     *)
LEMMA ChildStep == ASSUME Inv, Child PROVE Inv'
<1> USE SizesAssumption DEF Inv
<1>1. CASE Exit
  BY <1>1 DEF Exit, parentVars, TypeOK, Counted, EndIsFinal, Outcome, Stream, Result, Lesser
<1>2. ASSUME NEW s \in Stream, BeginWrite(s) PROVE Inv'
  BY <1>2 DEF BeginWrite, parentVars, TypeOK, Counted, EndIsFinal, Outcome, Stream, Result, Lesser
<1>3. ASSUME NEW s \in Stream, CloseStream(s) PROVE Inv'
  BY <1>3 DEF CloseStream, parentVars, TypeOK, Counted, EndIsFinal, Outcome, Stream, Result, Lesser
<1>4. ASSUME NEW s \in Stream, Write(s) PROVE Inv'
  <2>1. PICK n \in 1..(PipeSize - InPipe(s)) :
          written[s] + n <= MaxWrite /\ written' = [written EXCEPT ![s] = @ + n]
    BY <1>4 DEF Write
  <2>2. n \in Nat /\ written[s] \in Nat /\ s \in open /\ s \in registered
    BY <1>4, <2>1 DEF Write, TypeOK, EndIsFinal, Outcome, InPipe, Stream
  <2>3. TypeOK'
    BY <1>4, <2>1, <2>2 DEF Write, parentVars, TypeOK, Stream, Result
  <2>4. Counted'
    BY <1>4, <2>1, <2>2 DEF Write, parentVars, TypeOK, Counted, Stream, Lesser
  <2>5. EndIsFinal' /\ Outcome'
    BY <1>4, <2>1, <2>2 DEF Write, parentVars, TypeOK, EndIsFinal, Outcome, Stream
  <2> QED BY <2>3, <2>4, <2>5
<1> QED BY <1>1, <1>2, <1>3, <1>4 DEF Child

(* One read keeps what still fits below the limit, and asks for one byte   *)
(* more: the sentinel that tells output of exactly the limit.              *)
LEMMA SentinelRead ==
  ASSUME NEW t \in Nat, NEW w \in Nat, t < w, NEW k, k = Lesser(t, MaxBytes - 1),
         NEW n, n = Lesser(w - t, Lesser(ReadSize, (MaxBytes - 1 - k) + 1))
  PROVE  /\ n \in Nat /\ t + n <= w
         /\ k + Lesser(n, MaxBytes - 1 - k) = Lesser(t + n, MaxBytes - 1)
         /\ (t >= MaxBytes \/ n > MaxBytes - 1 - k) <=> (t + n >= MaxBytes)
<1> USE SizesAssumption DEF Lesser
<1>1. CASE t <= MaxBytes - 1
  BY <1>1
<1>2. CASE t >= MaxBytes
  BY <1>2
<1> QED BY <1>1, <1>2

LEMMA StderrRead ==
  ASSUME NEW t \in Nat, NEW w \in Nat, t < w, NEW k, k = Lesser(t, ReadSize),
         NEW n, n = Lesser(w - t, ReadSize)
  PROVE  n \in Nat /\ t + n <= w /\ k + Lesser(n, ReadSize - k) = Lesser(t + n, ReadSize)
  BY SizesAssumption DEF Lesser

LEMMA ReadDataStep == ASSUME Inv, NEW s \in Stream, ReadData(s) PROVE Inv'
<1> USE SizesAssumption
<1> DEFINE n == Lesser(InPipe(s), AskFor(s))
           over == s = "stdout" /\ n > RoomFor(s)
<1>1. /\ pc = "read" /\ s \in ready /\ InPipe(s) > 0
      /\ taken' = [taken EXCEPT ![s] = @ + n]
      /\ kept' = [kept EXCEPT ![s] = @ + Lesser(n, RoomFor(s))]
      /\ exceeded' = (exceeded \/ over)
      /\ IF over THEN Kill ELSE UNCHANGED <<child, code, open>>
      /\ ready' = ready \ {s} /\ pc' \in {"loop", "read"}
      /\ UNCHANGED <<writing, written, registered, expired, result>>
  BY DEF ReadData, Handled
<1>2. /\ TypeOK /\ Counted /\ EndIsFinal /\ Outcome
      /\ taken[s] \in Nat /\ written[s] \in Nat /\ taken[s] < written[s]
  BY <1>1 DEF Inv, TypeOK, InPipe, Stream
<1>3. /\ n \in Nat /\ taken[s] + n <= written[s]
      /\ kept'[s] = Lesser(taken'[s], IF s = "stdout" THEN MaxBytes - 1 ELSE ReadSize)
      /\ exceeded' <=> taken'["stdout"] >= MaxBytes
  <2>1. CASE s = "stdout"
    <3>1. kept[s] = Lesser(taken[s], MaxBytes - 1) /\ (exceeded <=> taken[s] >= MaxBytes)
      BY <1>2, <2>1 DEF Counted
    <3>2. n = Lesser(written[s] - taken[s], Lesser(ReadSize, (MaxBytes - 1 - kept[s]) + 1))
          /\ RoomFor(s) = MaxBytes - 1 - kept[s]
      BY <2>1 DEF AskFor, RoomFor, InPipe
    <3>3. /\ n \in Nat /\ taken[s] + n <= written[s]
          /\ kept[s] + Lesser(n, RoomFor(s)) = Lesser(taken[s] + n, MaxBytes - 1)
          /\ (taken[s] >= MaxBytes \/ n > RoomFor(s)) <=> (taken[s] + n >= MaxBytes)
      <4> HIDE DEF n
      <4> QED BY <1>2, <3>1, <3>2, SentinelRead
    <3>4. taken'[s] = taken[s] + n /\ kept'[s] = kept[s] + Lesser(n, RoomFor(s))
      BY <1>1, <1>2, <2>1 DEF TypeOK, Stream
    <3> HIDE DEF n
    <3> QED BY <1>1, <2>1, <3>1, <3>3, <3>4
  <2>2. CASE s = "stderr"
    <3>1. kept[s] = Lesser(taken[s], ReadSize) /\ (exceeded <=> taken["stdout"] >= MaxBytes)
      BY <1>2, <2>2 DEF Counted
    <3>2. n = Lesser(written[s] - taken[s], ReadSize) /\ RoomFor(s) = ReadSize - kept[s]
      BY <2>2 DEF AskFor, RoomFor, InPipe
    <3>3. /\ n \in Nat /\ taken[s] + n <= written[s]
          /\ kept[s] + Lesser(n, RoomFor(s)) = Lesser(taken[s] + n, ReadSize)
      <4> HIDE DEF n
      <4> QED BY <1>2, <3>1, <3>2, StderrRead
    <3>4. /\ taken'[s] = taken[s] + n /\ kept'[s] = kept[s] + Lesser(n, RoomFor(s))
          /\ taken'["stdout"] = taken["stdout"]
      BY <1>1, <1>2, <2>2 DEF TypeOK, Stream
    <3> HIDE DEF n
    <3> QED BY <1>1, <2>2, <3>1, <3>3, <3>4
  <2> QED BY <2>1, <2>2 DEF Stream
<1> HIDE DEF n
<1>4. \A r \in Stream \ {s} : taken'[r] = taken[r] /\ kept'[r] = kept[r]
  BY <1>1, <1>2 DEF TypeOK
<1>5. taken'[s] = taken[s] + n
  BY <1>1, <1>2 DEF TypeOK
<1>6. Counted'
  BY <1>1, <1>2, <1>3, <1>4, <1>5 DEF Counted, Stream
<1>7. TypeOK'
  <2>1. taken' \in [Stream -> 0..MaxWrite]
    <3>1. taken[s] + n \in 0..MaxWrite
      BY <1>2, <1>3 DEF TypeOK, Stream
    <3> QED BY <1>1, <1>2, <3>1 DEF TypeOK
  <2>2. kept' \in [Stream -> 0..MaxWrite]
    <3>1. kept'[s] \in 0..MaxWrite
      BY <1>3, <2>1 DEF Lesser, Stream
    <3>2. kept' = [kept EXCEPT ![s] = kept'[s]]
      BY <1>1, <1>2 DEF TypeOK
    <3> QED BY <1>2, <3>1, <3>2 DEF TypeOK
  <2>3. exceeded' \in BOOLEAN
    BY <1>1, Zenon
  <2> QED BY <1>1, <1>2, <2>1, <2>2, <2>3 DEF TypeOK, Kill, Stream, Result
<1>8. EndIsFinal'
  <2>1. s \in registered
    BY <1>1, <1>2 DEF EndIsFinal
  <2> QED BY <1>1, <1>2, <1>4, <2>1 DEF EndIsFinal, Kill, TypeOK, Stream
<1>9. Outcome'
  BY <1>1, <1>2 DEF Outcome, Kill
<1> QED BY <1>6, <1>7, <1>8, <1>9 DEF Inv

(* The other steps of the parent leave the counts alone.                   *)
LEMMA ParentStep == ASSUME Inv, Parent PROVE Inv'
<1> USE SizesAssumption DEF Inv
<1> USE DEF parentVars, childVars, TypeOK, Counted, EndIsFinal, Outcome, Stream, Result,
            Lesser, Kill
<1>1. CASE Start
  <2>1. Counted' /\ EndIsFinal' /\ Outcome'
    BY <1>1 DEF Start
  <2>2. TypeOK'
    BY <1>1 DEF Start
  <2> QED BY <2>1, <2>2
<1>2. CASE StartFails
  BY <1>2 DEF StartFails
<1>3. CASE Select
  BY <1>3 DEF Select, Readable
<1>4. CASE EndOfLoop
  BY <1>4 DEF EndOfLoop
<1>5. ASSUME NEW s \in Stream, ReadEnd(s) PROVE Inv'
  BY <1>5 DEF ReadEnd, Handled, InPipe
<1>6. ASSUME NEW s \in Stream, ReadData(s) PROVE Inv'
  BY <1>6, ReadDataStep
<1>7. CASE ReadFails
  BY <1>7 DEF ReadFails
<1>8. CASE LoopTimeout
  BY <1>8 DEF LoopTimeout, TimedOut
<1>9. CASE WaitTimeout
  BY <1>9 DEF WaitTimeout, TimedOut
<1>10. CASE Waited
  BY <1>10 DEF Waited
<1>11. CASE Finish
  BY <1>11 DEF Finish
<1> QED
  BY <1>1, <1>2, <1>3, <1>4, <1>5, <1>6, <1>7, <1>8, <1>9, <1>10, <1>11 DEF Parent, Reads

(* The counts, the ends of the streams and the way out agree in every      *)
(* reachable state of git_output's bounded branch.                         *)
THEOREM OutputInvariant == Spec => []Inv
<1>1. Inv /\ [Next]_vars => Inv'
  <2> SUFFICES ASSUME Inv, [Next]_vars PROVE Inv'
    OBVIOUS
  <2>1. CASE Expire
    BY <2>1 DEF Expire, parentVars, childVars, Inv, TypeOK, Counted, EndIsFinal, Outcome
  <2>2. CASE Done \/ UNCHANGED vars
    BY <2>2 DEF Done, vars, Inv, TypeOK, Counted, EndIsFinal, Outcome
  <2> QED BY <2>1, <2>2, ChildStep, ParentStep DEF Next
<1> QED BY <1>1, InitInv, PTL DEF Spec

(* Type correctness for all sizes.                                         *)
THEOREM TypeCorrectness == Spec => []TypeOK
  BY OutputInvariant, PTL DEF Inv

(* Output handed on is complete and below the limit; a refusal for length  *)
(* was necessary (the end of git_output).                                  *)
THEOREM Complete == Spec => []OutputIsComplete
<1>1. Inv => OutputIsComplete
  BY SizesAssumption
     DEF Inv, TypeOK, Counted, EndIsFinal, Outcome, OutputIsComplete, Stream, Lesser
<1> QED BY <1>1, OutputInvariant, PTL

(* The parent never keeps as much as the limit (the read size of the loop).*)
THEOREM Bounded == Spec => []MemoryIsBounded
<1>1. Inv => MemoryIsBounded
  BY SizesAssumption DEF Inv, TypeOK, Counted, MemoryIsBounded, Stream, Lesser
<1> QED BY <1>1, OutputInvariant, PTL

(* No way out leaves the child running (the finally block).                *)
THEOREM ChildReaped == Spec => []NoChildLeft
<1>1. Inv => NoChildLeft
  BY DEF Inv, Outcome, NoChildLeft
<1> QED BY <1>1, OutputInvariant, PTL
-----------------------------------------------------------------------------
(* What select has returned is handled before the next select, and stays   *)
(* true until then: only the parent takes bytes out, and an end is final.  *)
ReadyInv ==
  /\ pc \in {"start", "loop"} => ready = {}
  /\ pc = "read" => ready # {} /\ ready \subseteq Readable

LEMMA ReadyChildStep == ASSUME Inv, ReadyInv, Child PROVE ReadyInv'
<1> USE DEF ReadyInv, Readable, InPipe, parentVars
<1>1. CASE Exit
  BY <1>1 DEF Exit
<1>2. ASSUME NEW s \in Stream, BeginWrite(s) \/ CloseStream(s) PROVE ReadyInv'
  BY <1>2 DEF BeginWrite, CloseStream
<1>3. ASSUME NEW s \in Stream, Write(s) PROVE ReadyInv'
  <2>1. PICK n \in 1..(PipeSize - InPipe(s)) :
          written[s] + n <= MaxWrite /\ written' = [written EXCEPT ![s] = @ + n]
    BY <1>3 DEF Write
  <2>2. /\ n \in Nat /\ written \in [Stream -> Nat] /\ taken \in [Stream -> Nat]
        /\ registered \subseteq Stream
    BY <1>3, <2>1, SizesAssumption DEF Write, Inv, TypeOK, Stream
  <2>3. \A r \in Stream : written'[r] - taken[r] >= written[r] - taken[r]
    BY <2>1, <2>2 DEF Stream
  <2> QED BY <1>3, <2>2, <2>3 DEF Write
<1> QED BY <1>1, <1>2, <1>3 DEF Child

LEMMA ReadyReadStep ==
  ASSUME Inv, ReadyInv, NEW s \in Stream, ReadEnd(s) \/ ReadData(s)
  PROVE  /\ ReadyInv'
         /\ registered' # registered \/ taken'[s] > taken[s]
<1> USE DEF ReadyInv, Readable, InPipe
<1>1. CASE ReadEnd(s)
  BY <1>1 DEF ReadEnd, Handled, childVars
<1>2. CASE ReadData(s)
  <2> DEFINE n == Lesser(InPipe(s), AskFor(s))
  <2>1. /\ pc = "read" /\ s \in ready /\ InPipe(s) > 0 /\ Handled(s)
        /\ taken' = [taken EXCEPT ![s] = @ + n]
        /\ open' \in {open, {}} /\ UNCHANGED <<written, registered>>
    BY <1>2 DEF ReadData, Kill
  <2>2. taken \in [Stream -> Nat] /\ written \in [Stream -> Nat]
    BY SizesAssumption DEF Inv, TypeOK, Stream
  <2>3. n \in Nat \ {0}
    <3>1. AskFor(s) \in Nat \ {0}
      <4>1. RoomFor("stdout") \in Nat
        BY SizesAssumption DEF Inv, TypeOK, Counted, RoomFor, Lesser, Stream
      <4> QED BY <4>1, SizesAssumption DEF AskFor, Lesser, Stream
    <3> QED BY <2>1, <2>2, <3>1 DEF Lesser, Stream
  <2> HIDE DEF n
  <2>4. taken'[s] = taken[s] + n /\ \A r \in Stream \ {s} : taken'[r] = taken[r]
    BY <2>1, <2>2
  <2>5. taken'[s] > taken[s]
    BY <2>2, <2>3, <2>4
  <2>6. ReadyInv'
    BY <2>1, <2>4 DEF Handled, Inv, TypeOK
  <2> QED BY <2>5, <2>6
<1> QED BY <1>1, <1>2

LEMMA ReadyStep == ASSUME Inv, ReadyInv, [Next]_vars PROVE ReadyInv'
<1> USE DEF ReadyInv, Readable, InPipe, childVars, parentVars
<1>1. CASE Reads
  BY <1>1, ReadyReadStep DEF Reads
<1>2. CASE Start \/ StartFails \/ Select \/ EndOfLoop \/ ReadFails
  BY <1>2 DEF Start, StartFails, Select, EndOfLoop, ReadFails
<1>3. CASE LoopTimeout \/ WaitTimeout \/ Waited \/ Finish
  BY <1>3 DEF LoopTimeout, WaitTimeout, Waited, Finish, TimedOut
<1>4. CASE Expire \/ Done \/ UNCHANGED vars
  BY <1>4 DEF Expire, Done, vars
<1> QED BY <1>1, <1>2, <1>3, <1>4, ReadyChildStep DEF Next, Parent

LEMMA ReadyInvariant == Spec => []ReadyInv
<1>1. Init => ReadyInv
  BY DEF Init, ReadyInv
<1> QED BY <1>1, ReadyStep, OutputInvariant, PTL DEF Spec

(* The parent never waits for a child that waits for the parent: the safe  *)
(* half of EndsWithChild (the selector loop and the last wait).            *)
THEOREM NobodyIsStuck == Spec => []SomebodyCanGoOn
<1>1. Inv /\ ReadyInv => SomebodyCanGoOn
  <2> SUFFICES ASSUME Inv, ReadyInv PROVE SomebodyCanGoOn
    OBVIOUS
  <2>1. ASSUME child = "running", writing # "none", InPipe(writing) >= PipeSize
        PROVE  writing \in Readable
    BY <2>1, SizesAssumption DEF Inv, TypeOK, EndIsFinal, Readable, InPipe, Stream
  <2>2. ASSUME child # "running" PROVE registered \subseteq Readable
    BY <2>2 DEF Inv, EndIsFinal, Readable
  <2>3. ChildCanGoOn \/ child # "running" \/ Readable # {}
    <3>1. writing # "none" => InPipe(writing) \in Nat
      BY SizesAssumption DEF Inv, TypeOK, Counted, InPipe, Stream
    <3> QED BY <2>1, <3>1, SizesAssumption DEF ChildCanGoOn
  <2>4. pc = "wait" /\ child = "running" => ChildCanGoOn
    BY DEF Inv, EndIsFinal, Outcome, TypeOK, ChildCanGoOn
  <2> QED BY <2>2, <2>3, <2>4 DEF SomebodyCanGoOn, ReadyInv
<1> QED BY <1>1, OutputInvariant, ReadyInvariant, PTL

(* Every event handled takes bytes or ends a stream, so what the child     *)
(* writes bounds the turns of the loop (read_size is never 0).             *)
THEOREM ReadsTake == Spec => EveryReadTakes
<1>1. ASSUME Inv, ReadyInv, [Next]_vars, ready' # ready, ready' \subseteq ready
      PROVE  registered' # registered \/ \E s \in Stream : taken'[s] > taken[s]
  <2>1. CASE Reads
    BY <1>1, <2>1, ReadyReadStep DEF Reads
  <2>2. CASE Start \/ StartFails \/ Select \/ EndOfLoop \/ ReadFails
    BY <1>1, <2>2
       DEF Start, StartFails, Select, EndOfLoop, ReadFails, ReadyInv, childVars, parentVars
  <2>3. CASE LoopTimeout \/ WaitTimeout \/ Waited \/ Finish
    BY <1>1, <2>3 DEF LoopTimeout, WaitTimeout, Waited, Finish, TimedOut, parentVars
  <2>4. CASE Expire \/ Done \/ Child \/ UNCHANGED vars
    BY <1>1, <2>4 DEF Expire, Done, Child, Exit, BeginWrite, Write, CloseStream, vars, parentVars
  <2> QED BY <1>1, <2>1, <2>2, <2>3, <2>4 DEF Next, Parent
<1> QED BY <1>1, OutputInvariant, ReadyInvariant, PTL DEF Spec, EveryReadTakes
================================================================================
