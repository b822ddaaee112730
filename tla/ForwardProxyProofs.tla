------------------------- MODULE ForwardProxyProofs -------------------------
(* ForwardProxyClient for any versions, services, inputs and edits.        *)
EXTENDS ForwardProxyClient, TLAPS

Enabling == File \union {"mark", "record", "reexec", "restart"}
Disabling == {"mark_off", "remove", "restart_off"}

(* What the marker lists in each of its states.                            *)
MarkerShape ==
  /\ marker.state = "none" => marker = NoMarker
  /\ marker.state = "stable" =>
       marker.pending = Nothing /\ {"base", "systemd"} \subseteq Paths(marker.managed)
  /\ marker.state = "pending" => {"base", "systemd"} \subseteq Paths(marker.pending)

(* The inputs of the run and the marker at each step.                      *)
RunAtStep ==
  /\ pc # "idle" => run \in Request
  /\ pc \in Enabling => run.enabled
  /\ pc \in Disabling => run.manage /\ marker.state # "none"
  /\ pc = "mark" /\ IsPending => marker.pending = run.want
  /\ pc \in File \union {"record"} =>
       IF IsPending THEN marker.pending = run.want
       ELSE marker.state = "stable" /\ marker.managed = run.want
  /\ pc \in {"reexec", "restart"} => marker.state = "stable" /\ marker.managed = run.want

(* At every step: a file of the role is listed with its content.           *)
Owned == \A f \in File : file[f] \in Version => Recognised(f)

(* What a run that removes files has still to remove.                      *)
Leaving ==
  /\ pc = "record" /\ run.want["containers"] = Absent => file["containers"] \notin Version
  /\ pc \in Disabling => \A f \in File : file[f] \in Version => f \in left
  /\ pc = "restart_off" => left = {} /\ manager \notin Version

(* A service with proxy defaults is recorded; a run that disables has it   *)
(* among those it will restart.                                            *)
Tracked ==
  /\ marker.state = "none" => manager \notin Version
  /\ \A s \in Service : env[s] \in Version => s \in marker.restarts \union marker.activated
  /\ pc \in {"remove", "restart_off"} => \A s \in Service : env[s] \in Version => s \in todo

Executed == IF run.manage /\ run.now THEN marker.restarts \intersect run.services ELSE {}

(* What a run that enables has done of the work that is due.               *)
Paying ==
  /\ pc = "reexec" => todo = Executed
  /\ pc = "restart" =>
       /\ todo \subseteq Executed /\ \A s \in Executed \ todo : env[s] = manager
       /\ run.manage /\ marker.activation => manager \notin Version \ {marker.managed["systemd"]}

Inv == TypeOK /\ MarkerShape /\ RunAtStep /\ Owned /\ Leaving /\ Tracked /\ Paying

-----------------------------------------------------------------------------
LEMMA InitInv == Init => Inv
<1> SUFFICES ASSUME Init PROVE Inv
  OBVIOUS
<1> USE ContentAssumption
    DEF Init, NoMarker, NoRun, Nothing, File
<1>1. TypeOK
  <2>1. edits \in 0..MaxEdits
    BY BoundAssumption
  <2>2. lost \in BOOLEAN
    OBVIOUS
  <2> QED BY <2>1, <2>2 DEF TypeOK, Marker, Label, Listing, Content
<1>2. MarkerShape /\ RunAtStep
  BY DEF MarkerShape, RunAtStep, IsPending, Paths, Enabling, Disabling
<1>3. Owned /\ Leaving
  BY DEF Owned, Leaving, Recognised, IsPending, Enabling, Disabling
<1>4. Tracked /\ Paying
  BY DEF Tracked, Paying, Executed
<1> QED BY <1>1, <1>2, <1>3, <1>4 DEF Inv

(* Which actions change the marker, the files, and what runs with them.    *)
LEMMA Frame ==
  ASSUME [Next]_vars
  PROVE  /\ \/ UNCHANGED marker
            \/ MarkPending \/ Record \/ Complete \/ MarkDisable \/ RemoveMarker
         /\ \/ UNCHANGED file
            \/ RemoveContainers \/ \E f \in File : Render(f) \/ Remove(f) \/ Edit(f)
         /\ \/ UNCHANGED host
            \/ Reexec \/ ReexecOff \/ \E s \in Service : Restart(s) \/ RestartOff(s)
<1> USE DEF host
<1>1. CASE Begin \/ Inspect \/ Environment
  BY <1>1 DEF Begin, Inspect, Environment, Break, Unlock, Edit
<1>2. CASE Enable
  BY <1>2 DEF Enable, MarkPending, RemoveContainers, Record, Reexec, Complete, Render, Restart
<1>3. CASE Disable
  BY <1>3 DEF Disable, MarkDisable, ReexecOff, RemoveMarker, Remove, RestartOff
<1> QED BY <1>1, <1>2, <1>3 DEF Next, vars

LEMMA TypeStep == ASSUME Inv, [Next]_vars PROVE TypeOK'
<1> USE ContentAssumption, RequestAssumption DEF Inv, File
<1>1. marker' \in Marker
  <2>1. CASE MarkPending
    BY <2>1 DEF MarkPending, TypeOK, RunAtStep, Enabling, Marker, IsPending
  <2>2. CASE Record
    BY <2>2 DEF Record, TypeOK, RunAtStep, Enabling, Marker, Listing, Nothing, RestartsDue
  <2>3. CASE Complete
    BY <2>3 DEF Complete, TypeOK, Marker
  <2>4. CASE MarkDisable
    <3>1. run \in Request
      BY <2>4 DEF MarkDisable, RunAtStep
    <3>2. marker.restarts \union marker.activated \union run.services \subseteq Service
      BY <3>1 DEF TypeOK, Marker
    <3> QED BY <2>4, <3>2 DEF MarkDisable, TypeOK, Marker, ServicesToDisable
  <2>5. CASE RemoveMarker
    BY <2>5 DEF RemoveMarker, NoMarker, Nothing, Marker, Listing
  <2> QED BY <2>1, <2>2, <2>3, <2>4, <2>5, Frame DEF TypeOK
<1>2. file' \in [File -> Content]
  <2>1. ASSUME NEW f \in File, Render(f) PROVE file' \in [File -> Content]
    BY <2>1 DEF Render, TypeOK, RunAtStep, Listing, Content, Enabling
  <2>2. ASSUME NEW f \in File, Remove(f) \/ Edit(f) PROVE file' \in [File -> Content]
    BY <2>2 DEF Remove, Edit, TypeOK, Content
  <2>3. CASE RemoveContainers
    BY <2>3 DEF RemoveContainers, TypeOK, Content
  <2> QED BY <2>1, <2>2, <2>3, Frame DEF TypeOK
<1>3. manager' \in Content /\ env' \in [Service -> Content]
  <2>1. CASE Reexec \/ ReexecOff
    BY <2>1 DEF Reexec, ReexecOff, TypeOK
  <2>2. ASSUME NEW s \in Service, Restart(s) \/ RestartOff(s)
        PROVE  manager' \in Content /\ env' \in [Service -> Content]
    BY <2>2 DEF Restart, RestartOff, TypeOK
  <2> QED BY <2>1, <2>2, Frame DEF TypeOK, host
<1>4. /\ lock' \in {"free", "held", "stale"} /\ pc' \in Label /\ run' \in Request \union {NoRun}
      /\ changed' \subseteq File /\ left' \subseteq File /\ seen' \in [File -> Content]
      /\ todo' \subseteq Service /\ edits' \in 0..MaxEdits /\ lost' \in BOOLEAN
  <2> USE DEF TypeOK, Label, locals, outside
  <2>1. Nothing \in [File -> Content]
    BY DEF Nothing, Content
  <2>2. CASE Begin \/ Unlock \/ UNCHANGED vars
    BY <2>2 DEF Begin, Unlock, vars
  <2>3. CASE Inspect
    <3>1. left' \subseteq File /\ run' \in {run, NoRun} /\ seen' \in {seen, file, Nothing}
      BY <2>3 DEF Inspect, Inspected, Paths, Forget, End
    <3>2. /\ pc' \in Label /\ lock' \in {lock, "free"} /\ changed' \in {changed, {}}
          /\ todo' \in {todo, {}} /\ UNCHANGED outside
      BY <2>3 DEF Inspect, Forget, End
    <3> QED BY <2>1, <3>1, <3>2
  <2>4. CASE Break
    <3>1. lost' \in BOOLEAN
      BY <2>4 DEF Break
    <3> QED BY <2>1, <2>4, <3>1 DEF Break, Forget
  <2>5. ASSUME NEW f \in File, Edit(f) PROVE edits' \in 0..MaxEdits
    BY <2>5, BoundAssumption DEF Edit
  <2>6. ASSUME NEW f \in File, Render(f) PROVE pc' \in Label /\ changed' \subseteq File
    BY <2>6 DEF Render, After
  <2>7. CASE MarkPending \/ RemoveContainers \/ Reexec
    BY <2>7 DEF MarkPending, RemoveContainers, Reexec
  <2>8. CASE Record
    <3>1. run.services \subseteq Service
      BY <2>8 DEF Record, RunAtStep
    <3> QED BY <2>8, <3>1 DEF Record
  <2>9. CASE Complete \/ RemoveMarker
    BY <2>1, <2>9 DEF Complete, RemoveMarker, Forget, End
  <2>10. CASE MarkDisable
    BY <2>10 DEF MarkDisable, ServicesToDisable, Marker, RunAtStep, Disabling
  <2>11. CASE ReexecOff
    BY <2>11 DEF ReexecOff
  <2> QED
    BY <2>2, <2>3, <2>4, <2>5, <2>6, <2>7, <2>8, <2>9, <2>10, <2>11
       DEF Next, Enable, Disable, Environment, Edit, Render, Restart, Remove, RestartOff
<1> QED BY <1>1, <1>2, <1>3, <1>4 DEF TypeOK

LEMMA ShapeStep == ASSUME Inv, [Next]_vars PROVE MarkerShape'
<1> USE DEF Inv, TypeOK, MarkerShape, Paths, File
<1>1. CASE MarkPending
  BY <1>1, RequestAssumption DEF MarkPending, RunAtStep, Enabling, Marker, NoMarker
<1>2. CASE Record
  BY <1>2, RequestAssumption DEF Record, RunAtStep, Enabling, Marker, NoMarker
<1>3. CASE Complete
  BY <1>3 DEF Complete, RunAtStep, Enabling, Marker
<1>4. CASE MarkDisable
  BY <1>4 DEF MarkDisable, RunAtStep, Disabling, Marker
<1>5. CASE RemoveMarker
  BY <1>5 DEF RemoveMarker, NoMarker
<1> QED BY <1>1, <1>2, <1>3, <1>4, <1>5, Frame

LEMMA RunStep == ASSUME Inv, [Next]_vars PROVE RunAtStep'
<1> USE DEF Inv, TypeOK, RunAtStep, Enabling, Disabling, File, IsPending, locals
<1>1. CASE Begin \/ Unlock \/ UNCHANGED vars
  BY <1>1 DEF Begin, Unlock, vars
<1>2. CASE Inspect
  BY <1>2, RequestAssumption, ContentAssumption
     DEF Inspect, Accepts, MayDisable, MarkerShape, Paths, NoMarker, Nothing, Forget, End, IsPending
<1>3. CASE Break \/ Complete \/ RemoveMarker
  BY <1>3 DEF Break, Complete, RemoveMarker, Forget, End
<1>4. CASE MarkPending
  <2>1. /\ marker'.state \in {"stable", "pending"} /\ run' = run /\ pc' = "base"
        /\ IF marker'.state = "pending" THEN marker'.pending = run.want
           ELSE marker'.managed = run.want
    <3>1. CASE IsPending \/ marker.managed # run.want
      BY <1>4, <3>1 DEF MarkPending, Marker
    <3>2. CASE ~IsPending /\ marker.managed = run.want
      BY <1>4, <3>2, RequestAssumption DEF MarkPending, Marker, MarkerShape, NoMarker, Nothing, Paths
    <3> QED BY <3>1, <3>2
  <2> QED BY <1>4, <2>1 DEF MarkPending
<1>5. CASE Record
  BY <1>5 DEF Record
<1>6. CASE RemoveContainers \/ Reexec \/ ReexecOff
  BY <1>6 DEF RemoveContainers, Reexec, ReexecOff
<1>7. ASSUME NEW f \in File, Render(f) \/ Remove(f) \/ Edit(f) PROVE RunAtStep'
  BY <1>7 DEF Render, After, Remove, Edit
<1>8. ASSUME NEW s \in Service, Restart(s) \/ RestartOff(s) PROVE RunAtStep'
  BY <1>8 DEF Restart, RestartOff
<1>9. CASE MarkDisable
  BY <1>9 DEF MarkDisable, Marker
<1> QED BY <1>1, <1>2, <1>3, <1>4, <1>5, <1>6, <1>7, <1>8, <1>9 DEF Next, Enable, Disable, Environment

(* Recognition is a matter of files and marker alone.                      *)
LEMMA OwnedStep == ASSUME Inv, [Next]_vars PROVE Owned'
<1> USE ContentAssumption DEF Inv, TypeOK, Owned, Recognised, File, IsPending
<1>1. CASE MarkPending
  BY <1>1 DEF MarkPending, RunAtStep, Marker
<1>2. CASE Record
  BY <1>2, RequestAssumption DEF Record, Leaving, Paths, RunAtStep, Enabling, Marker, Listing
<1>3. CASE Complete \/ MarkDisable
  BY <1>3 DEF Complete, MarkDisable, Marker
<1>4. CASE RemoveMarker
  BY <1>4 DEF RemoveMarker, Leaving, Disabling
<1>5. CASE RemoveContainers
  BY <1>5 DEF RemoveContainers
<1>6. ASSUME NEW f \in File, Render(f) PROVE Owned'
  BY <1>6 DEF Render, RunAtStep
<1>7. ASSUME NEW f \in File, Remove(f) \/ Edit(f) PROVE Owned'
  BY <1>7 DEF Remove, Edit
<1>8. CASE UNCHANGED <<file, marker>>
  BY <1>8
<1> QED BY <1>1, <1>2, <1>3, <1>4, <1>5, <1>6, <1>7, <1>8, Frame

LEMMA LeavingStep == ASSUME Inv, [Next]_vars PROVE Leaving'
<1> USE ContentAssumption DEF Inv, TypeOK, Leaving, Enabling, Disabling, File, locals
<1>1. CASE Begin \/ Unlock \/ UNCHANGED vars
  BY <1>1 DEF Begin, Unlock, host, vars
<1>2. CASE Inspect
  BY <1>2 DEF Inspect, Inspected, Owned, Recognised, IsPending, Paths, Forget, End, Marker, Listing
<1>3. CASE Break \/ Complete \/ RemoveMarker
  BY <1>3 DEF Break, Complete, RemoveMarker, Forget, End
<1>4. CASE MarkPending \/ Record \/ Reexec
  BY <1>4 DEF MarkPending, Record, Reexec
<1>5. CASE RemoveContainers
  BY <1>5 DEF RemoveContainers, RunAtStep, Owned, Recognised, IsPending
<1>6. ASSUME NEW f \in File, Render(f) PROVE Leaving'
  BY <1>6 DEF Render, After
<1>7. CASE MarkDisable \/ ReexecOff
  BY <1>7 DEF MarkDisable, ReexecOff, RunAtStep, host
<1>8. ASSUME NEW f \in File, Remove(f) \/ Edit(f) PROVE Leaving'
  BY <1>8 DEF Remove, Edit, host
<1>9. ASSUME NEW s \in Service, Restart(s) \/ RestartOff(s) PROVE Leaving'
  BY <1>9 DEF Restart, RestartOff
<1> QED BY <1>1, <1>2, <1>3, <1>4, <1>5, <1>6, <1>7, <1>8, <1>9 DEF Next, Enable, Disable, Environment

LEMMA TrackedStep == ASSUME Inv, [Next]_vars PROVE Tracked'
<1> USE ContentAssumption DEF Inv, TypeOK, Tracked, host, locals
<1>1. CASE Begin \/ Unlock \/ UNCHANGED vars
  BY <1>1 DEF Begin, Unlock, vars
<1>2. CASE Inspect \/ Break
  BY <1>2 DEF Inspect, Break, Forget, End
<1>3. CASE MarkPending \/ RemoveContainers
  BY <1>3 DEF MarkPending, RemoveContainers, Marker
<1>4. CASE Record
  BY <1>4 DEF Record, RestartsDue
<1>5. CASE Reexec \/ ReexecOff
  BY <1>5 DEF Reexec, ReexecOff, RunAtStep, Enabling, Disabling
<1>6. CASE Complete
  BY <1>6 DEF Complete, RunAtStep, Enabling, Forget, End, Marker
<1>7. ASSUME NEW s \in Service, Restart(s) PROVE Tracked'
  BY <1>7 DEF Restart, Paying, Executed
<1>8. CASE MarkDisable
  BY <1>8 DEF MarkDisable, ServicesToDisable, RunAtStep, Disabling, Marker
<1>9. CASE RemoveMarker
  BY <1>9 DEF RemoveMarker, Leaving, NoMarker, Forget, End
<1>10. ASSUME NEW s \in Service, RestartOff(s) PROVE Tracked'
  BY <1>10 DEF RestartOff, Leaving
<1>11. ASSUME NEW f \in File, Render(f) \/ Remove(f) \/ Edit(f) PROVE Tracked'
  BY <1>11 DEF Render, After, Remove, Edit, File
<1> QED BY <1>1, <1>2, <1>3, <1>4, <1>5, <1>6, <1>7, <1>8, <1>9, <1>10, <1>11
        DEF Next, Enable, Disable, Environment

LEMMA PayingStep == ASSUME Inv, [Next]_vars PROVE Paying'
<1> USE DEF Inv, TypeOK, Paying, Executed, host, locals
<1>1. CASE Begin \/ Unlock \/ UNCHANGED vars
  BY <1>1 DEF Begin, Unlock, vars
<1>2. CASE Inspect \/ Break \/ Complete \/ RemoveMarker
  BY <1>2 DEF Inspect, Break, Complete, RemoveMarker, Forget, End
<1>3. CASE MarkPending \/ RemoveContainers \/ MarkDisable \/ ReexecOff
  BY <1>3 DEF MarkPending, RemoveContainers, MarkDisable, ReexecOff
<1>4. CASE Record
  BY <1>4 DEF Record
<1>5. CASE Reexec
  BY <1>5, ContentAssumption DEF Reexec, RunAtStep, Owned, Recognised, IsPending, File
<1>6. ASSUME NEW s \in Service, Restart(s) PROVE Paying'
  BY <1>6 DEF Restart
<1>7. ASSUME NEW f \in File, Render(f) \/ Remove(f) \/ Edit(f) PROVE Paying'
  BY <1>7 DEF Render, After, Remove, Edit, File
<1>8. ASSUME NEW s \in Service, RestartOff(s) PROVE Paying'
  BY <1>8 DEF RestartOff
<1> QED BY <1>1, <1>2, <1>3, <1>4, <1>5, <1>6, <1>7, <1>8 DEF Next, Enable, Disable, Environment

(* Files, marker, defaults and the run agree in every reachable state.     *)
THEOREM ProxyInvariant == Spec => []Inv
<1>1. Inv /\ [Next]_vars => Inv'
  BY TypeStep, ShapeStep, RunStep, OwnedStep, LeavingStep, TrackedStep, PayingStep DEF Inv
<1> QED BY <1>1, InitInv, PTL DEF Spec

(* Type correctness for any versions, services, inputs and edits.          *)
THEOREM TypeCorrectness == Spec => []TypeOK
  BY ProxyInvariant, PTL DEF Inv

(* An interrupted transition is recognised wherever it stopped.            *)
THEOREM OwnRecognised == Spec => []OwnFilesAreRecognised
<1>1. Inv => OwnFilesAreRecognised
  BY DEF Inv, Owned, OwnFilesAreRecognised
<1> QED BY <1>1, ProxyInvariant, PTL

(* A completed disable leaves no proxy defaults loaded.                    *)
THEOREM DisableLeavesNothing == Spec => []NothingStaleAfterDisable
<1>1. Inv => NothingStaleAfterDisable
  BY DEF Inv, MarkerShape, Tracked, NoMarker, NothingStaleAfterDisable
<1> QED BY <1>1, ProxyInvariant, PTL

(* Due work leaves the marker only when it is done.                        *)
THEOREM Paid == Spec => DebtsArePaid
<1>1. Inv /\ [Next]_vars =>
        [marker'.state = "stable" =>
           /\ marker.activation /\ ~marker'.activation =>
                manager \notin Version \ {marker'.managed["systemd"]}
           /\ \A s \in marker.restarts \ marker'.restarts : env[s] = manager]_vars
  <2> SUFFICES ASSUME Inv, Next
               PROVE  marker'.state = "stable" =>
                        /\ marker.activation /\ ~marker'.activation =>
                             manager \notin Version \ {marker'.managed["systemd"]}
                        /\ \A s \in marker.restarts \ marker'.restarts : env[s] = manager
    OBVIOUS
  <2> USE DEF Inv, TypeOK, Marker, host, locals, outside
  <2>1. CASE Complete
    BY <2>1 DEF Complete, Paying, Executed, RunAtStep, Enabling
  <2>2. CASE Record
    BY <2>2 DEF Record, RestartsDue
  <2>3. CASE MarkDisable
    BY <2>3 DEF MarkDisable, ServicesToDisable
  <2>4. CASE RemoveMarker
    BY <2>4 DEF RemoveMarker, NoMarker
  <2>5. CASE MarkPending
    BY <2>5 DEF MarkPending
  <2>6. CASE UNCHANGED marker
    BY <2>6
  <2> QED
    BY <2>1, <2>2, <2>3, <2>4, <2>5, <2>6
       DEF Next, Begin, Inspect, Enable, Disable, Environment, Break, Unlock, Edit,
           RemoveContainers, Reexec, Render, Restart, ReexecOff, Remove, RestartOff
<1> QED BY <1>1, ProxyInvariant, PTL DEF Spec, DebtsArePaid
-----------------------------------------------------------------------------
(* Where no edit and no unrecorded rendering has come between, what is not *)
(* due has been done.                                                      *)
Quiet == edits = 0 /\ ~lost

ChangedHere ==
  changed # {} => pc \in File \union {"record", "reexec", "restart"}

(* The manager has the recorded defaults unless its activation is due, or  *)
(* this run has rendered others.                                           *)
ManagerKept ==
  ~marker.activation /\ "systemd" \notin changed => manager = marker.managed["systemd"]

(* The file is the recorded one, unless this run has changed it or a       *)
(* disabling run has begun to remove it.                                   *)
FileKept ==
  /\ marker.state # "none" /\ "systemd" \notin changed
       /\ (~marker.activation \/ marker.activated # {}) =>
          file["systemd"] = marker.managed["systemd"]
  /\ pc = "mark" /\ marker.state = "none" => file["systemd"] = Absent

ServicesKept ==
  \A s \in marker.activated \ marker.restarts : env[s] = marker.managed["systemd"]

(* A run past its record has rendered what is recorded.                    *)
RecordKept ==
  /\ pc \in {"reexec", "restart"} =>
       /\ file["systemd"] = marker.managed["systemd"]
       /\ ~marker.activation => manager = marker.managed["systemd"]
  /\ pc = "restart" /\ run.manage => manager = marker.managed["systemd"]

(* A run that disables leaves no file to load.                             *)
NoneKept ==
  /\ pc \in {"mark_off", "remove"} => file["systemd"] = Absent \/ "systemd" \in left
  /\ pc \in {"remove", "restart_off"} => marker.activation /\ marker.activated = {}
  /\ pc = "restart_off" => manager = Absent

Kept ==
  Quiet => ChangedHere /\ ManagerKept /\ FileKept /\ ServicesKept /\ RecordKept /\ NoneKept

(* Nothing is recorded yet.                                                *)
LEMMA InitKept == Init => Kept
  BY DEF Init, Kept, ChangedHere, ManagerKept, FileKept, ServicesKept, RecordKept, NoneKept,
         NoMarker, Nothing, File

(* Neither an edit nor a lost rendering is ever undone.                    *)
LEMMA UneditedBefore ==
  ASSUME Inv, [Next]_vars, edits' = 0
  PROVE  edits = 0 /\ ~(\E f \in File : Edit(f))
<1>1. edits \in Nat
  BY BoundAssumption DEF Inv, TypeOK
<1>2. UNCHANGED edits \/ \E f \in File : Edit(f)
  BY DEF Next, Enable, Disable, Environment, Begin, Inspect, Break, Unlock, MarkPending,
         RemoveContainers, Record, Reexec, Complete, Render, Restart, MarkDisable, ReexecOff,
         RemoveMarker, Remove, RestartOff, outside, vars
<1> QED BY <1>1, <1>2 DEF Edit

LEMMA QuietBefore ==
  ASSUME Inv, [Next]_vars, Quiet'
  PROVE  Quiet /\ ~(\E f \in File : Edit(f))
<1>1. lost \in BOOLEAN
  BY DEF Inv, TypeOK
<1>2. UNCHANGED lost \/ lost' = (lost \/ Unrecorded)
  BY DEF Next, Enable, Disable, Environment, Begin, Inspect, Break, Unlock, Edit, MarkPending,
         RemoveContainers, Record, Reexec, Complete, Render, Restart, MarkDisable, ReexecOff,
         RemoveMarker, Remove, RestartOff, outside, vars
<1> QED BY <1>1, <1>2, UneditedBefore DEF Quiet

LEMMA ChangedStep == ASSUME Inv, ChangedHere, [Next]_vars PROVE ChangedHere'
<1> USE DEF ChangedHere, locals, File
<1>1. CASE Begin \/ Unlock \/ UNCHANGED vars
  BY <1>1 DEF Begin, Unlock, vars
<1>2. CASE Inspect \/ Break \/ Complete \/ RemoveMarker
  BY <1>2 DEF Inspect, Break, Complete, RemoveMarker, Forget, End
<1>3. CASE MarkPending \/ RemoveContainers \/ Record \/ Reexec \/ MarkDisable \/ ReexecOff
  BY <1>3 DEF MarkPending, RemoveContainers, Record, Reexec, MarkDisable, ReexecOff
<1>4. ASSUME NEW f \in File, Render(f) \/ Remove(f) \/ Edit(f) PROVE ChangedHere'
  BY <1>4 DEF Render, After, Remove, Edit
<1>5. ASSUME NEW s \in Service, Restart(s) \/ RestartOff(s) PROVE ChangedHere'
  BY <1>5 DEF Restart, RestartOff
<1> QED BY <1>1, <1>2, <1>3, <1>4, <1>5 DEF Next, Enable, Disable, Environment

(* A rendering ends recorded or is lost: what a run that breaks off has    *)
(* changed is already in the marker.                                       *)
LEMMA BreakIsRecorded ==
  ASSUME Kept, Break, Quiet, Quiet', "systemd" \in changed
  PROVE  pc \in {"reexec", "restart"}
  BY DEF Kept, Break, Unrecorded, Quiet, ChangedHere

LEMMA ManagerStep == ASSUME Inv, Kept, Quiet, Quiet', [Next]_vars PROVE ManagerKept'
<1> USE DEF Inv, TypeOK, Marker, Kept, ManagerKept, host, locals, File
<1>1. CASE Begin \/ Unlock \/ UNCHANGED vars
  BY <1>1 DEF Begin, Unlock, vars
<1>2. CASE Inspect
  BY <1>2 DEF Inspect, Forget, End, ChangedHere
<1>3. CASE Break
  BY <1>3, BreakIsRecorded DEF Break, Forget, RecordKept
<1>4. CASE MarkPending \/ RemoveContainers \/ MarkDisable
  BY <1>4 DEF MarkPending, RemoveContainers, MarkDisable
<1>5. CASE Record
  BY <1>5, RequestAssumption
     DEF Record, FileKept, RunAtStep, MarkerShape, Enabling, Paths, IsPending
<1>6. CASE Reexec
  BY <1>6 DEF Reexec
<1>7. CASE Complete
  BY <1>7 DEF Complete, RecordKept, Forget, End
<1>8. CASE ReexecOff
  BY <1>8 DEF ReexecOff, NoneKept
<1>9. CASE RemoveMarker
  BY <1>9 DEF RemoveMarker, NoneKept, NoMarker, Nothing
<1>10. ASSUME NEW f \in File, Render(f) \/ Remove(f) \/ Edit(f) PROVE ManagerKept'
  BY <1>10 DEF Render, Remove, Edit
<1>11. ASSUME NEW s \in Service, Restart(s) \/ RestartOff(s) PROVE ManagerKept'
  BY <1>11 DEF Restart, RestartOff
<1> QED BY <1>1, <1>2, <1>3, <1>4, <1>5, <1>6, <1>7, <1>8, <1>9, <1>10, <1>11
        DEF Next, Enable, Disable, Environment

LEMMA FileStep == ASSUME Inv, Kept, Quiet, Quiet', [Next]_vars PROVE FileKept'
<1> USE ContentAssumption DEF Inv, TypeOK, Marker, Kept, FileKept, host, locals, File
<1>1. CASE Begin \/ Unlock \/ UNCHANGED vars
  BY <1>1 DEF Begin, Unlock, vars
<1>2. CASE Inspect
  BY <1>2, RequestAssumption
     DEF Inspect, Accepts, Inspected, Recognised, RunAtStep, MarkerShape, NoMarker, Nothing, Paths,
         IsPending, Forget, End
<1>3. CASE Break
  BY <1>3, BreakIsRecorded DEF Break, Forget, RecordKept
<1>4. CASE MarkPending
  <2>1. CASE marker.state = "none"
    BY <1>4, <2>1 DEF MarkPending, MarkerShape, NoMarker, Nothing
  <2>2. CASE marker.state # "none"
    <3>1. /\ marker'.managed = marker.managed /\ marker'.activation = marker.activation
          /\ marker'.activated = marker.activated
      BY <1>4 DEF MarkPending
    <3> QED BY <1>4, <2>2, <3>1 DEF MarkPending
  <2> QED BY <2>1, <2>2
<1>5. CASE RemoveContainers
  BY <1>5 DEF RemoveContainers
<1>6. CASE Record
  BY <1>6, RequestAssumption DEF Record, RunAtStep, Enabling, Paths
<1>7. CASE Reexec \/ ReexecOff
  BY <1>7 DEF Reexec, ReexecOff
<1>8. CASE Complete
  BY <1>8 DEF Complete, RecordKept, Forget, End
<1>9. CASE RemoveMarker
  BY <1>9 DEF RemoveMarker, NoMarker, Forget, End
<1>10. ASSUME NEW f \in File, Render(f) PROVE FileKept'
  BY <1>10 DEF Render, After
<1>11. ASSUME NEW f \in File, Remove(f) PROVE FileKept'
  BY <1>11 DEF Remove, NoneKept
<1>12. ASSUME NEW s \in Service, Restart(s) \/ RestartOff(s) PROVE FileKept'
  BY <1>12 DEF Restart, RestartOff
<1>13. CASE MarkDisable
  BY <1>13 DEF MarkDisable, Paths
<1> QED BY <1>1, <1>2, <1>3, <1>4, <1>5, <1>6, <1>7, <1>8, <1>9, <1>10, <1>11, <1>12, <1>13, QuietBefore
        DEF Next, Enable, Disable, Environment

LEMMA ServicesStep == ASSUME Inv, Kept, Quiet, Quiet', [Next]_vars PROVE ServicesKept'
<1> USE DEF Inv, TypeOK, Marker, Kept, ServicesKept, host, locals
<1>1. CASE MarkPending \/ MarkDisable
  BY <1>1 DEF MarkPending, MarkDisable
<1>2. CASE Record
  BY <1>2, RequestAssumption
     DEF Record, RestartsDue, ManagerKept, FileKept, RunAtStep, MarkerShape, Enabling, Paths, IsPending, File
<1>3. CASE Complete
  BY <1>3 DEF Complete, RecordKept, RunAtStep, Enabling, Paying, Executed
<1>4. CASE RemoveMarker
  BY <1>4 DEF RemoveMarker, NoMarker
<1>5. ASSUME NEW s \in Service, Restart(s) PROVE ServicesKept'
  BY <1>5 DEF Restart, Paying, Executed
<1>6. ASSUME NEW s \in Service, RestartOff(s) PROVE ServicesKept'
  BY <1>6 DEF RestartOff, NoneKept
<1>7. CASE Reexec \/ ReexecOff
  BY <1>7 DEF Reexec, ReexecOff
<1> QED BY <1>1, <1>2, <1>3, <1>4, <1>5, <1>6, <1>7, Frame

LEMMA RecordStep == ASSUME Inv, Kept, Quiet, Quiet', [Next]_vars PROVE RecordKept'
<1> USE DEF Inv, TypeOK, Marker, Kept, RecordKept, host, locals, File
<1>1. CASE Begin \/ Unlock \/ UNCHANGED vars
  BY <1>1 DEF Begin, Unlock, vars
<1>2. CASE Inspect \/ Break \/ Complete \/ RemoveMarker
  BY <1>2 DEF Inspect, Break, Complete, RemoveMarker, Forget, End
<1>3. CASE MarkPending \/ RemoveContainers \/ MarkDisable \/ ReexecOff
  BY <1>3 DEF MarkPending, RemoveContainers, MarkDisable, ReexecOff
<1>4. CASE Record
  BY <1>4, RequestAssumption
     DEF Record, ManagerKept, FileKept, RunAtStep, MarkerShape, Enabling, Paths, IsPending
<1>5. CASE Reexec
  BY <1>5 DEF Reexec
<1>6. ASSUME NEW f \in File, Render(f) \/ Remove(f) PROVE RecordKept'
  BY <1>6 DEF Render, After, Remove
<1>7. ASSUME NEW s \in Service, Restart(s) \/ RestartOff(s) PROVE RecordKept'
  BY <1>7 DEF Restart, RestartOff
<1> QED BY <1>1, <1>2, <1>3, <1>4, <1>5, <1>6, <1>7, QuietBefore DEF Next, Enable, Disable, Environment

LEMMA NoneStep == ASSUME Inv, Kept, Quiet, Quiet', [Next]_vars PROVE NoneKept'
<1> USE DEF Inv, TypeOK, Marker, Kept, NoneKept, host, locals, File
<1>1. CASE Begin \/ Unlock \/ UNCHANGED vars
  BY <1>1 DEF Begin, Unlock, vars
<1>2. CASE Inspect
  BY <1>2 DEF Inspect, Inspected, MarkerShape, Paths, IsPending, Forget, End
<1>3. CASE Break \/ Complete \/ RemoveMarker
  BY <1>3 DEF Break, Complete, RemoveMarker, Forget, End
<1>4. CASE MarkPending \/ RemoveContainers \/ Record \/ Reexec
  BY <1>4 DEF MarkPending, RemoveContainers, Record, Reexec
<1>5. CASE MarkDisable
  BY <1>5 DEF MarkDisable, RunAtStep, MarkerShape, Disabling, Paths
<1>6. CASE ReexecOff
  BY <1>6 DEF ReexecOff, RunAtStep, Disabling
<1>7. ASSUME NEW f \in File, Render(f) \/ Remove(f) PROVE NoneKept'
  BY <1>7 DEF Render, After, Remove
<1>8. ASSUME NEW s \in Service, Restart(s) \/ RestartOff(s) PROVE NoneKept'
  BY <1>8 DEF Restart, RestartOff
<1> QED BY <1>1, <1>2, <1>3, <1>4, <1>5, <1>6, <1>7, <1>8, QuietBefore DEF Next, Enable, Disable, Environment

LEMMA KeptStep == ASSUME Inv, Kept, [Next]_vars PROVE Kept'
<1> SUFFICES ASSUME Quiet'
             PROVE  (ChangedHere /\ ManagerKept /\ FileKept /\ ServicesKept /\ RecordKept /\ NoneKept)'
  BY DEF Kept
<1>1. Quiet /\ ChangedHere
  BY QuietBefore DEF Kept
<1> QED BY <1>1, ChangedStep, ManagerStep, FileStep, ServicesStep, RecordStep, NoneStep

(* Nothing is forgotten through all interruptions but the one found.       *)
THEOREM NotForgotten == Spec => []ActivationIsNotForgotten
<1>1. Inv /\ Kept => ActivationIsNotForgotten
  BY DEF Inv, Kept, Quiet, ChangedHere, ManagerKept, ServicesKept, File, ActivationIsNotForgotten,
         NothingForgotten
<1>2. Spec => []Kept
  <2>1. Inv /\ Kept /\ [Next]_vars => Kept'
    BY KeptStep
  <2> QED BY <2>1, InitKept, ProxyInvariant, PTL DEF Spec
<1> QED BY <1>1, <1>2, ProxyInvariant, PTL
-----------------------------------------------------------------------------
(* Without an administrator's edits, every listed path holds what marker   *)
(* or run accounts for: nothing, the old content or the new one.           *)
Listed == Paths(marker.managed) \union (IF IsPending THEN Paths(marker.pending) ELSE {})

ListedRecognised ==
  /\ \A f \in Listed : Recognised(f)
  /\ pc = "mark" => \A f \in Paths(run.want) : Recognised(f)

(* A run that enables has rendered what lies behind it; one that disables  *)
(* has still to remove what it has seen.                                   *)
RunsUndisturbed ==
  /\ pc \in {"systemd", "containers", "record"} => file["base"] = run.want["base"]
  /\ pc \in {"containers", "record"} => file["systemd"] = run.want["systemd"]
  /\ pc = "record" /\ run.want["containers"] # Absent =>
       file["containers"] = run.want["containers"]
  /\ pc \in {"mark_off", "remove"} => \A f \in left : file[f] = seen[f]

Undisturbed == edits = 0 => ListedRecognised /\ RunsUndisturbed

LEMMA ListedStep ==
  ASSUME Inv, ListedRecognised, RunsUndisturbed, [Next]_vars, ~(\E f \in File : Edit(f))
  PROVE  ListedRecognised'
<1> USE ContentAssumption, RequestAssumption
    DEF Inv, TypeOK, Marker, Listing, ListedRecognised, Listed, Recognised, Paths, IsPending, File,
        locals
<1>1. CASE Begin \/ Unlock \/ UNCHANGED vars
  BY <1>1 DEF Begin, Unlock, vars
<1>2. CASE Inspect
  BY <1>2 DEF Inspect, Accepts, Inspected, MarkerShape, NoMarker, RunAtStep, Forget, End
<1>3. CASE Break
  BY <1>3 DEF Break, Forget
<1>4. CASE MarkPending
  BY <1>4 DEF MarkPending, RunAtStep, Enabling
<1>5. CASE RemoveContainers
  BY <1>5 DEF RemoveContainers
<1>6. CASE Record
  BY <1>6 DEF Record, RunAtStep, Enabling
<1>7. CASE Reexec \/ ReexecOff
  BY <1>7 DEF Reexec, ReexecOff
<1>8. CASE Complete
  BY <1>8 DEF Complete, Forget, End
<1>9. CASE MarkDisable
  BY <1>9 DEF MarkDisable
<1>10. CASE RemoveMarker
  BY <1>10 DEF RemoveMarker, NoMarker, Nothing, Forget, End
<1>11. ASSUME NEW f \in File, Render(f) PROVE ListedRecognised'
  BY <1>11 DEF Render, After, RunAtStep
<1>12. ASSUME NEW f \in File, Remove(f) PROVE ListedRecognised'
  BY <1>12 DEF Remove
<1>13. ASSUME NEW s \in Service, Restart(s) \/ RestartOff(s) PROVE ListedRecognised'
  BY <1>13 DEF Restart, RestartOff
<1> QED BY <1>1, <1>2, <1>3, <1>4, <1>5, <1>6, <1>7, <1>8, <1>9, <1>10, <1>11, <1>12, <1>13
        DEF Next, Enable, Disable, Environment

LEMMA RunsStep ==
  ASSUME Inv, RunsUndisturbed, [Next]_vars, ~(\E f \in File : Edit(f))
  PROVE  RunsUndisturbed'
<1> USE DEF Inv, TypeOK, RunsUndisturbed, File, locals
<1>1. CASE Begin \/ Unlock \/ UNCHANGED vars
  BY <1>1 DEF Begin, Unlock, vars
<1>2. CASE Inspect
  BY <1>2 DEF Inspect, Inspected, Paths, Forget, End
<1>3. CASE Break \/ Complete \/ RemoveMarker
  BY <1>3 DEF Break, Complete, RemoveMarker, Forget, End
<1>4. CASE MarkPending \/ RemoveContainers \/ Record \/ Reexec
  BY <1>4 DEF MarkPending, RemoveContainers, Record, Reexec
<1>5. CASE MarkDisable \/ ReexecOff
  BY <1>5 DEF MarkDisable, ReexecOff
<1>6. ASSUME NEW f \in File, Render(f) \/ Remove(f) PROVE RunsUndisturbed'
  BY <1>6 DEF Render, After, Remove
<1>7. ASSUME NEW s \in Service, Restart(s) \/ RestartOff(s) PROVE RunsUndisturbed'
  BY <1>7 DEF Restart, RestartOff
<1> QED BY <1>1, <1>2, <1>3, <1>4, <1>5, <1>6, <1>7 DEF Next, Enable, Disable, Environment

LEMMA UndisturbedInvariant == Spec => []Undisturbed
<1>1. Init => Undisturbed
  BY DEF Init, Undisturbed, ListedRecognised, RunsUndisturbed, Listed, NoMarker, Nothing, Paths,
         IsPending, File
<1>2. ASSUME Inv, Undisturbed, [Next]_vars PROVE Undisturbed'
  <2> SUFFICES ASSUME edits' = 0 PROVE ListedRecognised' /\ RunsUndisturbed'
    BY DEF Undisturbed
  <2>1. edits = 0 /\ ~(\E f \in File : Edit(f))
    BY <1>2, UneditedBefore
  <2> QED BY <1>2, <2>1, ListedStep, RunsStep DEF Undisturbed
<1> QED BY <1>1, <1>2, ProxyInvariant, PTL DEF Spec

(* Wherever a run was interrupted, the same inputs or a disabling run are  *)
(* accepted, and no run fails at a check of its own: only an edit can make *)
(* the role refuse (the README of the role on interrupted runs).           *)
THEOREM CanBeEnded == Spec => []InterruptedCanBeEnded
<1>1. Inv /\ Undisturbed => InterruptedCanBeEnded
  <2> SUFFICES ASSUME Inv, edits = 0, ListedRecognised, RunsUndisturbed
               PROVE  InterruptedCanBeEnded
    BY DEF Undisturbed, InterruptedCanBeEnded
  <2>1. pc = "inspect" /\ marker.state # "none" /\ Resumes => Accepts
    BY DEF Inv, TypeOK, Marker, MarkerShape, ListedRecognised, Listed, Resumes, Accepts, Inspected,
           MayDisable, IsPending
  <2>2. pc = "containers" /\ run.want["containers"] = Absent /\ marker.managed["containers"] # Absent
        => file["containers"] \in {Absent, marker.managed["containers"]}
    BY DEF Inv, RunAtStep, ListedRecognised, Listed, Recognised, Paths, IsPending, File
  <2>3. pc = "record" => \A f \in Paths(run.want) : file[f] = run.want[f]
    BY DEF RunsUndisturbed, Paths, File
  <2>4. pc = "remove" => \A f \in left : file[f] = seen[f]
    BY DEF RunsUndisturbed
  <2> QED BY <2>1, <2>2, <2>3, <2>4 DEF InterruptedCanBeEnded
<1> QED BY <1>1, ProxyInvariant, UndisturbedInvariant, PTL
================================================================================
