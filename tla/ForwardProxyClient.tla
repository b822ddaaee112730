--------------------------- MODULE ForwardProxyClient ---------------------------
(***************************************************************************)
(* roles/forward_proxy_client: runs that enable, change or disable the     *)
(* proxy defaults of a host. Files are written one by one; a marker file   *)
(* records what the role owns, a transition that is under way and the      *)
(* activation work (manager re-execution, service restarts) that is due.   *)
(* A run may fail or be killed between any two tasks.                      *)
(*                                                                         *)
(* Two kinds of file stand for five: "systemd" is what the manager reads,  *)
(* "base" the three that are always rendered with it, "containers" the     *)
(* optional one. A content is the version of the inputs it was rendered    *)
(* from; a version need not change every file.                             *)
(***************************************************************************)
EXTENDS Naturals

CONSTANTS
  Version, Absent, Foreign,  \* contents: rendered by the role, no file, anything else
  Service,
  Request,                   \* the inputs of a run
  MaxEdits                   \* bound: edits by an administrator

File == {"base", "systemd", "containers"}
Content == Version \union {Absent, Foreign}
Listing == [File -> Version \union {Absent}]   \* checksums by path; Absent: not listed
Nothing == [f \in File |-> Absent]
Paths(listing) == {f \in File : listing[f] # Absent}

(* forward_proxy_client_base_managed_paths_internal are always rendered.   *)
ASSUME ContentAssumption == Absent \notin Version /\ Foreign \notin Version \union {Absent}
ASSUME RequestAssumption ==
  \A r \in Request :
    /\ r.enabled \in BOOLEAN /\ r.manage \in BOOLEAN /\ r.now \in BOOLEAN
    /\ r.services \subseteq Service
    /\ r.want \in Listing /\ {"base", "systemd"} \subseteq Paths(r.want)
ASSUME BoundAssumption == MaxEdits \in Nat

VARIABLES
  file,      \* what is at each path
  marker,    \* the managed-state marker
  lock,      \* "free", "held" or "stale": left by a killed run
  pc, run,   \* the step and the inputs of the run that has the lock
  changed,   \* the files it has rendered with a change
  left,      \* the files it has still to remove
  seen,      \* what its inspection has found
  todo,      \* the services it has still to restart
  manager,   \* the defaults the systemd manager has loaded
  env,       \* the defaults each service was started with
  edits,
  lost       \* whether a run has ended with changes rendered and not recorded

host == <<manager, env>>
outside == <<edits, lost>>
locals == <<run, changed, left, seen, todo>>
vars == <<file, marker, lock, pc, run, changed, left, seen, todo, manager, env, edits, lost>>

NoMarker ==
  [state |-> "none", managed |-> Nothing, pending |-> Nothing, activation |-> FALSE,
   restarts |-> {}, activated |-> {}]

NoRun ==
  [enabled |-> FALSE, want |-> Nothing, manage |-> FALSE, now |-> FALSE, services |-> {}]

Marker ==
  [state : {"none", "stable", "pending"}, managed : Listing, pending : Listing,
   activation : BOOLEAN, restarts : SUBSET Service, activated : SUBSET Service]

Label ==
  File \union {"idle", "inspect", "mark", "record", "reexec", "restart",
               "mark_off", "remove", "restart_off"}

(* Types.                                                                  *)
TypeOK ==
  /\ file \in [File -> Content] /\ marker \in Marker
  /\ lock \in {"free", "held", "stale"} /\ pc \in Label /\ run \in Request \union {NoRun}
  /\ changed \subseteq File /\ left \subseteq File /\ seen \in [File -> Content]
  /\ todo \subseteq Service
  /\ manager \in Content /\ env \in [Service -> Content]
  /\ edits \in 0..MaxEdits /\ lost \in BOOLEAN

Init ==
  /\ file \in [File -> {Absent, Foreign}] /\ marker = NoMarker
  /\ lock = "free" /\ pc = "idle" /\ run = NoRun
  /\ changed = {} /\ left = {} /\ seen = Nothing /\ todo = {}
  /\ manager = Absent /\ env = [s \in Service |-> Absent]
  /\ edits = 0 /\ lost = FALSE

-----------------------------------------------------------------------------
(* The lock and the end of a run.                                          *)

(* mkdir; a run that finds the lock waits and then gives up.               *)
Begin ==
  /\ lock = "free" /\ lock' = "held" /\ pc = "idle" /\ pc' = "inspect"
  /\ run' \in Request
  /\ UNCHANGED <<file, marker, changed, left, seen, todo, host, outside>>

(* The variables of a run end with it.                                     *)
Forget ==
  /\ pc' = "idle" /\ run' = NoRun /\ changed' = {} /\ left' = {} /\ seen' = Nothing
  /\ todo' = {}

(* The always section: rmdir.                                              *)
End == Forget /\ lock' = "free"

Unrecorded == changed # {} /\ pc \in File \union {"record"}

(* A task fails, or one of the checks it makes; or the run is killed, and  *)
(* its lock stays.                                                         *)
Break ==
  /\ pc # "idle" /\ Forget /\ lock' \in {"free", "stale"}
  /\ lost' = (lost \/ Unrecorded)
  /\ UNCHANGED <<file, marker, host, edits>>

(* The operator inspects and removes a stale lock.                         *)
Unlock ==
  /\ lock = "stale" /\ lock' = "free"
  /\ UNCHANGED <<file, marker, pc, locals, host, outside>>

(* The administrator changes or removes a file, with no regard to the lock. *)
Edit(f) ==
  /\ edits < MaxEdits /\ edits' = edits + 1
  /\ \E c \in {Absent, Foreign} : file' = [file EXCEPT ![f] = c]
  /\ UNCHANGED <<marker, lock, pc, locals, host, lost>>

-----------------------------------------------------------------------------
(* transition.yml: the inspection of both directions.                      *)

IsPending == marker.state = "pending"

(* Mutant of Recognised: a pending transition is looked up like any other. *)
RecognisedManaged(f) == file[f] \in {Absent, marker.managed[f]}

(* Nothing, the recorded checksum, or the one of the pending transition.   *)
Recognised(f) ==
  file[f] \in {Absent, marker.managed[f]} \union (IF IsPending THEN {marker.pending[f]} ELSE {})

(* The paths of the previous manifest; then the pending ones, or those a   *)
(* run that enables, or finds no marker, would add.                        *)
Inspected ==
  Paths(marker.managed) \union
    IF IsPending THEN Paths(marker.pending)
    ELSE IF run.enabled \/ marker.state = "none" THEN Paths(run.want) ELSE {}

ServicesToDisable == marker.restarts \union marker.activated \union run.services

MayDisable ==
  /\ "systemd" \in Paths(marker.managed) \union Paths(marker.pending) => run.manage
  /\ ServicesToDisable # {} => run.manage /\ run.now

(* An interrupted transition is finished with the same inputs or disabled. *)
Accepts ==
  /\ \A f \in Inspected : Recognised(f)
  /\ marker.state # "none" =>
       {"base", "systemd"} \subseteq Paths(marker.managed) \union Paths(marker.pending)
  /\ IsPending /\ run.enabled => marker.pending = run.want
  /\ ~run.enabled /\ marker.state # "none" => MayDisable

Inspect ==
  /\ pc = "inspect" /\ Accepts
  /\ IF run.enabled THEN pc' = "mark" /\ UNCHANGED <<lock, locals>>
     ELSE IF marker.state = "none" THEN End
     ELSE /\ pc' = "mark_off" /\ seen' = file
          /\ left' = {f \in Inspected : file[f] # Absent}
          /\ UNCHANGED <<lock, run, changed, todo>>
  /\ UNCHANGED <<file, marker, host, outside>>

-----------------------------------------------------------------------------
(* enabled.yml.                                                            *)

(* Mutant of MarkPending: a first transition is not recorded.              *)
MarkPendingAgain ==
  /\ pc = "mark" /\ pc' = "base"
  /\ marker' = IF marker.state # "none" /\ (IsPending \/ marker.managed # run.want)
               THEN [marker EXCEPT !.state = "pending", !.pending = run.want]
               ELSE marker
  /\ UNCHANGED <<file, lock, locals, host, outside>>

(* The old checksums stay beside the new ones.                             *)
MarkPending ==
  /\ pc = "mark" /\ pc' = "base"
  /\ marker' = IF IsPending \/ marker.managed # run.want
               THEN [marker EXCEPT !.state = "pending", !.pending = run.want]
               ELSE marker
  /\ UNCHANGED <<file, lock, locals, host, outside>>

After(f) == CASE f = "base" -> "systemd" [] f = "systemd" -> "containers"
              [] f = "containers" -> "record"

Render(f) ==
  /\ pc = f /\ pc' = After(f) /\ run.want[f] # Absent
  /\ file' = [file EXCEPT ![f] = run.want[f]]
  /\ changed' = IF file[f] = run.want[f] THEN changed ELSE changed \union {f}
  /\ UNCHANGED <<marker, lock, run, left, seen, todo, host, outside>>

(* remove_managed_path.yml inspects once more. The result registered for   *)
(* an include_tasks never says changed.                                    *)
RemoveContainers ==
  /\ pc = "containers" /\ pc' = "record" /\ run.want["containers"] = Absent
  /\ IF marker.managed["containers"] = Absent THEN UNCHANGED file
     ELSE /\ file["containers"] \in {Absent, marker.managed["containers"]}
          /\ file' = [file EXCEPT !["containers"] = Absent]
  /\ UNCHANGED <<marker, lock, locals, host, outside>>

(* Mutant of RestartsDue: only services of this run's inputs.              *)
RestartsOfThisRun ==
  marker.restarts \union
    IF changed # {} THEN run.services ELSE run.services \ marker.activated

(* A change is due for every service that has been activated before, and   *)
(* a service that is new to the list is due in any case.                   *)
RestartsDue ==
  marker.restarts \union
    IF changed # {} THEN marker.activated \union run.services
    ELSE run.services \ marker.activated

(* Rendered files are verified, then owned; the work is recorded as due.   *)
Record ==
  /\ pc = "record" /\ pc' = "reexec"
  /\ \A f \in Paths(run.want) : file[f] = run.want[f]
  /\ marker' = [state |-> "stable", managed |-> run.want, pending |-> Nothing,
                activation |-> marker.activation \/ "systemd" \in changed,
                restarts |-> RestartsDue, activated |-> marker.activated]
  /\ todo' = IF run.manage /\ run.now THEN RestartsDue \intersect run.services ELSE {}
  /\ UNCHANGED <<file, lock, run, changed, left, seen, host, outside>>

Reexec ==
  /\ pc = "reexec" /\ pc' = "restart"
  /\ manager' = IF run.manage /\ marker.activation THEN file["systemd"] ELSE manager
  /\ UNCHANGED <<file, marker, lock, locals, env, outside>>

Restart(s) ==
  /\ pc = "restart" /\ s \in todo /\ todo' = todo \ {s}
  /\ env' = [env EXCEPT ![s] = manager]
  /\ UNCHANGED <<file, marker, lock, pc, run, changed, left, seen, manager, outside>>

(* Mutant of Complete: everything due counts as done.                      *)
CompleteAll ==
  /\ pc = "restart" /\ todo = {} /\ End
  /\ marker' = [marker EXCEPT !.activation = @ /\ ~run.manage,
                              !.restarts = IF run.manage /\ run.now THEN {} ELSE @,
                              !.activated = IF run.manage /\ run.now
                                            THEN @ \union marker.restarts ELSE @]
  /\ UNCHANGED <<file, host, outside>>

(* Only the services of this run's inputs were restarted.                  *)
Complete ==
  /\ pc = "restart" /\ todo = {} /\ End
  /\ LET done == IF run.manage /\ run.now THEN marker.restarts \intersect run.services ELSE {}
     IN marker' = [marker EXCEPT !.activation = @ /\ ~run.manage,
                                 !.restarts = @ \ done, !.activated = @ \union done]
  /\ UNCHANGED <<file, host, outside>>

-----------------------------------------------------------------------------
(* transition.yml: disabling.                                              *)

(* Mutant of MarkDisable: services activated before are forgotten.         *)
MarkDisableOwed ==
  /\ pc = "mark_off" /\ pc' = "remove"
  /\ marker' = [marker EXCEPT
       !.activation = @ \/ "systemd" \in Paths(marker.managed) \union Paths(marker.pending),
       !.restarts = @ \union run.services, !.activated = {}]
  /\ todo' = marker.restarts \union run.services
  /\ UNCHANGED <<file, lock, run, changed, left, seen, host, outside>>

MarkDisable ==
  /\ pc = "mark_off" /\ pc' = "remove"
  /\ marker' = [marker EXCEPT
       !.activation = @ \/ "systemd" \in Paths(marker.managed) \union Paths(marker.pending),
       !.restarts = ServicesToDisable, !.activated = {}]
  /\ todo' = ServicesToDisable
  /\ UNCHANGED <<file, lock, run, changed, left, seen, host, outside>>

(* In the order of the list; here in any order.                            *)
Remove(f) ==
  /\ pc = "remove" /\ f \in left /\ left' = left \ {f}
  /\ file[f] = seen[f] /\ file' = [file EXCEPT ![f] = Absent]
  /\ UNCHANGED <<marker, lock, pc, run, changed, seen, todo, host, outside>>

ReexecOff ==
  /\ pc = "remove" /\ left = {} /\ pc' = "restart_off"
  /\ manager' = IF run.manage THEN file["systemd"] ELSE manager
  /\ UNCHANGED <<file, marker, lock, locals, env, outside>>

RestartOff(s) ==
  /\ pc = "restart_off" /\ s \in todo /\ todo' = todo \ {s}
  /\ env' = [env EXCEPT ![s] = manager]
  /\ UNCHANGED <<file, marker, lock, pc, run, changed, left, seen, manager, outside>>

(* The marker goes last.                                                   *)
RemoveMarker ==
  /\ pc = "restart_off" /\ todo = {} /\ End /\ marker' = NoMarker
  /\ UNCHANGED <<file, host, outside>>

Enable ==
  \/ MarkPending \/ RemoveContainers \/ Record \/ Reexec \/ Complete
  \/ \E f \in File : Render(f)
  \/ \E s \in Service : Restart(s)

Disable ==
  \/ MarkDisable \/ ReexecOff \/ RemoveMarker
  \/ \E f \in File : Remove(f)
  \/ \E s \in Service : RestartOff(s)

Environment == Break \/ Unlock \/ \E f \in File : Edit(f)

Next == Begin \/ Inspect \/ Enable \/ Disable \/ Environment

Spec == Init /\ [][Next]_vars

-----------------------------------------------------------------------------
(* Wherever a run was interrupted, a file with content of the role is one  *)
(* the next run recognises by checksum: the transition can be finished or  *)
(* disabled (README: "can safely finish or disable and remove the same     *)
(* transition"), and no content of the role stays behind disowned.         *)
OwnFilesAreRecognised ==
  pc = "idle" => \A f \in File : file[f] \in Version => Recognised(f)

(* Where no administrator has edited a file, a run with the inputs of the  *)
(* interrupted transition and one that disables everything are accepted    *)
(* wherever earlier runs have stopped, and no run fails at a check of its  *)
(* own later on (README: "can safely finish or disable and remove the same *)
(* transition"; inspect, verify and remove_managed_path).                  *)
Resumes ==
  IF run.enabled THEN IsPending /\ marker.pending = run.want ELSE run.manage /\ run.now

InterruptedCanBeEnded ==
  edits = 0 =>
    /\ pc = "inspect" /\ marker.state # "none" /\ Resumes => Accepts
    /\ pc = "containers" /\ run.want["containers"] = Absent
         /\ marker.managed["containers"] # Absent =>
           file["containers"] \in {Absent, marker.managed["containers"]}
    /\ pc = "record" => \A f \in Paths(run.want) : file[f] = run.want[f]
    /\ pc = "remove" => \A f \in left : file[f] = seen[f]

(* Without the marker no manager and no service keeps proxy defaults, so   *)
(* a completed disable has reached every service a run ever activated      *)
(* (transition.yml's message about stale proxy variables).                 *)
NothingStaleAfterDisable ==
  marker.state = "none" => manager \notin Version /\ \A s \in Service : env[s] \notin Version

(* Due work leaves the marker only when it is done: the manager has the    *)
(* recorded defaults, or what an administrator put in their place, and the *)
(* services have those of the manager.                                     *)
DebtsArePaid ==
  [][marker'.state = "stable" =>
       /\ marker.activation /\ ~marker'.activation =>
            manager \notin Version \ {marker'.managed["systemd"]}
       /\ \A s \in marker.restarts \ marker'.restarts : env[s] = manager]_vars

(* With nothing due the manager has the recorded defaults, and so has an   *)
(* activated service that is not due.                                      *)
NothingForgotten ==
  pc = "idle" /\ marker.state = "stable" =>
    /\ ~marker.activation => manager = marker.managed["systemd"]
    /\ \A s \in marker.activated \ marker.restarts : env[s] = marker.managed["systemd"]

(* Through all interruptions but the one of ActivationSurvivesRendering,   *)
(* staged runs, and runs with other service lists in between (the         *)
(* accounting of pending, activated and listed services in enabled.yml).   *)
ActivationIsNotForgotten == edits = 0 /\ ~lost => NothingForgotten

(* Through all of them (README: forward_proxy_client_restart_now "flushes  *)
(* the exact pending restart set, including work recorded by an earlier    *)
(* staged or failed activation").                                          *)
ActivationSurvivesRendering == edits = 0 => NothingForgotten
================================================================================
