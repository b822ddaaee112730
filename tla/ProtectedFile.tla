----------------------------- MODULE ProtectedFile -----------------------------
(***************************************************************************)
(* The protected file access of                                            *)
(* scripts/materialize-exact-revision-review.py: one call of               *)
(* protected_asset_bytes ("read") or of write_owned_regular_file           *)
(* ("write"), with the walk of open_owned_parent_directory before it.      *)
(* Every system call may fail, and the process may be killed.              *)
(*                                                                         *)
(* A close that fails may or may not have released its descriptor, whose   *)
(* number another thread may already be using: a descriptor is closed by   *)
(* one attempt, whatever that attempt returns, and not used after it.      *)
(* Descriptors are numbered in the order they are opened.                  *)
(***************************************************************************)
EXTENDS Naturals

CONSTANT Depth     \* components of the parent path below its anchor

ASSUME DepthAssumption == Depth \in Nat

Fd == 1..(Depth + 3)      \* anchor, components, existing target, temporary file
NoFd == 0

VARIABLES
  mode,        \* "read" or "write"
  pc,
  left,        \* components still to walk
  directory, nextDir, descriptor,  \* descriptors the code holds, or NoFd
  opens,       \* descriptors opened so far
  attempts,    \* close attempts on each
  cause,       \* the first operation that failed, or "none"
  target,      \* "absent", "unsafe", "old" or "new"
  temp,        \* the temporary name: "absent", "partial", "whole", or
               \* "stuck" when its removal has failed
  result       \* "none", "ok" or "fail"

files == <<target, temp>>
vars == <<mode, pc, left, directory, nextDir, descriptor, opens, attempts,
          cause, target, temp, result>>

ReadSteps == {"open_asset", "read_asset", "finally_read"}
WriteSteps == {"open_existing", "inspect", "open_temp", "fill", "seal", "replace", "sync",
               "finally_temp", "finally_unlink", "finally_write"}
Label == {"anchor", "walk", "hop", "check", "done", "dead"} \union ReadSteps \union WriteSteps

(* Types.                                                                  *)
TypeOK ==
  /\ mode \in {"read", "write"} /\ pc \in Label
  /\ left \in 0..Depth /\ opens \in 0..(Depth + 3)
  /\ directory \in Fd \union {NoFd} /\ nextDir \in Fd \union {NoFd}
  /\ descriptor \in Fd \union {NoFd}
  /\ attempts \in [Fd -> Nat] /\ cause \in Label \union {"none"}
  /\ target \in {"absent", "unsafe", "old", "new"}
  /\ temp \in {"absent", "partial", "whole", "stuck"}
  /\ result \in {"none", "ok", "fail"}

Init ==
  /\ mode \in {"read", "write"} /\ pc = "anchor" /\ left = Depth
  /\ directory = NoFd /\ nextDir = NoFd /\ descriptor = NoFd
  /\ opens = 0 /\ attempts = [f \in Fd |-> 0] /\ cause = "none"
  /\ target \in {"absent", "unsafe", "old"} /\ temp = "absent" /\ result = "none"

-----------------------------------------------------------------------------

(* One close attempt on each descriptor of a set (close_descriptor_after_  *)
(* error); the attempt may fail, and is an attempt all the same.           *)
Close(fds) == attempts' = [f \in Fd |-> attempts[f] + (IF f \in fds THEN 1 ELSE 0)]

Opened == opens + 1
Open == opens' = Opened /\ UNCHANGED attempts
Goto(step) == pc' = step
Blame(step) == cause' = IF cause = "none" THEN step ELSE cause

Fails(step) == pc' = "done" /\ result' = "fail" /\ Blame(step)

OpenAnchor ==
  /\ pc = "anchor"
  /\ \/ Open /\ directory' = Opened /\ Goto("walk") /\ UNCHANGED <<cause, result>>
     \/ Fails("anchor") /\ UNCHANGED <<directory, opens, attempts>>
  /\ UNCHANGED <<mode, left, nextDir, descriptor, files>>

(* A component that cannot be opened or is ".." ends the call; the         *)
(* directory reached so far is closed.                                     *)
OpenComponent ==
  /\ pc = "walk" /\ left > 0
  /\ \/ Open /\ nextDir' = Opened /\ Goto("hop") /\ UNCHANGED <<directory, cause, result>>
     \/ /\ Close({directory}) /\ directory' = NoFd /\ Fails("walk")
        /\ UNCHANGED <<nextDir, opens>>
  /\ UNCHANGED <<mode, left, descriptor, files>>

(* Mutant of Hop: the failed close is repeated with the other cleanup.     *)
HopClosingTwice ==
  /\ pc = "hop" /\ nextDir' = NoFd
  /\ \/ /\ Close({directory}) /\ directory' = nextDir /\ left' = left - 1 /\ Goto("walk")
        /\ UNCHANGED <<cause, result>>
     \/ /\ attempts' = [f \in Fd |-> attempts[f] + (IF f = nextDir THEN 1
                                                    ELSE IF f = directory THEN 2 ELSE 0)]
        /\ directory' = NoFd /\ Fails("hop") /\ UNCHANGED left
  /\ UNCHANGED <<mode, descriptor, opens, files>>

(* The previous directory is closed; if that fails, the new one too.       *)
Hop ==
  /\ pc = "hop" /\ nextDir' = NoFd
  /\ \/ /\ Close({directory}) /\ directory' = nextDir /\ left' = left - 1 /\ Goto("walk")
        /\ UNCHANGED <<cause, result>>
     \/ /\ Close({directory, nextDir}) /\ directory' = NoFd /\ Fails("hop")
        /\ UNCHANGED left
  /\ UNCHANGED <<mode, descriptor, opens, files>>

EndOfWalk ==
  /\ pc = "walk" /\ left = 0 /\ Goto("check")
  /\ UNCHANGED <<mode, left, directory, nextDir, descriptor, opens, attempts, cause,
                 files, result>>

(* fstat, and the parent's type, owner and mode.                           *)
CheckParent ==
  /\ pc = "check"
  /\ \/ /\ Goto(IF mode = "read" THEN "open_asset" ELSE "open_existing")
        /\ UNCHANGED <<directory, attempts, cause, result>>
     \/ Close({directory}) /\ directory' = NoFd /\ Fails("check")
  /\ UNCHANGED <<mode, left, nextDir, descriptor, opens, files>>

-----------------------------------------------------------------------------
(* protected_asset_bytes.                                                  *)

OpenAsset ==
  /\ pc = "open_asset"
  /\ \/ /\ target # "absent" /\ Open /\ descriptor' = Opened
        /\ Goto("read_asset") /\ UNCHANGED cause
     \/ Goto("finally_read") /\ Blame("open_asset") /\ UNCHANGED <<descriptor, opens, attempts>>
  /\ UNCHANGED <<mode, left, directory, nextDir, files, result>>

(* fstat, type, links, owner, mode, size, and the bounded read.            *)
ReadAsset ==
  /\ pc = "read_asset" /\ Goto("finally_read")
  /\ \/ target # "unsafe" /\ UNCHANGED cause
     \/ Blame("read_asset")
  /\ UNCHANGED <<mode, left, directory, nextDir, descriptor, opens, attempts, files, result>>

(* Mutant of FinallyRead: the descriptor is closed only on success.        *)
FinallyReadLeaking ==
  /\ pc = "finally_read" /\ Goto("done")
  /\ Close(IF cause = "none" THEN {descriptor, directory} ELSE {directory})
  /\ descriptor' = NoFd /\ directory' = NoFd
  /\ \/ UNCHANGED cause
     \/ Blame("finally_read")
  /\ result' = IF cause' = "none" THEN "ok" ELSE "fail"
  /\ UNCHANGED <<mode, left, nextDir, opens, files>>

(* Both closes are attempted; their failure counts if nothing else failed. *)
FinallyRead ==
  /\ pc = "finally_read" /\ Goto("done")
  /\ Close({descriptor, directory} \ {NoFd})
  /\ descriptor' = NoFd /\ directory' = NoFd
  /\ \/ UNCHANGED cause
     \/ Blame("finally_read")
  /\ result' = IF cause' = "none" THEN "ok" ELSE "fail"
  /\ UNCHANGED <<mode, left, nextDir, opens, files>>

-----------------------------------------------------------------------------
(* write_owned_regular_file.                                               *)

OpenExisting ==
  /\ pc = "open_existing"
  /\ \/ /\ target # "absent" /\ Open /\ descriptor' = Opened
        /\ Goto("inspect") /\ UNCHANGED cause
     \/ target = "absent" /\ Goto("open_temp") /\ UNCHANGED <<descriptor, opens, attempts, cause>>
     \/ /\ Goto("finally_temp") /\ Blame("open_existing")
        /\ UNCHANGED <<descriptor, opens, attempts>>
  /\ UNCHANGED <<mode, left, directory, nextDir, files, result>>

(* What is to be replaced must be a safe file; its own close may fail too. *)
InspectExisting ==
  /\ pc = "inspect" /\ Close({descriptor}) /\ descriptor' = NoFd
  /\ \/ target # "unsafe" /\ Goto("open_temp") /\ UNCHANGED cause
     \/ Goto("finally_temp") /\ Blame("inspect")
  /\ UNCHANGED <<mode, left, directory, nextDir, opens, files, result>>

OpenTemporary ==
  /\ pc = "open_temp"
  /\ \/ Open /\ descriptor' = Opened /\ temp' = "partial" /\ Goto("fill") /\ UNCHANGED cause
     \/ /\ Goto("finally_temp") /\ Blame("open_temp")
        /\ UNCHANGED <<descriptor, opens, attempts, temp>>
  /\ UNCHANGED <<mode, left, directory, nextDir, target, result>>

(* fstat, fchmod, the writes, fsync, fstat and the read back.              *)
Fill ==
  /\ pc = "fill"
  /\ \/ temp' = "whole" /\ Goto("seal") /\ UNCHANGED cause
     \/ Goto("finally_temp") /\ Blame("fill") /\ UNCHANGED temp
  /\ UNCHANGED <<mode, left, directory, nextDir, descriptor, opens, attempts, target, result>>

(* Mutant of Seal: the variable still names the descriptor at the close.   *)
SealKeepingNumber ==
  /\ pc = "seal" /\ Close({descriptor})
  /\ \/ Goto("replace") /\ descriptor' = NoFd /\ UNCHANGED cause
     \/ Goto("finally_temp") /\ Blame("seal") /\ UNCHANGED descriptor
  /\ UNCHANGED <<mode, left, directory, nextDir, opens, files, result>>

Seal ==
  /\ pc = "seal" /\ Close({descriptor}) /\ descriptor' = NoFd
  /\ \/ Goto("replace") /\ UNCHANGED cause
     \/ Goto("finally_temp") /\ Blame("seal")
  /\ UNCHANGED <<mode, left, directory, nextDir, opens, files, result>>

(* Mutant of Replace: its failure goes unnoticed.                          *)
ReplaceOrNot ==
  /\ pc = "replace"
  /\ \/ target' = "new" /\ temp' = "absent" /\ Goto("sync") /\ UNCHANGED cause
     \/ Goto("finally_temp") /\ UNCHANGED <<cause, files>>
  /\ UNCHANGED <<mode, left, directory, nextDir, descriptor, opens, attempts, result>>

Replace ==
  /\ pc = "replace"
  /\ \/ target' = "new" /\ temp' = "absent" /\ Goto("sync") /\ UNCHANGED cause
     \/ Goto("finally_temp") /\ Blame("replace") /\ UNCHANGED files
  /\ UNCHANGED <<mode, left, directory, nextDir, descriptor, opens, attempts, result>>

(* Mutant of SyncDirectory: a failing directory fsync is an error.         *)
SyncOrFail ==
  /\ pc = "sync" /\ Goto("finally_temp")
  /\ \/ UNCHANGED cause
     \/ Blame("sync")
  /\ UNCHANGED <<mode, left, directory, nextDir, descriptor, opens, attempts, files, result>>

(* The replacement is the commit point; this fsync may fail unnoticed.     *)
SyncDirectory ==
  /\ pc = "sync" /\ Goto("finally_temp")
  /\ UNCHANGED <<mode, left, directory, nextDir, descriptor, opens, attempts, cause,
                 files, result>>

FinallyTemporary ==
  /\ pc = "finally_temp" /\ Goto("finally_unlink")
  /\ Close({descriptor} \ {NoFd}) /\ descriptor' = NoFd
  /\ \/ UNCHANGED cause
     \/ descriptor # NoFd /\ Blame("finally_temp")
  /\ UNCHANGED <<mode, left, directory, nextDir, opens, files, result>>

(* Mutant of FinallyUnlink: nothing removes the temporary file.            *)
FinallyKeepTemporary ==
  /\ pc = "finally_unlink" /\ Goto("finally_write")
  /\ UNCHANGED <<mode, left, directory, nextDir, descriptor, opens, attempts, cause,
                 files, result>>

(* Without a replacement the temporary name is removed, if that succeeds.  *)
FinallyUnlink ==
  /\ pc = "finally_unlink" /\ Goto("finally_write")
  /\ \/ temp' = "absent" /\ UNCHANGED cause
     \/ /\ target # "new" /\ Blame("finally_unlink")
        /\ temp' = IF temp = "absent" THEN "absent" ELSE "stuck"
  /\ UNCHANGED <<mode, left, directory, nextDir, descriptor, opens, attempts, target, result>>

FinallyWrite ==
  /\ pc = "finally_write" /\ Goto("done")
  /\ Close({directory}) /\ directory' = NoFd
  /\ \/ UNCHANGED cause
     \/ Blame("finally_write")
  /\ result' = IF cause' = "none" THEN "ok" ELSE "fail"
  /\ UNCHANGED <<mode, left, nextDir, descriptor, opens, files>>

(* The process is killed: the system releases its descriptors.             *)
Killed ==
  /\ pc \notin {"done", "dead"} /\ Goto("dead")
  /\ UNCHANGED <<mode, left, directory, nextDir, descriptor, opens, attempts, cause,
                 files, result>>

Walk == OpenAnchor \/ OpenComponent \/ Hop \/ EndOfWalk \/ CheckParent
ReadFile == OpenAsset \/ ReadAsset \/ FinallyRead
WriteFile ==
  \/ OpenExisting \/ InspectExisting \/ OpenTemporary \/ Fill \/ Seal \/ Replace
  \/ SyncDirectory \/ FinallyTemporary \/ FinallyUnlink \/ FinallyWrite

Next == Walk \/ ReadFile \/ WriteFile \/ Killed

Spec == Init /\ [][Next]_vars

-----------------------------------------------------------------------------
Held == {directory, nextDir, descriptor} \ {NoFd}

(* On every path through the walk, the call and its finally blocks, each   *)
(* descriptor gets one close attempt and no use after it, and none is left *)
(* behind when the call returns (close_descriptor_after_error's comment).  *)
ClosedExactlyOnce ==
  /\ \A f \in Fd : attempts[f] <= 1
  /\ pc # "dead" => \A f \in Held : attempts[f] = 0
  /\ pc = "done" => \A f \in 1..opens : attempts[f] = 1

(* A call that returns failure has changed nothing, unless the last close  *)
(* of the parent directory is what failed after the replacement; and no    *)
(* call leaves its temporary file whose removal it could have made (the    *)
(* finally block of write_owned_regular_file).                             *)
FailureIsClean ==
  /\ result = "fail" /\ target = "new" => cause = "finally_write"
  /\ result # "none" => temp \in {"absent", "stuck"}

(* A target that is no single regular file of the user, or that others may *)
(* write, is never replaced.                                               *)
UnsafeStays == [][target = "unsafe" => target' = "unsafe"]_target

Promise == INSTANCE AtomicWrite
  WITH New <- "new", Old <- {"absent", "unsafe", "old"}, debris <- temp # "absent",
       outcome <- IF mode = "write" THEN result ELSE "none"

(* A write, with all its failures and kills, is an atomic replacement.     *)
WritesAtomically == Promise!Spec
================================================================================
