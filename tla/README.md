# Guarded host changes of `lit.ubuntu`: a TLA+ model

This directory specifies, model-checks and proves properties of the four programs
of the collection that keep state across failures:

- `roles/host_firewall/files/firewall_transaction.py`, with its three systemd
  units, which loads a candidate nftables ruleset and makes it permanent only
  after a signed confirmation;
- `roles/openssh_server/files/transaction.py`, which retires SSH ports and undoes
  the change unless it is confirmed within 300 seconds;
- the tasks of `roles/forward_proxy_client`, which own a set of files and the
  activation work they entail through one marker file;
- `scripts/materialize-exact-revision-review.py`, which publishes the diff of one
  exact revision for review, seals it and verifies it again.

The first two run as root, take one `flock`, leave their state in files,
start systemd timers and services that run the same program again, and have to be
right when a command fails, a process is killed, the power goes, a timer fires
late, or two runs wait for the lock together. The third may be interrupted between any
two tasks and must be able to go on. The fourth reads a child's two pipes under a
deadline, handles descriptors whose close may fail, and reads a pull request that moves.
Everything else in the collection is declarative tasks, templates and wrappers.

File and line references are relative to the repository root.

## 1. Inventory

### 1.1 Host firewall transaction (`roles/host_firewall`)

| Part | State it keeps | Operations |
| --- | --- | --- |
| transaction program | `active.json` (pointer), `transactions/<id>/` (metadata, backups, staged request and receipt, rollback authorization, `terminal.json`), `claims/<id>.json`, the persistent include, the lock | `apply`, `stage-confirm`, `confirm`, `rollback`, `install-runtime` |
| rollback timer and service | enabled link, timer state, start-limit counter | fire, start, restart on failure, refuse past the limit |
| confirmation service | none of its own | run `confirm`; `OnFailure=` starts the rollback |
| kernel table | the running ruleset | load, delete |
| role tasks | none | run the program, start the confirmation service |
| confirmation verifier | none | a pure function of the request |

*Interactions.* A role task runs `apply`, which snapshots the include and the
running table, spends the claim, publishes the pointer, enables and starts the timer
and loads the candidate. A later task stages the confirmation and starts
the confirmation service, which stops the timer, checks again, spends the second
claim, replaces the include, publishes `terminal.json`, disables the timer and
removes the pointer. The timer starts the rollback service, which restores include
and table and then ends in the same way. An exception in the armed part of `apply`
rolls back inline.

*Hard behaviour.* The timer firing around the stop of the timer; the lock being held
by another run; kills between any two durable steps; power loss followed by a boot
that loads the include and starts the timer again; exclusive writes that are torn;
the start limit of the rollback service; edits of the program, units or
administrator root while a transaction is open; budgets that run
against the watchdog.

*What makes it correct.* An undecided candidate is never what a boot loads without
a watchdog to undo it; it is eventually decided; a decision is made once, is in
force when it can be read, and nothing undoes it; each signed authorization takes
effect at most once; the timer is off between transactions; every run is over
before the watchdog or `TimeoutStartSec=` falls due.

### 1.2 OpenSSH port retirement (`roles/openssh_server`)

| Part | State it keeps | Operations |
| --- | --- | --- |
| transaction program | `state.json` (status, snapshot, deadline), the managed drop-in and the other SSH files, the lock | `apply`, `confirm`, `rollback` (`plan` only reads) |
| rollback timer and service | unit file with the deadline, enabled link, trigger stamp, timer state | fire at the date, restart every 5 s on failure |
| listeners | `ssh.socket`, `ssh.service` | stop, reload, start |

*Interactions.* The role runs `apply` and, over a fresh connection, `confirm`.
`apply` saves a pending record, writes and enables the timer, replaces the drop-in,
hands the listeners over, checks and saves again; its exceptions roll back from the
record in its memory. The timer starts `rollback`, which works from `state.json`.

*Hard behaviour.* The deadline racing a confirmation; a rollback that waited for the
lock past a decision; a kill in the middle of a handover, which leaves no listener;
the fixed temporary name of `atomic`; the persistent timer's stamp; an elapsed timer
that passes for an active one.

*What makes it correct.* An undecided drop-in has its own enabled timer; a decision
that can be read is what is on disk and what listens; a transaction is decided once;
a pending candidate is eventually decided; listeners come back.

### 1.3 Forward proxy client (`roles/forward_proxy_client`)

| Part | State it keeps | Operations |
| --- | --- | --- |
| role tasks | the managed files, the marker (owned checksums, pending checksums, due re-execution, due and activated services), the lock directory | enable or change, disable |
| systemd manager and services | the defaults they were started with | re-execute, restart |

*Interactions.* A run takes the lock directory, inspects the files against the marker,
records what it is about to render, renders file after file, records ownership and the
due activation, and does what of it this run may do. Disabling records every
service that was ever activated, removes the files, activates, and removes the marker.

*Hard behaviour.* A run that ends between any two tasks; a run that stages only; runs with
different service lists; an administrator who edits a managed file.

*What makes it correct.* The role recognises its own files after any interruption; due work
is never dropped; with nothing due, manager and services have the recorded defaults;
nothing keeps proxy defaults when the marker is gone.

### 1.4 Exact-revision review (`scripts/materialize-exact-revision-review.py`)

| Part | State it keeps | Operations |
| --- | --- | --- |
| `git_output` | a child, two pipes, a deadline | start, select, read, kill, wait |
| protected file access | up to three descriptors, a temporary file | walk the parent, read, replace |
| the three modes | the workspace: directory, patch, metadata | `materialize`, `bind-assets`, `verify` |

*Interactions.* `materialize` reads the pull request, fetches its two commits, computes the
diff, reads the pull request again and publishes two files; `bind-assets` adds the hashes of the
protected assets and one hash over all of it; `verify` materializes again beside it and
compares. The modes use the bounded reader for git and the protected access for files.

*Hard behaviour.* Two full pipes; the deadline at any point of the call; closes that fail;
kills between the two writes; a cleanup that fails half-way; a pull request that is pushed to
while the objects are fetched; modes that are run again.

*What makes it correct.* Output that is handed on is complete and below the limit, no child is
left, every call ends; descriptors are closed by one attempt and a failed write has changed
nothing; what `verify` accepts is exact, a seal is final, and a failed run leaves no
half workspace.

### 1.5 The rest

LUKS unlock, the dispatcher, Incus, the GitHub runner, the declarative roles, the tool
wrappers and the CI workflows are listed in `PROJECT.json` with the reason they are not
modelled (section 8).

## 2. Plan

Order of work, the most important behaviour first:

1. **done** `FirewallTransaction`: all five subcommands with their services;
   type, safety, action and liveness properties.
2. **done** `FirewallOutcome`: the abstract promise, and the refinement.
3. **done** `FirewallBudgets`: the durations.
4. **done** Proofs for 1 to 3, for all constants.
5. **done** `OpenSSHTransaction`, its inductive invariant and proofs.
6. **done** `BoundedOutput`, `ProtectedFile` with its abstract `AtomicWrite`, and
   `ReviewWorkspace`: the review program in its three layers, with proofs.
7. **done** `ForwardProxyClient` and its proofs.
8. **done** `RetirementOutcome`, the abstract promise of the SSH retirement, and the
   refinement.
9. **done** Proofs of the safe halves of the liveness properties, of the exclusive writes and of
   resumption after an interruption (`Attended`, `OnlyABoot`, `NobodyIsStuck`, `ExclusiveWrites`, `CanBeEnded`).
10. `read_nft_table_state` (`firewall_transaction.py:458`): two commands that read
   inventory and table, against writers that do not hold the lock.
11. `LuksBinding`: a run that fails or is killed between a Clevis binding and the
   initramfs rebuild it has queued (`clevis_bind.yml`, `handlers/main.yml`), and the forced
   rebuild that is its documented recovery.

Abstract specifications worth stating: the promises of 2, 6 and 8. Theorems worth
proving: each inductive invariant, each refinement, the budget argument. Modules
to be proved about declare their constants with assumptions, have one action per
operation, and use no recursive operators.

## 3. Modules

| Module | What it is |
| --- | --- |
| `FirewallTransaction` | the firewall program and its units; properties; refinement mapping |
| `FirewallOutcome` | abstract: one settled policy, one pending transaction, one decision each |
| `FirewallInvariant` | the inductive invariant of `FirewallTransaction` |
| `FirewallProofs` | its proof, and the safety properties |
| `FirewallRefinement` | proof that `FirewallTransaction` implements `FirewallOutcome` |
| `FirewallBudgets`, `FirewallBudgetsProofs` | durations of one run; proof for all accepted settings |
| `MCFirewall` | instances, liveness specifications, statements of the documents |
| `OpenSSHTransaction` | the SSH program and its units; properties |
| `OpenSSHInvariant`, `OpenSSHProofs` | inductive invariant; its proof, the safety properties and the refinement |
| `RetirementOutcome` | abstract: one open transaction, two possible drop-ins, one decision |
| `MCOpenSSH` | instances, liveness specifications, statements of the documents |
| `ForwardProxyClient`, `ForwardProxyProofs` | the proxy role's runs; inductive invariant and safety properties |
| `MCForwardProxy` | the inputs of its runs |
| `BoundedOutput`, `BoundedOutputProofs` | `git_output` with a limit; its proofs for all sizes |
| `ProtectedFile`, `ProtectedFileProofs` | one protected read or write; proofs and refinement |
| `AtomicWrite` | abstract: a write is one replacement |
| `ReviewWorkspace`, `ReviewWorkspaceProofs` | the three modes of the review program; proofs |

### 3.1 `FirewallTransaction` and the code

*State.* `active`, `dir`, `claims`, `include`, `timerEnabled` and `static` are files
and survive a power loss; `runtime` (kernel table), `timer`, `starts` and the
processes do not. A torn value (`TornTx`, `TornClaim`, `"torn"`) is a file that
exists and cannot be read: `write_exclusive` (line 711) creates the final name
before its content. Replacing writes go through a temporary file and are never torn.

*Processes.* `Invocation` are runs started by the role, each with a signed
request (`Submit`); `ConfirmSvc` and `RollbackSvc` are the services. `pc` is the
step; `holder` has the lock; `cur` is the transaction its local variables hold. Each
durable or externally visible effect is an action; checks between two effects
are in the action that follows the last of them. Checks that read only the process's own input
or files nobody else writes are at the start of the action that uses them.

*systemd.* `RollbackStartJob` is what a start request does: skipped without the
pointer (`ConditionPathExists=`), merged with a run that is queued, running or
restarting, refused past `StartLimitBurst`. `Fail` is `Restart=on-failure` or
`OnFailure=`. A boot starts the timer if it is enabled, and no service. A timer that
has fired is *elapsed*, still active, and `enable --now` leaves it alone.

*Failure.* `Abort` at any step: a command fails or times out and raises, or the process is
killed; it may tear the write it is at. `LockTimeout`: the bounded wait expires.
`PowerLoss`: volatile state is lost; the boot loads the root and with it the include, or nothing
when the root is unusable. `Drift`: an administrator edits a static asset.

*The administrator root* is part of `static`. A content in `Including` has exactly one include
directive of the role (`validate_root_include`), one in `Loadable` passes `nft --check`. Apply, confirm
and every rollback check the first, confirm and every rollback the second, each at its own step:
a rollback that fails the second has put the include back already. Whether a root loads does not
depend on which of the transaction's rulesets the include holds: those have passed the check themselves.

*Data.* A policy stands for a ruleset file and the table it loads; a claim for a
signed request with its action and candidate, already accepted by the verifier.

*Mutants.* A definition whose comment says "Mutant of X" is X with a plausible bug
in it; `PROJECT.json` pairs it with the property that notices. They are
used by no specification.

### 3.2 `FirewallBudgets` and the code

One run, in whole seconds: `TransactionBudget` and `RollbackBudget` are lines
619-630; `Wait`, `Command`, `Arm`, `Expire` are the polled lock wait, `run_command`
with its timeout cut to the remaining time, the start of the timer, and the refusal
to start after the deadline. Commands whose timeout expired are taken to be over when
`subprocess.run` has killed them. The program's own work between commands has no
timeout in the code: `overrun` counts what goes past a deadline, and the
bound `MaxOverrun <= 4` (less than the code's 5 s margin) is an assumption.

### 3.3 `OpenSSHTransaction` and the code

*State.* `record` is `state.json`, `mem` the `state` dictionary of the lock's holder.
`conf` is everything `files()` fingerprints, as the managed drop-in (`target`) and
`rest`, one value for all other files. `unitTx` is the deadline in the unit file,
`loaded` the one systemd has read (`daemon-reload`, also the one in `reconcile`),
`fired` the persistent trigger stamps, `leftover` the files whose `.lit-new` name has
been left behind, `live` the configuration the listeners were started with.

*Actions* follow `apply`, `confirm`, `rollback`, `cancel_timer`, `reconcile` and `atomic` step by
step; `map` gives the lines. `ApplyCheck` contains `guard`, whose checks of
identity, receipt, connection and fingerprint may refuse at any time, so they
are a nondeterministic `Reject`. The content of the record besides status,
token, snapshot and `after` is not kept. The two unit files are one `unitTx`: the service
file always has the same content.

*systemd.* `TimerNotified`: a calendar timer is re-evaluated when its service changes
state, so an elapsed one waits again if its date lies ahead. A reload does not do
that, nor do `enable --now` and `is-active`. After a boot an enabled persistent timer fires unless its
stamp says that it has fired. `ssh.socket` and `ssh.service` start at boot
with the files on disk.

*Refinement.* The mapping to `RetirementOutcome` takes as settled what `state.json` says of
the last decision or, while a transaction is pending, its snapshot. Saving the pending record is
`Begin`, saving a decision `Confirm` or `RollBack`; whatever moves the drop-in or the listeners
is `Work`, which only an open transaction may do.

*Assumptions.* The operator gives every `apply` a new `transaction_id`
(`roles/openssh_server/README.md:67`: "Unique"). A fresh run needs a listener (`live # NoConf` in
`Submit`). The deadline does not pass while the six commands between it and the
running timer last, each at most 30 s (`DeadlinePasses`).

### 3.4 `ForwardProxyClient` and the code

*State.* `file` is what is at each managed path (`base` stands for the three files always
rendered together, `systemd` for the manager's drop-in, `containers` for the optional
one), `marker` the manifest on disk, `lock` the lock directory. `manager` and `env` are what
the manager has loaded and each service was started with. `run`, `changed`, `left`,
`seen` and `todo` are the variables of a run and end with it. A content is the version of
the inputs it was rendered from; a version need not change every file.

*Actions.* One for each task that changes state, in the order of `transition.yml` and
`enabled.yml`: `Inspect` with all its assertions (`Accepts`, `MayDisable`), `MarkPending`,
`Render`, `RemoveContainers`, `Record`, `Reexec`, `Restart`, `Complete`; `MarkDisable`,
`Remove`, `ReexecOff`, `RestartOff`, `RemoveMarker`. `Break` ends a run anywhere: a task
fails (the `always` section frees the lock) or the run is killed (the lock stays, until
`Unlock`). `Edit` is the administrator, who knows no lock.

### 3.5 `BoundedOutput`, `ProtectedFile`, `ReviewWorkspace` and the code

*`BoundedOutput`.* Bytes are counted, not represented. The child writes in two steps (it is in
a write, the pipe has room), closes a stream or exits in any order. `Select` returns the
streams with something to read, at least one; the handling of a result may be
overtaken by the child and by the clock. `RoomFor` is the capacity computation with its
sentinel byte; `Finish` is the `finally` block and the order limit, return code, output.

*`ProtectedFile`.* Descriptors are numbered in the order they are opened and `attempts` counts
closes. Each system call is an action that may succeed or fail; the nested `try`/`finally`
blocks are the steps `finally_*`. `cause` is the first failure. The checks on ownership, mode and link
count are the choice of what an open or a stat finds.

*`ReviewWorkspace`.* Uses what the other two promise: a write takes effect or not and may report
failure either way, a git command succeeds or fails. `Target` is the workspace the
shared `materialize` works on, which in `verify` is the temporary one. The diff of the expected
revisions is `exact` wherever the pull request is, because commits are fetched by their
identifiers; `away` says whether the pull request has been away ever since. A hash is the
value it was computed of.

## 4. Runs

| Run | Specification | Checks | Expected |
| --- | --- | --- | --- |
| `two_transactions` | firewall | `TypeOK`, `UndecidedIncludeIsGuarded`, `PublishedOutcomeIsInForce`, `IdleIsDisarmed`, `EffectsAreAuthorized`, `UndecidedIsAttended`, `ExclusiveWritesAreNew`, `NoUndoAfterConfirmation`, `ClaimsAreSpentOnce`, `KeepsPromise` (refinement) | pass |
| `liveness` | firewall | `UndecidedCandidateIsSettled` | pass |
| `torn_terminal` | firewall | `UnconfirmedIsRolledBack` | violation |
| `budgets` | budgets | `TypeOK`, `EndsBeforeExpiry` | pass |
| `openssh_safety` | SSH | `TypeOK`, `PendingIsGuarded`, `DecisionIsInForce`, `DecidedOnce`, `OnlyABootAbandons`, `KeepsPromise` (refinement) | pass |
| `openssh_liveness` | SSH | `PendingIsDecided`, `ListenersComeBack` | pass |
| `openssh_leftover` | SSH | `PartialRollbackIsRetried` | violation |
| `proxy` | proxy client | `OwnFilesAreRecognised`, `InterruptedCanBeEnded`, `NothingStaleAfterDisable`, `ActivationIsNotForgotten`, `DebtsArePaid` | pass |
| `proxy_forgotten` | proxy client | `ActivationSurvivesRendering` | violation |
| `output` | bounded reader | `OutputIsComplete`, `MemoryIsBounded`, `NoChildLeft`, `SomebodyCanGoOn`, `EndsByDeadline`, `EveryReadTakes`, `EndsWithChild` | pass |
| `protected_file` | file access | `ClosedExactlyOnce`, `FailureIsClean`, `WritesAtomically` (refinement) | pass |
| `review_workspace` | review | `VerifiedIsExact`, `FailureIsCleanedUp`, `SealIsFinal`, `MetadataComesLast` | pass |

The type invariants of the proxy client and of the three review modules are proved (`TypeCorrectness`) and not
repeated by their runs, as is `UnsafeStays` of `ProtectedFile`: no write replaces an unsafe target.

What the violations show:

- **`torn_terminal`** A power loss while `terminal.json` is written leaves a name
  without content. Nobody can read it, so nobody decides, and the include is already
  the candidate.
- **`openssh_leftover`** A process killed in `atomic` leaves `<file>.lit-new`; the open
  with `O_EXCL` lies outside the `try`, so every retry of the rollback fails there.
- **`proxy_forgotten`** The activation work is computed from what this run has rendered
  with a change, and recorded after rendering. A run that ends in between leaves the new files;
  the next one, which must have the same inputs, changes nothing, records nothing as due,
  and manager and services keep the old defaults.

### 4.1 Bounds

- *Processes.* Two or three invocations and both services. Three are needed for
  apply, a decision, and another apply; two for an apply against one other run.
- *Transactions and claims.* `Tx` has at least as many ids as there are invocations
  that may apply, so a fresh id exists, as it does with the random ids of
  the code. Two `apply` claims for different candidates make a second transaction.
- *Policies.* The provisioned one, one or two candidates and `NoTable`. Targets: `old` and one
  candidate for each transaction; `rest` has two values where drift can stop
  a confirmation or a rollback's verification. `liveness` starts with
  a provisioned policy other than its only candidate: the property says nothing of a
  candidate that is provisioned already. It has an explicit rollback among its claims, which may fail after its
  authorization is written and be left to the watchdog. `two_transactions` starts there too.
- *`MaxFailures`, `MaxCrashes`.* One or two failed commands, expired waits or kills,
  one power loss. The hazards listed need at most two failures, except the start
  limit (section 4.2). `Drift` of the firewall is not counted. Its contents of the static assets are `d1`,
  the one installed; `d2`, another with a usable root; `d3`, one whose root is unusable. `liveness` has
  all three, so that drift may stop an explicit rollback only or every one, `two_transactions` has `d1` and `d3`.
- *`StartLimitBurst`* is 4, the value in the unit. `liveness` has 3 and `MaxFailures = 2`
  below it; its start counter also counts the attempts that an unusable root refuses. `two_transactions` has 1: the window may end at any moment, so a smaller limit only adds
  refused starts, and its properties are safety properties.
- *`openssh_liveness`* has two runs over two identifiers, which may be one apply after another, with
  two failures: what the first leaves behind is what the second finds. Its one boot may come at any moment.
- *`budgets`* uses the tightest setting (60, 27 and 54 s): the reserve of
  the rollback is smallest there. The proof covers all settings.
- *`output`*: limit 3, reads of 2, pipes of 3 and up to 5 bytes on each stream, so that a pipe
  can be full, a read partial, a read straddle the limit, and output be one byte below it, at
  it and beyond.
- *`protected_file`*: a parent of depth 3, so that a hop has a hop before and after it.
- *`proxy`*: two versions of which one changes the base files only, with and without the
  containers file, one service, any number of runs, one edit. The proofs are for any
  number of services.
- *`review_workspace`*: four runs (publish, bind, verify, and one more in any place), two
  assets with two contents, two edits; the pull request moves without a bound.
- *Symmetry* among invocations (and the firewall's transaction ids and static assets, and the contents
  of the other SSH files) in the safety runs. The liveness specifications use `InOrder` instead: interchangeable
  invocations and ids are taken in one order, and the run starts from the first of interchangeable contents.

`CHECK_DEADLOCK FALSE` for the firewall and SSH programs, the budgets and the file access: each
invocation runs once, and a host whose
invocations are done and whose timer is off has nothing left to do. In `output`, `proxy` and
`review_workspace` deadlock is checked; `Done` is the end of the reader's call.

### 4.2 What the liveness runs leave out, and why

`liveness` has `MayTear = FALSE` and fewer failures than the start limit. With torn writes
the property fails as `torn_terminal` shows. With as many failures as the limit it fails
too: four rollback attempts whose lock wait expires while one confirmation holds the lock use up
`StartLimitBurst=4` of the rollback unit; the confirmation then sees the failed unit and refuses, its
`OnFailure=` start is refused as well, and the candidate stays until a boot or an explicit rollback.
The settings that allow this (a short `lock_wait_timeout`) are accepted. `UndecidedIsAttended`, which is proved
for any number of failures, says that there is no other way: without the watchdog, the confirmation or a
rollback under way, the rollback unit has been started and its limit has refused it.

A rollback run decides which transaction it undoes when it has the lock. One that waited through
the end of a transaction therefore undoes the next one before that one's timeout (`firewall_transaction.py:1547`; likewise
`openssh_server/files/transaction.py:255`). The properties allow it: the next one is undecided, and
its confirmation is refused.

`UndecidedCandidateIsSettled` has a premise: the administrator root is usable in the end (`<>[]RootUsable`).
The code disagrees with its own comment here. `firewall_transaction.py:1562` says "Only an emergency watchdog
rollback may ignore unrelated program, unit, verifier, or administrator-root drift so that restoration cannot
be disabled". The watchdog does skip the comparison of the static assets, but then calls `validate_root_include`
(line 1584) and `nft --check` of the root (line 1590) like any other rollback: a root that has lost the include
directive, or does not load, disables restoration until it is repaired, and four such attempts, 5 s apart, use up the
start limit. Without the premise `liveness` is violated. What remains true, and is checked: drift of program, units,
verifier, and of a root that stays usable, stops the explicit rollback but not the watchdog.

An explicit rollback that fails after line 1574 cannot be repeated: the repetition, or any other explicit rollback of the
transaction, finds `rollback_authorization` there and raises. `ExclusiveWritesAreNew` claims nothing of
this write; `UndecidedIsAttended` and `UndecidedCandidateIsSettled` say that the watchdog still undoes the candidate.

`openssh_liveness` has no left-over temporary files (`openssh_leftover`). Its two properties name two ways out
(`Unwatched`), both of which it reaches, and say that within its bounds there is no third:

- `Abandoned`: the persistent timer is stamped when it fires, and a boot while the rollback runs leaves it
  elapsed with nothing to start the rollback again. `OnlyABootAbandons`, proved for any number of failures, says
  that nothing but a boot does this.
- `StaleTimer`: a run killed after it saved its decision and before it cancels the timer leaves that timer. Once
  elapsed it still counts as active, and the next apply's `enable --now` and `is-active` accept it with no timer waiting:
  if the controller is lost then, the candidate stays pending, or, killed in the handover, the host stays without
  a listener. The same is reached when the next apply fails to reload systemd, its inline rollback dies in the handover and
  the old timer has elapsed.

The role's README promises more: "Controller loss or missing confirmation triggers the timer independently"
(`roles/openssh_server/README.md:86`). `PendingIsGuarded` is the part that does hold without exception: enabled link,
unit file and loaded unit are those of the transaction, and the timer is active, which an elapsed one is.

`ActivationIsNotForgotten` leaves out the interruption of `proxy_forgotten` (`lost`), and edits by an
administrator, which the next run refuses. It is about defaults: when the removal of the
containers file is the only change, no activated service is queued, because the result registered
for an `include_tasks` never says changed (`enabled.yml:150`).

`PendingIsDecided` speaks of pending
records whose candidate is on disk: one saved before the timer was enabled stays
pending after a kill, without having touched anything. `ListenersComeBack` speaks of listeners stopped under an active timer;
when arming the timer and the inline rollback both fail, nothing retries.

`FailureIsCleanedUp` says what a failed run may leave: what it could not remove itself. It does not say that it
tells the user: `add_error_notes` (`materialize-exact-revision-review.py:158`) attaches the failed removals to the error,
but only where exceptions have `add_note`; before Python 3.11 they are dropped. A failure to remove the
temporary directory comes after the publication, and leaves the whole workspace of a run that is reported as failed.

### 4.3 Fairness

- Weak fairness of `Procedure(p)` for each process: a program that can take a step
  does. The operating system schedules it, and every command has a timeout. Failures are not fair.
- Weak fairness of `RestartRollback`, `RestartService` and `TimerFires`:
  `RestartSec=`, `OnActiveSec=` and `OnCalendar=` run out.
- Weak fairness of `DeadlinePasses(t)`: time passes.
- None for `Submit` or `StartConfirmation`: the controller may disappear.
- `ScheduledSpec` of `BoundedOutput` is weak fairness of the parent only. That the clock gets to
  the deadline, or that the child goes on, are premises of the two liveness
  properties, one each: `EndsByDeadline` relies on no child, `EndsWithChild` on no deadline.

Weak fairness is enough for the lock in these runs because only finitely many other
processes can take it from a waiting one: each invocation runs once, and failures are bounded.

## 5. Properties

Firewall:

- `UndecidedIncludeIsGuarded`: `confirm` replaces the boot-time include before it
  publishes the decision. Killed or powered off in between, the next boot
  loads the candidate; the timer must still be enabled then. (`systemctl stop`,
  not `disable`, before the recheck.)
- `PublishedOutcomeIsInForce`: a readable `terminal.json` is the truth about include
  and table, after crashes too; a boot through an unusable root leaves the table absent.
- `IdleIsDisarmed`: otherwise the next `enable --now` would not start a timeout.
- `UndecidedIsAttended`: while a candidate of an undecided transaction is in include or table, the
  watchdog waits, or the rollback service is not at rest, or the confirmation that stopped the watchdog is
  inside. The safe half of `UndecidedCandidateIsSettled`: no failure, kill or boot leaves the candidate to itself.
- `ExclusiveWritesAreNew`: claims, pointer and terminal record are written with
  `O_EXCL`; what a run has checked under the lock must still hold some steps later, or it fails half-way and
  with it every repetition. The authorization of an explicit rollback is not among them (section 4.2).
- `ClaimsAreSpentOnce`: a receipt, torn or not, is never rewritten.
- `EffectsAreAuthorized`: every active or confirmed transaction has spent a claim for
  its own action and candidate first.
- `NoUndoAfterConfirmation`: no late or retried rollback.
- `KeepsPromise`: refinement of `FirewallOutcome`: the settled policy changes
  with a confirmation only, and each transaction is decided once. The mapping
  takes the snapshot's include as settled while the outcome is undecided.
- `UndecidedCandidateIsSettled`: liveness.
- `EndsBeforeExpiry`: an apply with its inline rollback is over before its own watchdog.

SSH:

- `PendingIsGuarded`: while the candidate of a pending record is in the drop-in or listened with, the timer
  is active and enabled with this transaction's deadline, on disk and in systemd, so that a boot finds it too.
- `OnlyABootAbandons`: a rollback that the deadline has started is not given up while it is needed.
- `DecisionIsInForce`, `DecidedOnce`, `PendingIsDecided` and
  `ListenersComeBack`, as in section 1.2. `DecisionIsInForce` ends with the next
  apply's pending record; it includes the listeners, so an explicit rollback that was killed
  half-way and is followed by a confirmation must not confirm.
- `KeepsPromise`: refinement of `RetirementOutcome`. It adds that a roll back returns to what was
  settled before its own transaction, that a second `apply` never takes an undecided candidate
  for the snapshot, and that without an open transaction neither retries nor late runs nor
  reboots move drop-in or listeners.

Proxy client:

- `OwnFilesAreRecognised`: the pending checksums are on disk before the first file is.
- `InterruptedCanBeEnded`: without edits, a run with the inputs of an interrupted transition and one that
  disables are accepted wherever runs have ended, and none fails at its own later checks.
- `NothingStaleAfterDisable`: over any history of service lists, a completed disable has reached
  every service that was ever activated.
- `DebtsArePaid`: due work leaves the marker only when done.
- `ActivationIsNotForgotten`: the accounting of due, activated and listed services keeps up
  with the files through staged, failed and differing runs.

Review:

- `OutputIsComplete`, `MemoryIsBounded`, `NoChildLeft`, `EndsByDeadline`, `EndsWithChild`: the bounded
  reader; the last is the absence of the deadlock of two full pipes.
- `SomebodyCanGoOn`: parent and child never wait for each other, and what `select` returned is still readable
  when it is read. `EveryReadTakes`: no event is handled in vain, so the loop does not spin.
- `ClosedExactlyOnce`: through all nested `finally` blocks, with closes that fail.
- `FailureIsClean`: a failure that is reported has changed nothing; the one exception, the last close of
  the parent directory after the replacement, is in the property.
- `WritesAtomically`: refinement of `AtomicWrite`.
- `VerifiedIsExact`: relates the accepted workspace to assets, regenerated diff and the moment the
  pull request was last as expected.
- `FailureIsCleanedUp`: of a workspace it has created, a failed run leaves a file only if the removal of that file
  failed in this run, or all of it, exact, if nothing but the temporary directory could not be removed.
- `MetadataComesLast`: no step of a run makes metadata that can be bound appear, or remain, without its patch, unless
  the metadata itself could not be removed; an action property, so other steps of the job may have edited anything before.
- `SealIsFinal`: what may be run twice.

## 6. Proofs

All are checked by `tlapm` for every value of the constants that satisfies the named
assumptions (`ConstantsAssumption`, `ShapeAssumption`): any number of
invocations, transactions, claims, policies, failures and power losses.

**`FirewallProofs`.** `SafetyInv` is a conjunction of `TypeOK`, `LockInv` (who is
inside, at a step of its own procedure), `CurInv` (the holder works on the active
transaction), `SnapshotInv`, `WatchdogInv`, `OutcomeInv` and `AuthorizationInv`. The
properties are not inductive by themselves: that a published decision is in force
depends on what the holder has established on its way to `publish_*`
(`OutcomeInv` says what holds at each step), and that nothing breaks it in between depends on the
lock. `WatchdogInv` says in addition that an undecided transaction without an enabled
timer has not touched anything (the table is the snapshot's, or what a boot made of it), which a boot or kill between the pointer and the timer relies
on. There is one lemma per procedure and one step per action. From the invariant: `TypeCorrectness`,
`IncludeGuarded`, `IdleDisarmed`, `OutcomeInForce`, `Authorized`, and the action properties
`ConfirmationIsFinal` and `ClaimsSpentOnce`. One more invariant rests on it. `AttendanceInv`, for
`Attended`, adds that an elapsed watchdog has a rollback service that is not at rest, and that the candidate
is loaded under a watchdog that was started. `ExclusiveWrites` follows from `SafetyInv` alone: `OutcomeInv` and
`AuthorizationInv` say at each step which records are still to be written.

**`FirewallRefinement`.** `Refinement` is `Spec => KeepsPromise`. Of all actions,
publication of the pointer is `Begin`, of the terminal record `Confirm` or
`RollBack`, removal of the pointer `Close`, a torn pointer `Wedge`; every other step is a
stutter, by `SafetyInv`: the include changes only while the transaction is
undecided, where the mapping looks at the snapshot.

**`FirewallBudgetsProofs`.** An invariant bounds `deadline`, `expiry` and `now` by
each other; `RunsEndBeforeExpiry` follows by linear arithmetic.

**`OpenSSHProofs`.** `SafetyInv` has `LockInv`, `HolderInv` (what each step has
established: memory and disk hold the same snapshot, the unit names this
transaction, the drop-in is the candidate, the listeners follow the files),
`IdentifierInv` (the identifier in the record is that of an apply that has already
saved it), `AfterIsCandidate`, and the two invariants proved. `DecidedOnceHolds` needs
`IdentifierInv`: of the four steps that write `state.json`, three find it pending and
the fourth saves another identifier. `Refinement` sorts the steps into those
that rest, those that move drop-in or listeners under a pending record, and the three saves; it
adds to `SafetyInv` that nothing but snapshot and candidate is ever on disk or listened with
(`SoundTargets`), and that a record about to be saved is of another candidate (`NewCandidate`).
`OnlyABoot` rests on `RetryInv`: a deadline that systemd has loaded or fired is that of an apply that has
saved its record, the service works from the record on disk, and while an apply works on the candidate, its
deadline has not fired or the service is not at rest.

**`ForwardProxyProofs`.** The invariant says at each step what marker, files, manager and services
have to do with each other. That the role recognises its own files needs what each file
may hold at each step of rendering and removal; that nothing is stale after a disable needs
that a service with defaults is due, activated or still to be restarted. `NotForgotten` has a
second invariant, `Kept`, for runs without edits and unrecorded renderings: what is not due has the
recorded defaults (`ManagerKept`, `ServicesKept`), and the manager's file is the recorded one
except while a run changes or removes it (`FileKept`), which is what lets a run that changes
nothing record new checksums without restarting anything. `CanBeEnded` has a third, `Undisturbed`, for
runs without edits: every file at a listed path is one the marker recognises, and what a run has rendered or is
about to remove is still as it left or saw it.

**`BoundedOutputProofs`.** For any limit, read size, pipe size and amount of output: linear
arithmetic over what is written, taken and kept of each stream, and what each step says of the
child. `NobodyIsStuck` and `ReadsTake` add `ReadyInv`: what `select` has returned is handled before the next
`select` and stays readable until then. Together they are the safe half of `EndsWithChild`.

**`ProtectedFileProofs`.** For parents of any depth: which descriptors are held at each step, and
that exactly those have not had their close attempt. `Refinement` is `Spec => WritesAtomically`.

**`ReviewWorkspaceProofs`.** For any assets, contents, runs and edits: what the target workspace
holds at each step (`TargetInv`), that `verify` changes nothing it verifies
(`KnownInv`), what a cleanup has removed or could not remove in this run (`CleanInv`), and that a pull request that is as
expected now has not been away ever since (`LiveInv`), which the second read makes
last to the end of the run.

Only model-checked: the liveness properties and the violations. Of `UndecidedCandidateIsSettled`,
`PendingIsDecided` and `EndsWithChild` the part that is a safety property is proved: somebody able to go on is
always there (`Attended`, `OnlyABoot` with `PendingGuarded`, `NobodyIsStuck`). That he does go on needs fairness and
is out of the prover's reach.

## 7. Limits of the model

- The firewall starts from an empty transaction directory with the table equal to the include or
  absent; a candidate loaded by hand before the first apply is outside.
- The link that `systemctl enable` makes is durable at once; the code does not sync it.
- Torn writes are those of `write_exclusive`. A replacing write is atomic and durable,
  as `os.replace` after `fsync` and the sync of the directory make it.
- nft, systemctl and sshd either do what they are asked or fail; they do not lie. A failed command
  may have had no effect or, at the next step's boundary, all of it.
- The stop of daemon and socket is one step, as is their start: while one of the
  two is up, a listener is.
- The proxy role's checks of path, owner and mode, its directories and its check mode are left
  out, as is the window between the last inspection of a file and its removal.
- `ReviewWorkspace` takes commits, merge base and diff of the expected revisions as functions of
  their identifiers, and a hash as its argument. The arguments of a job are the same in every run.
- Foreign writers of the role's table, of `state.json` or of the transaction directories are not modelled.

## 8. Not modelled

- *Verifier, policy rendering, parsing of nft JSON, path checks*: data, no state.
- *Role tasks around the programs* (render, preflight, evidence): sequential.
- *LUKS unlock*: planned (section 2). The role adds one key slot per device in one command and
  refuses everything else; what can go wrong over several runs is the lost rebuild of plan item 11.
- *Transition dispatcher*: checks its arguments and posts one request, with no state, retry or
  polling.
- *`validate_bounded_blobs`* of the review program, a sequential check of git objects; the
  workflow that reserves, counts and publishes reviews.
- *Incus, GitHub runner, Tang, Podman and the declarative host roles*: idempotent
  declarations by existing Ansible modules, no protocol of their own.
- *Tool wrappers, quality policy and release evidence scripts*: sequential.
- *CI workflows*: run by an external service.
