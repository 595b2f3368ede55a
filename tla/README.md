# RaymanCodingSkill in TLA+

RaymanCodingSkill is two Rust programs that live beside each other.

- **`codex-global-execution`** (`crates/codex-global-execution`): a worker that runs
  with the desktop owner's rights and serves requests of sandboxed clients through
  files. It commits to Git, installs files, and keeps protected state for projects.
- **`rayman`** (`crates/rayman`): the tool a coding agent calls. It keeps goals,
  context, checkpoints, leases and updates in the workspace, and goes through the
  worker when its state is protected.

Neither is a server with connections: processes meet in files. They exclude each other
with lock files and leases, make a change durable by write-then-rename, journal what
takes more than one rename, and finish or undo after a crash what the journal says.
That is what is modelled here: every step is one durable change, and between any two of
them a process may die, time out or be overtaken.

Paths below are under `src/`; `ge/` stands for
`crates/codex-global-execution/src/global_execution/`, `ry/` for `crates/rayman/src/`.

## 1. Inventory

### The global execution worker

| Component | State | Operations | Correct when |
| --- | --- | --- | --- |
| **Protected ledger** `ge/ledger.rs`, `ge/storage.rs` | per worktree: `ledger-*.json`, `transaction-*.json` (its journal), a state lock | `accept`, `record_effect_result`, `recorded_result`, the clients' unlocked snapshot | a transition happens whole or not at all; an effect is permitted once per request id and only when it is on disk; nobody is ever told a result that is lost later |
| **Git publication** `ge/git.rs`, `ge/publication.rs` | candidate directory with `candidate.json`, `staging-attempts.json`, `publication.json`; the live repository | `capture`, `prepare_commit`, `publish_bound_commit`, resume | only reviewed values are replaced; the branch never names an incomplete commit; the index of a half-publication is locked; recovery completes it |
| **Installation transaction** `ge/install.rs`, `ge/install-worker.ps1`, `scripts/install-rayman.ps1` | plan, staged payload, `install-active.json`, journal, backups, destinations | `prepare`, `execute`, `cancel_unadmitted`, `clear`; the kernel's publication, rollback and repair | files are of one generation; foreign files survive; the ledger records what happened |
| **Request worker and queue** `ge/worker.rs`, `ge/client.rs` | request packets, results, `recovery_checked`, heartbeat, maintenance mode | `submit`, `wait`, `cycle`, `process`, `serve` | each request has one result; a repeated request is answered from the record; everything is answered in the end |
| **Application state leases** `ge/application_state.rs`, `ry/global_state_bridge.rs` | the worker's lease table (memory), protected goal files, chunks | `Acquire`, `Renew`, `Release`, `Write`, `Upload`, `InspectWorkspace`; the bridge's renewal thread | no acknowledged change is lost; a lease is a fence; locks come back |
| **Checkpoint store** `ge/checkpoint_store.rs` | SQLite rows of several workspaces, receipts | `apply_once`, `normalize_*`, `diff` | a patch is applied at most once, and only to the rows it was computed from |
| **Enrollment** `ge/enrollment.rs`, `cli_handler.rs` | installation, registrations, checkpoint migration record | `initialize`, `enroll`, `enable_application_bridge`, prepare/publish/rollback of the migration | a registration is never reinterpreted; the migration is whole |
| **Linked worktrees** `ge/worktrees.rs` | worktree policy, members | `authorize_worktrees`, `register_linked`, `install_worktree_hook` | a member never has more rights than its anchor |
| **Relocation** `ge/relocation.rs` | rebind intent and record | `rebind_workspace`, the check every storage operation repeats | a replaced directory is refused unless its owner bound it once |
| **Native files, process runner** `ge/native.rs`, `ge/process.rs` | handles, identities, job | open, verify, rename, run one child | (I/O; the models take its effects as their file operations) |

### The rayman tool

| Component | State | Operations | Correct when |
| --- | --- | --- | --- |
| **Goals** `ry/goal.rs`, `ry/goal/*` | goal file, lifecycle proof, receipts, pending and replacement records | create, plan, validate, complete, replace | a goal is complete only on fresh evidence about the source it is bound to; a replacement drops no duty |
| **Stop hook** `ry/codex_hook.rs` | hooks file, observation of the workspace | `evaluate_stop`, install, uninstall | a session ends only when the gate it observed still holds |
| **Checkpoints** `ry/checkpoint.rs`, `ry/checkpoint/restore.rs` | snapshots, restore transaction with journal, backups | save, prune, restore, recovery of orphaned restores | a restore is whole or undone; no user edit is overwritten unseen |
| **Updates** `ry/update.rs`, `ry/update/*` | trusted floor, active update, install receipt, worker request | check, prepare, run the worker request, recover | the floor never goes back; an update is installed at most once |
| **Temporary leases** `ry/temp.rs` | lease directories with manifests | create, verify, release | a directory is removed only by who can prove it is theirs |
| **State files** `ry/file_io.rs`, `ry/state_paths.rs`, `state_lock.rs` | lock files, atomic replacement | lock, read, replace | (used by all of the above) |
| **Context and maps** `ry/context.rs`, `ry/map.rs`, `ry/walk.rs` | index files | refresh, query | mostly pure analysis |
| **Workspace setup, messages, CLI** `ry/workspace.rs`, `ry/i18n.rs`, `ry/cli.rs` | generated files | | (no protocol) |

The evaluation harness (`evals/`), `xtask/` and the repository scripts are development
tools.

### How they interact

```
 sandboxed client                        worker (owner's rights)
 ----------------                        -----------------------
 rayman --bridge--> client --packet-->  cycle --> process --> ledger.accept
   ^  renewal thread   |                  |          |-- commit   -> Git publication
   |                   |                  |          |-- install  -> PowerShell kernel (child)
   +--- result <-------+<--result file----+          |-- storage  -> leases, goal files
                                                     `-- ledger.record_effect_result
```

The ledger is the centre: a commit or an installation is executed by the run to which
`accept` returned `execute_effect`, and by no other; every later run with the same
request *resumes* from the executor's own journal. State requests need no ledger entry:
they are protected by leases and compare-and-swap. The bridge puts a lease where a local
process would take a lock file.

### Where it is hard

`PROJECT.json` lists each hazard at its line. They come in six kinds: death between two durable
writes (ledger, candidate, kernel, marker); a value read before a lock and used under it (HEAD
and index, destinations, the ledger read without its journal); requests that outlive their
client, or are executed twice because their result could not be written; two locks that cover
one file; other programs - Git, the user, another installer - between any two steps; and tables,
attempts and queues at their limits.

## 2. Modules

| Module | Models | Properties in |
| --- | --- | --- |
| `LedgerTransitions` | the pure functions of `ge/ledger.rs` | |
| `AtomicLedger` | abstract specification: what the storage promises | |
| `StateLedger` | the journaled storage of `ge/storage.rs`, callers that die | itself |
| `StateLedgerProofs` | inductive invariant, safety theorems, refinement | |
| `GitPublication` | one commit published into a live repository | itself |
| `GitPublicationProofs` | whole refs, one move, one owner per lock, reviewed replacements | |
| `InstallTransaction` | installations: queue, marker, ledger entry, kernel, files | itself |
| `InstallTransactionProofs` | one generation, markers, kept bytes, true records | |
| `StateLeases` | leases, compare-and-swap, the client bridge and its renewal thread | itself |
| `StateLeasesProofs` | acknowledged changes are never lost, for any instance | |
| `WorkerQueue` | the request queue: packets, results, batches, commits and their recovery requests | itself |
| `WorkerQueueProofs` | published answers tell the truth | |
| `CheckpointMigration` | checkpoint rows moved into the global store and back, with the saves that go on | itself |
| `CheckpointRestore` | snapshots and the journaled restore, with its orphans, users and writers | itself |
| `CheckpointProofs` | of `CheckpointMigration`: the markers lead to the latest rows; of `CheckpointRestore`: restored or undone, state writes kept, whole snapshots | |
| `UpdateTransaction` | a signed update: request, worker, script, journal, receipt | itself |
| `UpdateTransactionProofs` | settled updates are whole, `active.json` is true when written | |
| `GoalLifecycle` | goals, plans, receipts and pending items under concurrent commands | itself |
| `GoalLifecycleProofs` | plans precede changes, no duty dropped, no boundary hidden; `StopHook`: a stop is earned | |
| `StopHook` | the Stop hook, read by read; composed with `GoalLifecycle` | itself |
| `MC*` | model values, symmetry and views for TLC | |

Every module has its type invariant (`HookTypeOK` in `StopHook`, `RestoreTypeOK` in
`CheckpointRestore`, `TypeOK` elsewhere). Two
runs check it: the ledger's and the leases' one also states what a caller holds at each
point and the limit of the lease table. The others only give variables their types and
are there for the proofs.

Operators whose comment starts with *Fault:* belong to no specification. Each is a
plausible mistake in the definition that follows it; putting it in that definition's place
makes a named property fail, which shows that the property depends on the code.

### LedgerTransitions, AtomicLedger, StateLedger

A ledger is a value: a revision, a revision per task, and the request and result recorded
per id. A request stands for its own digest, so "same id, other content" is two members
of `Requests`. `Admitted` and `Settled` are the transitions of `ledger.rs`; `HasCapacity`
its two limits; `StateGuard` the compare-and-swap of `begin` and `progress`.

`StateLedger` is `storage.rs` at the grain of durable writes. `publish` writes the journal
(`WriteJournal`), then the ledger (`ApplyJournal`), then removes the journal
(`RetireJournal`); `recover_locked` is the same second and third step, run by whoever
accepts or records next. `recorded_result` (`Lookup`) and the clients' `Snapshot` read the
ledger without that recovery, which is why `answers` collects everything anybody was told.
`Fail` is every other way out of a call: an error after any step, a refusal, the death of
the process; the lock goes with it. Hashes are the values they identify.

`AtomicLedger` has no journal, no lock and no crash. The refinement maps its `book` to
`Durable`: the journal's `after` if there is a journal, else the ledger. A
transition therefore happens when the journal is written, and a grant is the moment
`execute_effect` is returned. The abstract specification leaves out capacity: it is a
limit of the storage, not part of the promise.

### GitPublication

One candidate, from `execute_effect` to phase `complete`. The branch, HEAD, index, objects and
worktree are named by their content (`parent`/`original` as reviewed, the candidate's, or
`other`); a staged file is known by where it lies (`Places`), which is what the recorded file
identity establishes in the code. `Permitted` gathers the check each step makes before it acts.
A failing check is `Refuse`; a death or an I/O error is `Crash`. Either way the next `Begin`
resumes through `Open` where `publication.json` says. `Others` are programs that follow Git's
protocol (take the standard lock, rename it over the file), switch HEAD without either lock,
write objects, edit files, or remove a stale lock as Git advises - the last only while no run
holds the file open, because the worker opens it without sharing deletion.

Left out: the hook preflight, detached HEAD, the lock of the common directory
(`_common_lock`, held by the worker alone for the whole publication) and candidates of
older versions.

### InstallTransaction

Several installations, each of its own worktree, that share the worker, the active marker
and the destination files. It composes four things because the hazards lie between them:
the queue (`packet`, `result`), the ledger entry *with its own journal* (`Intents`: an
admission or settlement is first on its way, then there; `Visible` is what
`recorded_result` sees of it, `Recovered` what `accept` makes of it), the marker, and the
kernel's file operations. `Startup` is the recovery attempt of a new process; `Take`,
`Consume` and `WriteResult` the cycle around `process`. The kernel publishes the files in the order
of their roles (`Frontier`, `Vacate`, `Publish`, `Complete`), rolls back when it throws
(`Catch`, `Unpublish`, `PutBack`, `LeaveForeign`), and repairs from the journal
(`KeepRepaired`, `Displace`, `Restore`). `KernelKilled` is the child's time limit, after
which the worker runs it once more to recover.

`intent` is the ledger reduced to one entry: `StateLedger` shows that the journaled
storage behaves like this.

### StateLeases

Rayman processes that lock a goal, or the whole store, through the worker, and write the
goal file by compare-and-swap. The worker's table is in memory; requests and results are
files, so a request outlives the client that gave up on it. Any queued request may be
served next, because a cycle takes them in the order of their random ids.

- The goal file is the *set of changes* it contains. Every change brings a new
  `updated_at`, so two writes never have equal bytes.
- Serving a request and writing its result is one step with two outcomes (`Reply`): the
  result is written, or it is not and the request, already executed, stays queued and is
  executed again. The upload of chunks is part of the write.
- `Observe` is `READS`, the bytes read last through `file_io.rs`: the *expected* value of
  the next write. Reading before locking is allowed by the code and hence by the model.
- The renewal thread has a request of its own (`renewal`). `Drop` ends the critical
  section, joins that thread, and `Release` queues the release without waiting.
- `InspectWorkspace` requests change nothing but drop expired leases, as every call does,
  and are left out. So are nested locks: a process holds one lock at a time here.

### WorkerQueue

What `InstallTransaction` and `GitPublication` leave out of the worker: the queue itself.
A client's `Upload` and `Enqueue` are two steps, because it may die between them and nobody
removes the upload. `Cycle` lists the directory, handles at most `MaxPerCycle` requests in
name order (`Take`, the steps of `process`, `WriteResult`, `Consume`) and skips what is
answered already (`CleanAnswered`). Three kinds of requests go through `process`: a state
mutation, a commit, and a `RecoverCommit` that names a commit. The commit is retained before
it is accepted (`Retain`), accepted through the ledger's journal (`AcceptNew`,
`Accepted`), prepared once (`Prepare`, `Build`), published (`Publish`, `Move`) and recorded
(`Record`, `RecordApplied`). A recovery runs the retained original again, or, for a commit
that an older worker left without retaining it, `recover_legacy_commit`. The initial states
have every set of such legacy commits.

A request is its bytes: `own` as its client sent them, `other` for anything else under the
name. The publication is the few steps between which the worker can die. Storage and
enrollment requests, installations, hook receipts and the heartbeat are not in this module.

`docs/GLOBAL_CODEX_EXECUTION.md:74` speaks of a maintenance marker that pauses queued
operations. A cycle that starts under the marker does nothing, but a packet that was listed
before the marker was written gets an immutable failed result (`ge/worker.rs:261`, the
first disjunct of `ProcessOwn`): the client has to send a new request.

### CheckpointMigration

One action per durable write of `publish_checkpoint_migration` and
`rollback_checkpoint_migration` in `ge/enrollment.rs`, each of which may be the last one before
the command dies or fails (`Stop`). The two commands exclude each other and hold the store's
state lock, which a save's lease holds as well. Files are named by what they are: the vault and
the store are records of an object and its rows, so the hashes and identities of the code are
equalities. A control file is created and then filled under a name its transaction fixes
(`CreateSlot`, `FillSlot`); `slots` keeps a file that was cut short between the two. Journals
and routes are written atomically (`write_json`).

Saves go on all the while. `SaveLocally` is the runtime that writes the vault; it is not
part of the repository and is assumed to look at both markers while it holds its database
open, and to be kept out by `pin_file`. The marked route is `SeeRoute`, `Acquire`, `Apply`,
`Answer`: the client copies the store, gets a lease, and the worker applies the patch in
one SQLite transaction if the route is active and the lease is live. Patches only add rows;
the per-row hashes that protect edited rows are left out, the lease alone is shown to be
enough for these.

`Unfinished` is who reruns what: the owner, through
`scripts/enroll-global-codex-projects.ps1` and `scripts/bootstrap-global-codex-worktree.ps1`
for a publication. For a withdrawal those scripts stop with "requires its explicit recovery
route" and the owner calls it. `Wedged` names the three states that no rerun gets past: a
control file that was cut short, the store of an earlier migration (publication fails at
`ge/enrollment.rs:778` with the deny marker in place), and a transition marker that a
withdrawal does not take with it. TLC reaches all three; they lose no row, and the property
that remains is that nothing else keeps a workspace closed.

### CheckpointRestore

`restore_impl_with_options`, `save_with_purpose` and their shared beginning,
`recover_orphaned_restore_transactions`, over the files of one snapshot and any number of
stores. A restore records originals and backups, journals its phase and steps, publishes
file after file (`Attempt` is the journal entry *before* a file is replaced, `Replace` the rename),
verifies, commits and removes its transaction; an error undoes what was attempted (`ToUndo`,
`Undo`, `UndoDir`). Death (`Die`) leaves the transaction for the next caller of the store, who
rolls it back under the state locks of the managed files, or only removes it when it was
committed. Users edit and add files at any time (`Edit`, `Share`), rayman's own commands write
managed files under their locks (`WriterLocks`, `WriterWrites`, `WriterLeaves`).

The state locks are taken one after the other in the order of the paths (`AcquireStateLock`),
by a restore between staging and preparation and by a recovery before it rolls back. Before
that every state file is resolved, and a missing `goals/` is made for its lock files
(`MakeGoals`; a writer makes it too). There are therefore two kinds of missing directory:
that of ordinary files (`dir`, the constant `Nested`), which a restore journals, makes and
removes again, and that of state files (`goals`, the constant `Goals`), of which no journal
tells and which stays. So the head comment `ry/checkpoint/restore.rs:5-6`, by which a
restore that is undone removes the directories it made, is not true of `goals/`;
`RestoredOrUndone` demands it of ordinary directories and states that `goals/` is there.

`OrphansRecover` promises that a *whole* transaction is dealt with: a committed one cleared
away and any other undone, unless that would overwrite somebody's work. It does not promise it
when the removal of a finished transaction stopped half-way (`CleanupStopped`). If
`staged/` or `backups/` went before the journal, `load_restore_transaction`
(`ry/checkpoint/restore.rs:945-948`) refuses it, and with it every later save and restore, until
somebody deletes the directory, although the restore had committed or was undone entirely and
nothing is at stake. The comment at `ry/checkpoint/restore.rs:816-827` says a failed cleanup of
a committed restore is not permanent; it is in this case. Backups without a
journal are kept for the owner on purpose (`:905-910`).

Copies into `staged/` touch nothing outside the transaction and are left out. The autosave
lock is taken whenever the managed root exists, which it does here. Retention by age, listing
and the migration of the legacy autosave are not modelled. The comment at
`ry/checkpoint.rs:549` says a saver must never snapshot a workspace left halfway; what
enforces it is a lock per store, so `RecoveryPointsAreWhole` is checked with one store, and
does not hold for two stores (`--dir`) over one workspace.

### UpdateTransaction

From `update configure` and the prepared worker request to the receipt. The worker waits for
the installation's mutex, checks again (`StillAdmitted`), reads the receipt, raises the
trusted floor (`AboveFloor`, `SaveFloor`), writes the active record (`Intend`), stages the
bundle and starts PowerShell, which publishes the roles under a journal of its own
(`AnnounceRole`, `MoveAside`, `PublishRole`, `CompleteRole`), verifies and commits, or rolls
back. A later worker that finds an active record cancels what was only staged
(`FindStaged`, `CancelStaged`) or repairs from the journal (`RepairRole`, `Refill`). The
script may die alone, and it may go on alone when its worker dies (`WorkerDies`): the worker
starts PowerShell as a plain child (`ry/update/install/windows.rs:577`) and only the worker
holds the mutex. Whatever such a script does until it ends or dies, the properties hold.
But nothing keeps the next worker from taking the abandoned mutex beside it, and
`SettledIsWhole` and `ActiveRecordIsTrue` are false of the code from then on: a worker may
find no journal and cancel what the script is about to publish, or announce its own update
over files the script is moving (drop `~overlap` from either property and TLC shows it). The
history variable `overlap` records that a worker took the mutex beside a script, and the
three properties promise nothing after that.

The journal's `committed` flag is set before the write of the commit
(`scripts/install-rayman.ps1:6343`). When that write throws, the rollback records a journal
that is rolled back *and* committed; `Assert-RaymanUpdateJournalMatchesPlan` (line 6140) and
the worker (`ry/update/install/windows.rs:467`) refuse it at every recovery, although all
files were put back, and `active.json` stays active. `InterruptedUpdateResolves` excuses that
state (`Contradicted`), against `docs/UPDATE_CONTRACT.md:165-171`, for which recovery
finishes or rolls back the transaction; TLC violates the property without the excuse.

The three skill resources are one role, signatures and hashes are exact, `consent` is true at
first. Expiry of requests and manifests, transport and an installer run from source without the
mutex are left out. A slot of `Workers` starts no new worker while its old script runs on;
another slot may. `Stranded` names what the poll cannot get past: a death between moving the CLI
or the receipt aside and publishing the new one. A poll needs the installed CLI as its caller
(`pending_recovery_launch`, `ry/update/install.rs:164`) and `run_worker_request` refuses before
it recovers when the receipt is missing (`ry/update/install.rs:201`), where
`docs/UPDATE_CONTRACT.md:165-171` lets a later poll recover.

### GoalLifecycle

Commands lock the goal file they write and nothing else, except a quarantine, which keeps
`pending.json` locked. So a command is one step unless it reads something unlocked and
uses it later; these are the plan's publication (`BeginPlan`, `PublishPlan`, `ConfirmPlan`,
`CommitPlan`, the file contents compared at both ends), a validation (`BeginRun`, `EndRun`,
`RecordReceipt`, with no lock while the command runs), `supersede` (`BeginSupersede` reads the
replacement without its lock) and a quarantine. `Proven` is the gate: every must requirement
and every path it was said to touch has a receipt at one fingerprint, and the changed files
are in the plan and in receipts. A fingerprint is the contents of all files. `early` is
history: the files that differed from the baseline before any plan named them. `writes` is
`updated_at`, which every write moves (`Stamped`).

Must requirements have the generic proof kind. Reviews, work packages, lanes, handoffs,
authority receipts, typed proofs, pending items of no goal, the migrations of older schemas and
the quarantine of *archived* successes are not modelled. The goal, requirement and paths of
a validation are chosen when its receipt is recorded: no step before depends on them.

### StopHook

`EXTENDS GoalLifecycle`: `evaluate_stop_event_with_phase_hook` with one action per read of
goals, files and pending items, interleaved with everything that module can do. A turn ends
without a question (`silent`, `allowed`) or with the rendered questions in its last message
(`observed`), for which everything is read a second time (`Confirm` ... `RenderAgain`). Where
the code collects a reason to block and reads on, the model blocks at once: only the answer
counts. `checked_frontier_report` compares `updated_at`, status and lifecycle where `Unmoved`
compares the whole record; as every write moves `updated_at`, that is the same. `views`,
`unsettled` and `whole` are history: what the evaluation could have seen.

## 3. Runs

| Run | Instance | Shows |
| --- | --- | --- |
| `ledger` | 2 callers, a begin, two progress reports for one revision, one effect id with two contents, capacity 3 | `TypeOK`, `RecoveryNeverConflicts`, `RevisionsAreExact`, `EffectGrantedOnceAndDurable`, `AnswersAreDurable`, and that it implements `AtomicLedger` |
| `publication` | 2 objects, 2 crashes, 4 foreign steps, 2 attempts, fairness | nothing unreviewed is replaced, the branch is whole and moves once, locks have one owner, the index of a half-publication is locked; the commit completes unless an obstruction named in `Obstructed` is there |
| `installs` | 2 installations over 2 files, one of them new, 3 faults, 1 foreign write, fairness | one generation, marked while half-way, old bytes kept, ledger and results tell the truth, foreign files survive; every queued installation is answered |
| `install_admission` | 1 installation, 1 fault | **violated**: see the finding |
| `leases` | 2 processes, 2 requests at a time, lease and request live one tick, 1 change each, 1 fault | no acknowledged change is lost, locks exclude each other unless a lease was lost, a late write is fenced off |
| `lease_recovery` | table of one lease, requests live two ticks, 1 fault, fairness | `TypeOK` (the table never exceeds its limit); some process gets its lock again and again |
| `restore` | 1 store with 1 snapshot kept, 4 files: a new goal whose `goals/` is missing, `pending.json`, an ordinary file, and a new one in a new directory; 2 faults, 1 edit, fairness | `RestoredOrUndone`, `StateWritesSurvive`, `RecoveryPointsAreWhole`; a dead restore is cleared away or undone unless that would overwrite somebody's work or its removal stopped half-way (`OrphansRecover`) |
| `update` | 2 requests for 2 successive releases, 2 workers, 2 faults, 1 change of consent, fairness; after an overlap the first request alone is followed | `SettledIsWhole`, `ActiveRecordIsTrue`; an interrupted update is finished or rolled back unless `Stranded` or `Contradicted` (`InterruptedUpdateResolves`); scripts that outlive their worker among it, until another worker works beside one |
| `goals` | 2 goals with 1 and 2 duties, 2 files, 1 pending item, 1 process in a long command, 6 commands, 1 edit | `NoDutyDropped`, `PlanPrecedesChange`, `NoBoundaryHidden` |
| `stop` | 2 goals with 1 duty, 1 file, 1 item for the agent and 1 for a human, 4 commands, 1 edit, 1 evaluation | `StopIsEarned` |
| `queue` | 1 state mutation, 1 commit, 1 recovery of it, 3 entries, 1 request per cycle, 2 faults, 1 foreign step, fairness | `AnswersAreTrue`, `QueueDrains`, `RecoveryCompletesIntent` |
| `migration` | 2 migrations, 2 saves, 2 faults, fairness | `RoutedRowsAreLatest`; a workspace that was closed opens again unless it is wedged (`DenialEnds`) |

**Bounds.** `MaxAttempts` stands for the 8 staging attempts, `MaxRequests`/`MaxTasks` for
100,000 and 10,000, `MaxLeases` for 256, `LeaseTime` and `Lifetime` for 120 seconds: the
instances are small enough to *reach* each limit, which production sizes never would. `MaxTime`
lets one request of the ledger expire and another live. `Slots` bounds the requests in flight:
two let a main thread race its own renewal thread or another process, and let a release wait
behind either. `LeaseIds` has more members than can be in use, so `ServeAcquire` always finds a
`NewId`. `MaxCrashes`, `MaxFaults` and `MaxMeddles` bound what goes wrong: every crash point of
one run is followed by every crash point of its recovery, and two faults let a retry meet a
retry; the lease runs allow one, and the theorems of section 4 hold for any number. `MaxEntries`
and `MaxPerCycle` stand for 4096 and 32: three entries are reached with one of each kind of
request, and with one request a cycle a packet that is not consumed would starve the next. The
recovery request has the smallest name and is therefore looked at before the commit it names.
Six commands are enough to start both goals, prove one and supersede the other by it, or to
prove one, change a file and quarantine or restore it; one edit is enough for every window,
since a window is between two looks at the same file. The same holds for the four commands of
`stop`, whose evaluation reads each thing at most three times. Two migrations let a second one
meet what the first left; two saves, one by each route. Two objects and two files give "some
done, some not"; three steps of a loop add no new kind of state. Two callers, processes or
installations are enough for every hazard listed, each of which names two actors.

**Symmetry and view.** Callers and clients are interchangeable in the safety runs. The view of
`leases` forgets expired leases (each worker call drops them first) and replaces a lease
id by the object of the live lease it names, or by "gone", since ids are only ever compared
with live ones. Neither is used with a liveness property.

**Deadlock** is not checked where the system really may have nothing left to do once its
bounds are used up: installations and the queue with every request answered and consumed,
updates without a request, goals and the hook without another command.

**Fairness.** `publication`: weak fairness of the worker's next step and of `Begin`, because
`serve` loops forever, the service manager restarts the process, and the owner asks for recovery
as long as the commit is open. `installs` and `queue`: weak fairness of the worker alone,
`Consume` and `Startup` included. `lease_recovery`: strong fairness of each slot, because a
cycle takes *every* queued request and so none is passed over forever, and weak fairness of
time, of reading results, and of asking again. `restore`: operations go on, snapshots are saved
again and again, and a caller that waits seconds for a lock finds a gap between writers that
hold it for milliseconds (strong fairness of `AcquireStateLock`). `update`: a worker, its script
and the poll that starts the next worker, under one weak fairness, because each runs only while
the others wait (until a worker works beside a script that outlived another, after which nothing
is promised). `migration`: a command goes on, leases lapse, and the owner reruns what a journal,
a transition or a marker says is not over. Nobody is assumed to release a lock, renew it, or
finish a write: a process may sit in its critical section or vanish.

### Finding

`install_admission`: at startup the worker asks `recorded_result` whether the active
installation was admitted (`ge/worker.rs:603`), and that reads the ledger *without* completing the
ledger's journal (`ge/storage.rs:81`). After a crash between journal and ledger, an
admitted installation is taken for unadmitted. Its marker is withdrawn; its queued packet
is then refused because a plan exists (`ge/install.rs:566`), and this error is its result
for good; the next request of that worktree completes the journal, and the ledger holds
the installation as open with neither marker nor packet to recover it.
`docs/GLOBAL_CODEX_EXECUTION.md:227` promises that "unadmitted staging is cancelled, while
an admitted transaction recovers its original journal", and `ge/storage.rs:205` that
"Recovery completes this exact ledger transition, then the executor handles any
recovery-required effect". No file is touched in this state, and the properties of
`installs` hold in it.

## 4. Proofs

`tlapm` checks eight modules. Each theorem holds for every value of the constants that satisfies
the named assumptions of its module: they give constants their types (`ConstantsAssumption`,
`BoundsAssumption`) and keep `None` apart from every value it stands beside (`NoneAssumption`).
TLC evaluates them in every run. Number of processes, requests, files and duties, limits, and
the number of crashes and foreign steps are arbitrary everywhere.

Each module is built alike: `IndInv` is the conjunction of named parts, among them
the properties themselves where they are needed to go on; TLC has checked it on the
instance of the run; `InitIndInv` and one lemma per action (or per kind of step that
differs only in what it leaves alone) show that it is inductive; `Invariance` is the
theorem, and the others follow from it.

**`StateLedgerProofs`** (from `RequestsAssumption`, `NoneAssumption`, `BoundsAssumption`,
`CallersAssumption`): any callers, requests, ids, tasks and digests.

| Theorem | Establishes |
| --- | --- |
| `TypeCorrect` | `TypeOK` |
| `RecoverySafe` | `RecoveryNeverConflicts` |
| `GrantSafe` | `EffectGrantedOnceAndDurable` |
| `AnswersSafe` | `AnswersAreDurable` |
| `RevisionsSafe` | `RevisionsAreExact` |
| `Refinement` | `ImplementsAtomicLedger` |

None of the properties is inductive alone: that a grant is durable when it is handed out
depends on what the caller published several steps earlier. `IndInv` adds what the lock
holder knows: whoever is inside a call holds the lock (`OneCaller`); a journal continues
the ledger and `Preserves` what it had recorded (`JournalContinues`); a decided transition
is one of `ledger.rs`, taken from the ledger that is still there (`DecidedWell`), and after it
is journaled, the journal or the ledger is that plan (`CallsAreSound`). One lemma per
action; `AdmittedFacts` and `SettledFacts` say once what the pure transitions preserve.
The refinement shows that `WriteJournal` maps to `Admit` or `Settle`, `Return` of
`execute_effect` to `Grant`, and every other step, a crash included, to a stutter.

**`StateLeasesProofs`** (from `ConstantsAssumption`): any processes, requests in flight,
lease ids, table size and number of faults.

| Theorem | Establishes |
| --- | --- |
| `TypeCorrect` | `TypeOK`, with the limit of the lease table |
| `ChangesSafe` | `AcknowledgedChangesStay` |
| `ExclusionSafe` | `ExclusiveUnlessLost` |
| `WritesSafe` | `WritesAreFenced` |

The argument is about identity. Every request has at most one reader (`OneReader`);
a lease id is known to one process or is one unread result, and the id of a queued release
to nobody (`KnownOnce`), so a late release or renewal cannot touch another's lease; the
table has one live entry per lock and everyone who knows an id knows the lock it is for
(`OneLeasePerLock`); and a process inside whose lease was not lost is in the table
(`HoldersAreLive`). Two such processes in one lock would have the same live entry, hence
the same id. `ChangesSafe` does not need the leases: every write only adds to what it
expects (`RequestsAreSound`), and an acknowledgement compares the file with the bytes written
(`EachAt`), so the compare-and-swap alone protects it - as it must, because the two locks that
cover a goal do not exclude each other. `ReplyFacts` treats once the worker's answer and its
failure to write one; `ChangedLeases` treats expiry, release and renewal.

`RevisionsSafe` needs no more of the storage than the refinement: the revision is the number
of changes in the book (`Exact`), which each step of the *abstract* specification keeps, so
the proof is an induction over `AtomicLedger`'s steps with `Durable` for its book.

**`GitPublicationProofs`** (from `BoundsAssumption`): any objects, attempts, crashes and
steps of other programs.

| Theorem | Establishes |
| --- | --- |
| `TypeCorrect` | `TypeOK` |
| `RefSafe` | `PublishedRefIsWhole` |
| `MoveSafe` | `RefMovesAtMostOnce` |
| `LocksSafe` | `LocksHaveOneOwner` |
| `HalvesSafe` | `HalfPublicationIsLocked` |
| `ReplacementsSafe` | `ReplacesOnlyReviewed` |

The hard one is that the ref is moved once however often the worker dies and starts again.
The staged ref is used up by the move (`SlotsAreSound`), whoever meets the commit or
its index afterwards knows that it was moved (`MoveIsSeen`), and a run that has checked the ref
and the index under its locks finds them as it read them until it is done (`ClaimsHold`).
`publication.json` is there before anything moves (`PhaseIsSound`), and `objects` is walked in
order, so that all of them are in the store when the ref is published (`ObjectsAreDone`, with
`NextIsToDo` for the least element of what is left).

**`InstallTransactionProofs`** (from `ConstantsAssumption`, `NoneAssumption`): any
installations, number of files and of faults.

| Theorem | Establishes |
| --- | --- |
| `TypeCorrect` | `TypeOK` |
| `GenerationSafe` | `NoMixedGeneration` |
| `MarkersSafe` | `HalfInstallIsMarked` |
| `OldBytesSafe` | `OldBytesAreKept` |
| `SettlementsSafe` | `SettledAsDone` |
| `ResultsSafe` | `ResultsRepeatLedger` |
| `ForeignFilesSafe` | `ForeignFilesSurvive` |

Four records of the same installation can disagree after a crash: the ledger entry, the
kernel's journal, the marker and the files. `RecordsAgree` says by how much: a
journal without a settled entry has the marker, a success is a committed journal, a failure is
one that was rolled back or never begun, with no byte of it left. `FilesAreSound` says what
the files are: without a marker they are of one generation; with one, each file is the old one
or the old one is in the backup, unless all are the new ones. `RunIsSound` is what a run of
the worker has established at each step; the two loops of the kernel, which publishes in
ascending and repairs in descending order, have their loop invariants there.
`BytesAreKnown` excludes that a bundle's bytes are anywhere before its publication, which is why
bytes tell whose a file is.

**`WorkerQueueProofs`** (from `ConstantsAssumption`, `NoneAssumption`): any requests,
recoveries, capacity and limit of a cycle.

| Theorem | Establishes |
| --- | --- |
| `TypeCorrect` | `TypeOK` |
| `AnswersSafe` | `AnswersAreTrue` |

A result is written from the verdict a run carries, some steps after the ledger was. The
ledger never goes back (`LedgerIsSound`: a journaled transition continues it), so the verdict
still holds when it is written, and the written result as long as it is there; `RunIsSound`
ties each step to its request, or for a recovery to the request it names.

**`UpdateTransactionProofs`** (from `ConstantsAssumption`, `NoneAssumption`): any requests,
versions and workers.

| Theorem | Establishes |
| --- | --- |
| `Invariance` | `overlap \/ IndInv`, `TypeOK` among it |
| `SettledSafe` | `SettledIsWhole` |
| `ActiveRecordSafe` | `ActiveRecordIsTrue` |

All three stop where the code does: at the first worker that takes the mutex beside a script
without its worker (`overlap`, which no step takes back: `OverlapStays`). Until then only the
holder of the mutex is inside a transaction (`WorkerIsSound`), and while a script runs, with its
worker or alone, nobody else is inside (`ScriptIsSound`); while there is no journal nothing was
touched, and during an active update the receipt is the old one, the new one or aside
(`ActiveIsSound`); the backup of the receipt is that of the request's own plan, and requests
only rise above it (`RequestIsSound`). So a repair puts back what this update found, never what
another left.

**`CheckpointProofs`**, first part, on `CheckpointMigration` (from `ConstantsAssumption`,
`NoneAssumption`): any migrations, saves and interruptions.

| Theorem | Establishes |
| --- | --- |
| `TypeCorrect` | `TypeOK` |
| `RowsSafe` | `RoutedRowsAreLatest` |

At each moment one of two databases has every row that was reported as saved, and the final
marker alone says which (`HomeIsLatest`) - not the route, the journal or the other
markers. For that to survive a step, the database that is about to become the latest must
have all rows *before* the marker appears or goes (`CommandIsSound`: the copy is
made, and nobody saves meanwhile, since a command and a lease exclude each other,
`LockExcludes`), and a migration that was committed once must never start over
(`RecordsAgree`: its store and its marker stay until its withdrawal carried the rows back).

**`CheckpointProofs`**, second part, on `CheckpointRestore` (from `WorkspaceAssumption`): any
number of files, state files and new ones among them, of edits, deaths and errors.

| Theorem | Of | Establishes |
| --- | --- | --- |
| `RestoreTypeCorrect` | any stores | `RestoreTypeOK` |
| `StateWritesSafe` | any stores | `StateWritesSurvive` |
| `RestoreSafe` | one store | `RestoredOrUndone` |
| `RecoveryPointsSafe` | one store | `RecoveryPointsAreWhole` |

The induction has two layers. `CallsInv` holds with any number of stores: whoever publishes
or undoes has every state lock (`CallIsSound`), so that a managed file which was looked at is
still the same when it is replaced, although a death may hand the transaction to another
caller in between. That is all `StateWritesSafe` needs.

`StoresInv` is about a store's journal. `JournalIsTrue` relates it to the workspace at each
phase: a planned file has not been touched, an attempted one is the original, the snapshot's
or somebody else's edit, an undone one is the original again, and `made` covers the directory
*before* it exists. It therefore holds whoever reads the journal next, and `ResultIsTrue`, the
property, follows when the transaction is removed. `BeginningIsSound`, `PublicationIsSound` and
`RollbackIsSound` are what the caller knows beyond the journal, between two entries of it.
`SavesAreSound` says that whoever captures found no orphan left, but for a salvage, whose
snapshots are recovery-only; and it has the property itself, which rotation keeps because it
deletes only while two whole standard snapshots are there.

The last clause of `RestoredOrUndone`, on `goals/`, needs none of this and holds for any number of
stores: `GoalsAreMade` says that without `goals/` no restore has come as far as its locks, has
left a journal beyond its preparation, or has ended, and nobody removes the directory
(`GoalsStay`). `WorkspaceAssumption` keeps the two kinds of directory apart: the files of
`Nested` are not managed, those of `Goals` are.

`OneStore` (`\A s, t \in Stores : s = t`) is the hypothesis of these two theorems, and the
instance of the run. It is needed: each store serializes its own callers only. A saver of a
second store may undo an orphan of its own after the first has begun a restore and before
that has the state locks, and it may capture what a restore of the first has left half-way.
Without `--dir` there is one store.

**`GoalLifecycleProofs`** (from `ConstantsAssumption`, `NoneAssumption`): any goals, duties,
paths, items and agents, any number of commands and edits, and for the hook any number
of its evaluations.

| Theorem | Establishes |
| --- | --- |
| `TypeCorrect` | `TypeOK` |
| `PlansSafe` | `PlanPrecedesChange` |
| `DutiesSafe` | `NoDutyDropped` |
| `BoundariesSafe` | `NoBoundaryHidden` |
| `HookTypeCorrect` | `HookTypeOK` (from `StopsAssumption`) |
| `StopSafe` | `StopIsEarned` |

A plan is safe because an early file differs from the baseline (`EarlyDiffers`), and a
path is planned only where the compared contents equal the baseline (`Plans`): an intent may
name an early file, but as long as it does, the files differ from those it was made for
and neither confirmation nor retry lets it pass (`Knows`, `IntentsArePlans`). A duty is safe
because no write takes back a goal's baseline, success or receipts (`Keeps`), so the
replacement that `supersede` read without a lock only got better (`SeenIsKept`). A
boundary is safe because only a quarantine hides a goal (`OnlyQuarantineHides`), and it keeps
`pending.json` locked from its check to its write.

The hook takes no lock, so nothing it has read need be true when it answers. What the
proof lives on is that a goal file never becomes again what it was (`Forward`, `Past`, `NoReturn`):
whatever the hook finds unchanged was unchanged all the while. Hence a goal whose record is
read again and the same was complete at the moment its frontier was judged
(`PassedAreSettled`), and goals and items that are confirmed to be as read were all so
together when `pending.json` was read the first time (`SightIsWhole`). The items alone
could not carry this: one may be opened and resolved between two reads. In the code `updated_at`
is what keeps goal files from recurring: every write moves it to the present
(`goal_event_timestamp`, `ry/goal.rs:515`), in microseconds and never back. The model's
`writes` is that clock, and it assumes that the clock moves between two writes of one
file. With a clock set back, `updated_at` stays where it was and a restored goal could equal an
earlier one.

**Only model-checked:**

- `RestoredOrUndone` and `RecoveryPointsAreWhole` are proved for one store only (above), and
  so are they checked.
- All liveness (`CompletesUnlessObstructed`, `EveryInstallAnswered`, `LocksComeBack`,
  `OrphansRecover`, `InterruptedUpdateResolves`, `QueueDrains`, `RecoveryCompletesIntent`,
  `DenialEnds`), which is out of the prover's reach.

## 5. Not modelled

`PROJECT.json` has a row with the reason for each component. In short:

- Linked worktrees and relocation: a few single protected files under a lock, whose checks
  are guards that every modelled request is assumed to have passed.
- Temporary leases, native file access, ACLs and the process runner: handles, identities and
  access lists of Windows. Their effects (no link, the right object, a killed child) appear
  as the file operations of the models.
- Context maps, source walking, state paths, messages (`i18n.rs`), workspace setup and
  argument parsing: analysis, tables and text without a protocol. They are a large part of
  the lines and none of the hazards, which is why the lines that the map covers are a small
  share of the repository while the parts of section 1 that have state are covered.
- The evaluation harness, `xtask` and the repository scripts other than the installer.

What is left out inside a modelled part is said in its paragraph of section 2.

Within the modelled parts, the models do not cover malformed files (each is parsed
strictly, and a failure is `Fail` or `Refuse`), hash collisions, or a file system that loses
what was written and flushed.

## 6. Plan

The modules of the first plan are written, but for `TempLeases`, `Relocation` and `Worktrees`
(section 5 says why), and every safety property of them is a theorem, with the inductive
invariant it needs. What is left:

1. Promises worth an abstract specification of their own, as `AtomicLedger` is for the
   storage: an installation as one atomic change of generation, a restore as one atomic
   change of the workspace, and the compare-and-swap of a goal file as an atomic
   read-modify-write; each with its refinement checked and then proved.
2. Two stores over one workspace: what still holds of a restore when another store's
   recovery or saver runs beside it.
