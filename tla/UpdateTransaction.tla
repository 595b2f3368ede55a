------------------------- MODULE UpdateTransaction -------------------------
(* The signed update of an installed rayman: the preference and the request  *)
(* (update_cli.rs, update/state.rs), the update worker (update/install.rs,   *)
(* update/install/windows.rs) and the installer script it feeds to           *)
(* PowerShell (scripts/install-rayman.ps1).  The script publishes the six    *)
(* fixed roles one after the other under a journal; active.json names the    *)
(* one transaction that may be recovered, and a later worker finishes or     *)
(* rolls it back.                                                            *)
(*                                                                           *)
(* Signatures and hashes are exact: a file is known by the release (0: the   *)
(* generation installed first) whose bytes it has, the receipt by its        *)
(* request.  The three skill resources are one role, they are published      *)
(* alike.  The worker executable has a path of its own per version.          *)
EXTENDS Naturals, FiniteSets, Sequences

CONSTANTS
    Requests,    \* update requests, by their random identifier
    Candidate,   \* the version each request asks for
    Workers,     \* processes that may run an update worker
    None,        \* no content, request, phase or process
    MaxFaults,   \* bound: deaths of processes, I/O, network and health-check errors
    MaxChoices   \* bound: changes of the user's consent

Roles == <<"skill", "worker", "cli", "receipt">>
Slots == {"skill", "cli", "receipt"}          \* the files that are replaced
Steps == 1 .. Len(Roles)

ASSUME ConstantsAssumption ==
    /\ IsFiniteSet(Requests) /\ 0 \notin Requests /\ None \notin Requests \cup Nat
    /\ Candidate \in [Requests -> Nat \ {0}]
    /\ IsFiniteSet(Workers) /\ None \notin Workers
    /\ MaxFaults \in Nat /\ MaxChoices \in Nat

(* None is no status of active.json and no phase of a journal.               *)
ASSUME NoneAssumption ==
    None \notin {"active", "recovered_old", "committed", "preparing", "publishing",
                 "verifying", "rolled_back", "blocked"}

Versions == {0} \cup {Candidate[r] : r \in Requests}
Receipts == {0} \cup Requests
Contents == Versions \cup Requests \cup {None}
VersionOf(receipt) == IF receipt = 0 THEN 0 ELSE Candidate[receipt]

VARIABLES
    file,      \* the installed files; None while a slot is empty
    exe,       \* the versions whose worker executable is installed
    request,   \* per request: the receipt it was prepared for, None before
    consent,   \* auto_install
    active,    \* active.json
    floor,     \* trusted.json: the highest release seen, 0 without a file
    txn,       \* per request: is there a transaction directory?
    plan,      \* per request: apply-plan.json, the receipts that state the old bytes
    journal,   \* per request: journal.json
    backup,    \* per request and slot: the backup beside the file
    mutex,     \* the holder of the installation's mutex
    proc,      \* the update workers
    script,    \* per worker: the PowerShell process it started
    \* history: has a worker taken the mutex beside a script that outlived its worker?
    overlap,
    \* bounds
    faults, choices

vars == <<file, exe, request, consent, active, floor, txn, plan, journal, backup,
          mutex, proc, script, overlap, faults, choices>>

Phases == {None, "preparing", "publishing", "verifying", "committed", "rolled_back", "blocked"}
Journals == [phase : Phases, next : Steps \cup {0}, done : Steps \cup {0},
             committed : BOOLEAN]
NoJournal == [phase |-> None, next |-> 0, done |-> 0, committed |-> FALSE]
Record(phase, next, done) ==
    [phase |-> phase, next |-> next, done |-> done, committed |-> phase = "committed"]

Plans == [tuple : Receipts, receipt : Receipts]

Procs == [pc : {"idle", "waiting", "locked", "apply", "cancel", "staging", "running",
                "repairing", "installed", "closing"},
          request : Requests \cup {None},
          recovery : BOOLEAN,
          seen : Receipts]              \* the receipt read under the mutex
IdleProc == [pc |-> "idle", request |-> None, recovery |-> FALSE, seen |-> 0]

Scripts == [pc : {"off", "start", "next", "move", "publish", "done", "check", "commit",
                  "clean", "undo", "restore", "repair", "refill", "ended"},
            request : Requests \cup {None},
            at : 0 .. Len(Roles) + 1,
            mine : SUBSET Steps,        \* the roles this run has published
            flag : BOOLEAN,             \* $journal.committed, when the last write failed
            lost : BOOLEAN,             \* a rollback failed
            ok : BOOLEAN]               \* the exit status, once ended
NoScript == [pc |-> "off", request |-> None, at |-> 0, mine |-> {}, flag |-> FALSE,
             lost |-> FALSE, ok |-> FALSE]

TypeOK ==
    /\ file \in [Slots -> Contents]
    /\ exe \subseteq Versions
    /\ request \in [Requests -> Receipts \cup {None}]
    /\ consent \in BOOLEAN
    /\ active \in [request : Requests \cup {None},
                   status : {None, "active", "recovered_old", "committed"}]
    /\ floor \in Versions
    /\ txn \in [Requests -> BOOLEAN]
    /\ plan \in [Requests -> Plans]
    /\ journal \in [Requests -> Journals]
    /\ backup \in [Requests -> [Slots -> Contents]]
    /\ mutex \in Workers \cup {None}
    /\ proc \in [Workers -> Procs]
    /\ script \in [Workers -> Scripts]
    /\ overlap \in BOOLEAN
    /\ faults \in 0 .. MaxFaults /\ choices \in 0 .. MaxChoices

Init ==
    /\ file = [s \in Slots |-> 0]
    /\ exe = {0}
    /\ request = [r \in Requests |-> None]
    /\ consent = TRUE
    /\ active = [request |-> None, status |-> None]
    /\ floor = 0
    /\ txn = [r \in Requests |-> FALSE]
    /\ plan = [r \in Requests |-> [tuple |-> 0, receipt |-> 0]]
    /\ journal = [r \in Requests |-> NoJournal]
    /\ backup = [r \in Requests |-> [s \in Slots |-> None]]
    /\ mutex = None
    /\ proc = [w \in Workers |-> IdleProc]
    /\ script = [w \in Workers |-> NoScript]
    /\ overlap = FALSE
    /\ faults = 0 /\ choices = 0

installation == <<file, exe, backup>>
records == <<request, consent, active, floor>>
bounds == <<overlap, faults, choices>>

----------------------------------------------------------------------------
(* Helpers                                                                   *)

(* The bytes a plan publishes in a slot, and those it expects to replace.    *)
NewBytes(r, slot) == IF slot = "receipt" THEN r ELSE Candidate[r]
OldBytes(r, slot) == IF slot = "receipt" THEN plan[r].receipt ELSE VersionOf(plan[r].tuple)

(* verify_receipt_tuple, verify_installed_receipt_files: every file has the  *)
(* hash that the receipt states.                                             *)
TupleMatches ==
    /\ file["receipt"] # None
    /\ \A s \in Slots \ {"receipt"} : file[s] = VersionOf(file["receipt"])
    /\ VersionOf(file["receipt"]) \in exe

ActiveIs(r) == active = [request |-> r, status |-> "active"]

Goto(w, pc) == proc' = [proc EXCEPT ![w].pc = pc]
Return(w) == /\ proc' = [proc EXCEPT ![w] = IdleProc]
             /\ mutex' = IF mutex = w THEN None ELSE mutex
Fault == faults < MaxFaults /\ faults' = faults + 1 /\ UNCHANGED <<overlap, choices>>

----------------------------------------------------------------------------
(* The user and the command line                                             *)

(* update configure --auto-install / --no-auto-install.  Bound: while an     *)
(* update is active, which no longer depends on it, the choice stays.        *)
Configure ==
    /\ choices < MaxChoices /\ active.status # "active"
    /\ choices' = choices + 1
    /\ consent' = ~consent
    /\ UNCHANGED <<installation, request, active, floor, txn, plan, journal, mutex,
                   proc, script, overlap, faults>>

(* update poll, when no update is to be recovered: prepare_worker_request    *)
(* binds a new request to the receipt.  The command is the installed CLI.    *)
PrepareRequest(r) ==
    /\ request[r] = None
    /\ active.status # "active"
    /\ consent
    /\ TupleMatches
    /\ Candidate[r] > VersionOf(file["receipt"])
    /\ request' = [request EXCEPT ![r] = file["receipt"]]
    /\ UNCHANGED <<installation, consent, active, floor, txn, plan, journal, mutex,
                   proc, script, bounds>>

----------------------------------------------------------------------------
(* The update worker                                                         *)

(* run_worker_request before the mutex.  An active update makes this run a   *)
(* recovery, for its own request only; any other needs consent and the       *)
(* installation the request was prepared for.  (It needs a request younger   *)
(* than 24 hours, too; but no run of a new update has to happen.)            *)
Start(w, r) ==
    /\ proc[w].pc = "idle" /\ script[w].pc = "off"
    /\ request[r] # None
    /\ file["receipt"] # None
    /\ IF active.status = "active"
       THEN active.request = r
       ELSE /\ consent
            /\ file["receipt"] = request[r]
            /\ Candidate[r] > VersionOf(file["receipt"])
            /\ TupleMatches
    /\ proc' = [proc EXCEPT ![w] = [pc |-> "waiting", request |-> r, seen |-> 0,
                                    recovery |-> active.status = "active"]]
    /\ UNCHANGED <<installation, records, txn, plan, journal, mutex, script, bounds>>

(* Mutant: nothing is read again under the mutex but the active update. *)
StillAdmittedOnce(w) ==
    file["receipt"] # None /\ (proc[w].recovery => ActiveIs(proc[w].request))

(* UpdateMutex::acquire, also of an abandoned mutex, and the second look at  *)
(* everything the first one relied on.  Nothing asks for the script that the *)
(* dead owner of the mutex may have left running.                            *)
StillAdmitted(w) ==
    LET r == proc[w].request IN
    /\ file["receipt"] # None
    /\ IF proc[w].recovery THEN ActiveIs(r)
       ELSE consent /\ file["receipt"] = request[r] /\ TupleMatches

Lock(w) ==
    /\ proc[w].pc = "waiting" /\ mutex = None
    /\ StillAdmitted(w)
    /\ mutex' = w
    /\ proc' = [proc EXCEPT ![w].pc = "locked", ![w].seen = file["receipt"]]
    /\ overlap' = (overlap \/ \E v \in Workers : script[v].pc # "off")
    /\ UNCHANGED <<installation, records, txn, plan, journal, script, faults, choices>>

LockRefused(w) ==
    /\ proc[w].pc = "waiting" /\ mutex = None
    /\ ~StillAdmitted(w)
    /\ Return(w)
    /\ UNCHANGED <<installation, records, txn, plan, journal, script, bounds>>

(* The bundle is fetched and verified.  A new update must rise above the     *)
(* trusted floor, or without one above the request's prior version, and      *)
(* still have consent: then active.json makes its recovery mandatory.  A     *)
(* release's sequence number rises with its version.                         *)
AboveFloor(r) ==
    Candidate[r] > IF floor = 0 THEN VersionOf(request[r]) ELSE floor

Intend(w) ==
    LET r == proc[w].request IN
    /\ proc[w].pc = "locked"
    /\ proc[w].recovery \/ (AboveFloor(r) /\ consent)
    /\ active' = IF proc[w].recovery THEN active ELSE [request |-> r, status |-> "active"]
    /\ Goto(w, "apply")
    /\ UNCHANGED <<installation, request, consent, floor, txn, plan, journal, mutex,
                   script, bounds>>

IntendRefused(w) ==
    /\ proc[w].pc = "locked" /\ ~proc[w].recovery
    /\ ~(AboveFloor(proc[w].request) /\ consent)
    /\ Return(w)
    /\ UNCHANGED <<installation, records, txn, plan, journal, script, bounds>>

RecoveredOld(w) ==
    /\ active' = [active EXCEPT !.status = "recovered_old"]
    /\ Return(w)
    /\ UNCHANGED <<request, consent, floor>>

(* Mutant: cancels an existing transaction without looking for its journal. *)
FindStagedBlindly(w) ==
    /\ proc[w].pc = "apply"
    /\ txn[proc[w].request] \/ proc[w].recovery
    /\ Goto(w, "cancel")
    /\ UNCHANGED <<installation, records, txn, plan, journal, mutex, script, bounds>>

(* apply_verified_bundle.  Nothing was published unless there is a journal:  *)
(* a transaction without one is cancelled, and so is an intent without a     *)
(* transaction.  The look for the journal comes before the removal.          *)
FindStaged(w) ==
    LET r == proc[w].request IN
    /\ proc[w].pc = "apply"
    /\ IF txn[r] THEN journal[r] = NoJournal ELSE proc[w].recovery
    /\ Goto(w, "cancel")
    /\ UNCHANGED <<installation, records, txn, plan, journal, mutex, script, bounds>>

CancelStaged(w) ==
    LET r == proc[w].request IN
    /\ proc[w].pc = "cancel"
    /\ txn' = [txn EXCEPT ![r] = FALSE]
    /\ journal' = [journal EXCEPT ![r] = NoJournal]
    /\ RecoveredOld(w)
    /\ UNCHANGED <<installation, plan, script, bounds>>

Stage(w) ==
    LET r == proc[w].request IN
    /\ proc[w].pc = "apply" /\ ~txn[r] /\ ~proc[w].recovery
    /\ txn' = [txn EXCEPT ![r] = TRUE]
    /\ Goto(w, "staging")
    /\ UNCHANGED <<installation, records, plan, journal, mutex, script, bounds>>

(* run_installer_script_from_memory.                                         *)
Launch(w) == script' = [script EXCEPT ![w] = [NoScript EXCEPT !.pc = "start",
                                                              !.request = proc[w].request]]

RunPlan(w) ==
    LET r == proc[w].request IN
    /\ proc[w].pc = "staging"
    /\ txn[r] /\ file["receipt"] # None
    /\ plan' = [plan EXCEPT ![r] = [tuple |-> proc[w].seen, receipt |-> file["receipt"]]]
    /\ Launch(w)
    /\ Goto(w, "running")
    /\ UNCHANGED <<installation, records, txn, journal, mutex, bounds>>

(* The plan takes the hash of the receipt as it is by then, or panics.       *)
RunPlanFails(w) ==
    /\ proc[w].pc = "staging" /\ file["receipt"] = None
    /\ Return(w)
    /\ UNCHANGED <<installation, records, txn, plan, journal, script, bounds>>

(* recover_existing_transaction: the staged plan runs again.                 *)
RunRepair(w) ==
    LET r == proc[w].request IN
    /\ proc[w].pc = "apply"
    /\ txn[r] /\ journal[r] # NoJournal
    /\ Launch(w)
    /\ Goto(w, "repairing")
    /\ UNCHANGED <<installation, records, txn, plan, journal, mutex, bounds>>

Ended(w, ok) == script[w].pc = "ended" /\ script[w].ok = ok
NewInstalled(r) == VersionOf(file["receipt"]) = Candidate[r] /\ TupleMatches
RolledBackCleanly(r) == journal[r].phase = "rolled_back" /\ ~journal[r].committed
OldInstalled(r) == VersionOf(file["receipt"]) = VersionOf(request[r]) /\ TupleMatches

Installed(w) ==
    LET r == proc[w].request IN
    /\ Ended(w, TRUE)
    /\ file["receipt"] # None /\ NewInstalled(r)
    /\ proc[w].pc = "running" => file["receipt"] = r
    /\ script' = [script EXCEPT ![w] = NoScript]
    /\ Goto(w, "installed")
    /\ UNCHANGED <<installation, records, txn, plan, journal, mutex, bounds>>

Repaired(w) ==
    LET r == proc[w].request IN
    /\ Ended(w, FALSE) /\ proc[w].pc = "repairing"
    /\ RolledBackCleanly(r)
    /\ file["receipt"] # None /\ OldInstalled(r)
    /\ script' = [script EXCEPT ![w] = NoScript]
    /\ RecoveredOld(w)
    /\ UNCHANGED <<installation, txn, plan, journal, bounds>>

(* The run ends with an error and leaves active.json as it is.               *)
ScriptFailed(w) ==
    LET r == proc[w].request IN
    /\ script[w].pc = "ended"
    /\ Ended(w, TRUE) => ~( /\ file["receipt"] # None /\ NewInstalled(r)
                            /\ proc[w].pc = "running" => file["receipt"] = r)
    /\ Ended(w, FALSE) /\ proc[w].pc = "repairing" =>
           ~( /\ RolledBackCleanly(r)
              /\ file["receipt"] # None /\ OldInstalled(r))
    /\ script' = [script EXCEPT ![w] = NoScript]
    /\ Return(w)
    /\ UNCHANGED <<installation, records, txn, plan, journal, bounds>>

(* The trusted floor follows; failing to save it is only a warning.          *)
SaveFloor(w) ==
    /\ proc[w].pc = "installed"
    /\ \/ floor' = Candidate[proc[w].request] /\ UNCHANGED bounds
       \/ Fault /\ UNCHANGED floor
    /\ Goto(w, "closing")
    /\ UNCHANGED <<installation, request, consent, active, txn, plan, journal, mutex,
                   script>>

Close(w) ==
    /\ proc[w].pc = "closing"
    /\ active' = [active EXCEPT !.status = "committed"]
    /\ Return(w)
    /\ UNCHANGED <<installation, request, consent, floor, txn, plan, journal, script,
                   bounds>>

WorkerFails(w) ==
    /\ proc[w].pc \in {"locked", "apply", "cancel", "staging", "closing"}
    /\ Fault
    /\ Return(w)
    /\ UNCHANGED <<installation, records, txn, plan, journal, script>>

----------------------------------------------------------------------------
(* The installer script in PowerShell (Invoke-RaymanVerifiedUpdateWorker)    *)

Slot(w) == Roles[script[w].at]
Running(w, pc) == script[w].pc = pc
Step(w, pc) == script' = [script EXCEPT ![w].pc = pc]
StepTo(w, pc, at) == script' = [script EXCEPT ![w].pc = pc, ![w].at = at]

(* A script whose worker is gone ends without anybody reading its status.    *)
Exit(w, ok) ==
    script' = [script EXCEPT ![w] =
                 IF proc[w].pc \in {"running", "repairing"}
                 THEN [NoScript EXCEPT !.pc = "ended", !.ok = ok]
                 ELSE NoScript]

(* Write-RaymanUpdateJournal, into a transaction that is still there.        *)
Journal(r, record) == txn[r] /\ journal' = [journal EXCEPT ![r] = record]

(* Assert-RaymanUpdateJournalMatchesPlan: the phase, the committed flag, the *)
(* next role and the completed prefix agree.                                 *)
Consistent(j) ==
    /\ j.committed <=> j.phase = "committed"
    /\ CASE j.phase = "preparing"  -> j.next = 0 /\ j.done = 0
         [] j.phase = "publishing" -> j.next # 0 /\ j.next \in {j.done, j.done + 1}
         [] j.phase \in {"verifying", "committed"} -> j.next = 0 /\ j.done = Len(Roles)
         [] OTHER -> j.next = 0

AllNew(r) == /\ \A s \in Slots : file[s] = NewBytes(r, s)
             /\ Candidate[r] \in exe

Begin(w) ==
    LET r == script[w].request IN
    /\ Running(w, "start")
    /\ txn[r] /\ journal[r] = NoJournal
    /\ Journal(r, Record("preparing", 0, 0))
    /\ StepTo(w, "next", 1)
    /\ UNCHANGED <<installation, records, txn, plan, mutex, proc, bounds>>

BeginAgain(w) ==
    LET r == script[w].request IN
    /\ Running(w, "start")
    /\ journal[r] # NoJournal \/ ~txn[r]
    /\ IF ~txn[r] \/ ~Consistent(journal[r]) THEN Exit(w, FALSE)
       ELSE IF journal[r].phase = "committed" THEN Exit(w, AllNew(r))
       ELSE StepTo(w, "repair", Len(Roles))
    /\ UNCHANGED <<installation, records, txn, plan, journal, mutex, proc, bounds>>

(* The journal names each role before the role is published, and is written  *)
(* again after it.  A worker executable that is already there stays.         *)
AnnounceRole(w) ==
    LET r == script[w].request  i == script[w].at IN
    /\ Running(w, "next") /\ i <= Len(Roles)
    /\ Journal(r, Record("publishing", i, i - 1))
    /\ IF Roles[i] = "worker"
       THEN IF Candidate[r] \in exe THEN StepTo(w, "next", i + 1) ELSE Step(w, "publish")
       ELSE Step(w, "move")
    /\ UNCHANGED <<installation, records, txn, plan, mutex, proc, bounds>>

(* Install-FileWithRollback: the expected file is renamed to its backup, and *)
(* the prepared copy into the empty place; neither replaces anything.        *)
MoveAside(w) ==
    LET r == script[w].request IN
    /\ Running(w, "move")
    /\ file[Slot(w)] = OldBytes(r, Slot(w)) /\ backup[r][Slot(w)] = None
    /\ backup' = [backup EXCEPT ![r][Slot(w)] = file[Slot(w)]]
    /\ file' = [file EXCEPT ![Slot(w)] = None]
    /\ Step(w, "publish")
    /\ UNCHANGED <<exe, records, txn, plan, journal, mutex, proc, bounds>>

PublishRole(w) ==
    LET r == script[w].request IN
    /\ Running(w, "publish")
    /\ IF Slot(w) = "worker"
       THEN Candidate[r] \notin exe /\ exe' = exe \cup {Candidate[r]} /\ UNCHANGED file
       ELSE /\ file[Slot(w)] = None
            /\ file' = [file EXCEPT ![Slot(w)] = NewBytes(r, Slot(w))]
            /\ UNCHANGED exe
    /\ script' = [script EXCEPT ![w].pc = "done", ![w].mine = @ \cup {script[w].at}]
    /\ UNCHANGED <<backup, records, txn, plan, journal, mutex, proc, bounds>>

CompleteRole(w) ==
    LET r == script[w].request  i == script[w].at IN
    /\ Running(w, "done")
    /\ Journal(r, Record("publishing", i, i))
    /\ StepTo(w, "next", i + 1)
    /\ UNCHANGED <<installation, records, txn, plan, mutex, proc, bounds>>

AnnounceVerify(w) ==
    LET r == script[w].request IN
    /\ Running(w, "next") /\ script[w].at > Len(Roles)
    /\ Journal(r, Record("verifying", 0, Len(Roles)))
    /\ Step(w, "check")
    /\ UNCHANGED <<installation, records, txn, plan, mutex, proc, bounds>>

(* The hashes, then doctor in a scratch workspace.                           *)
CheckInstalled(w) ==
    /\ Running(w, "check")
    /\ AllNew(script[w].request)
    /\ Step(w, "commit")
    /\ UNCHANGED <<installation, records, txn, plan, journal, mutex, proc, bounds>>

CommitJournal(w) ==
    LET r == script[w].request IN
    /\ Running(w, "commit")
    /\ Journal(r, Record("committed", 0, Len(Roles)))
    /\ Step(w, "clean")
    /\ UNCHANGED <<installation, records, txn, plan, mutex, proc, bounds>>

(* Remove-CommittedBackup keeps the backup of a file that is not its own any *)
(* more; then result.json.                                                   *)
RemoveBackups(w) ==
    LET r == script[w].request IN
    /\ Running(w, "clean")
    /\ backup' = [backup EXCEPT ![r] =
                    [s \in Slots |-> IF file[s] = NewBytes(r, s) THEN None ELSE @[s]]]
    /\ Exit(w, txn[r])
    /\ UNCHANGED <<file, exe, records, txn, plan, journal, mutex, proc, bounds>>

(* Whatever throws while roles are published starts the rollback, from the   *)
(* role at hand: the environment, or a file that is not what it should be.   *)
(* The committed flag is set before the write of the commit, and stays set   *)
(* when that write throws.                                                   *)
Unexpected(w) ==
    LET r == script[w].request IN
    CASE Running(w, "move") -> \/ file[Slot(w)] # OldBytes(r, Slot(w))
                               \/ backup[r][Slot(w)] # None
      [] Running(w, "publish") -> IF Slot(w) = "worker" THEN Candidate[r] \in exe
                                  ELSE file[Slot(w)] # None
      [] Running(w, "check") -> ~AllNew(r)
      [] OTHER -> ~txn[r]

Throw(w) ==
    /\ script[w].pc \in {"next", "move", "publish", "done", "check", "commit"}
    /\ IF Unexpected(w) THEN UNCHANGED bounds ELSE Fault
    /\ script' = [script EXCEPT ![w].pc = "undo", ![w].flag = Running(w, "commit"),
                                ![w].at = IF @ > Len(Roles) THEN Len(Roles) ELSE @]
    /\ UNCHANGED <<installation, records, txn, plan, journal, mutex, proc>>

(* Invoke-InstallRollback, in reverse: what this run published is taken      *)
(* away, what it moved aside comes back.                                     *)
TakeAway(w) ==
    LET r == script[w].request IN
    /\ Running(w, "undo") /\ script[w].at \in script[w].mine
    /\ IF Slot(w) = "worker"
       THEN /\ exe' = exe \ {Candidate[r]}
            /\ StepTo(w, "undo", script[w].at - 1)
            /\ UNCHANGED file
       ELSE /\ file[Slot(w)] = NewBytes(r, Slot(w))
            /\ file' = [file EXCEPT ![Slot(w)] = None]
            /\ Step(w, "restore")
            /\ UNCHANGED exe
    /\ UNCHANGED <<backup, records, txn, plan, journal, mutex, proc, bounds>>

Untouched(w) ==
    /\ script[w].at \notin script[w].mine
    /\ Slot(w) # "worker" => backup[script[w].request][Slot(w)] = None

SkipUndo(w) ==
    /\ Running(w, "undo") /\ script[w].at > 0 /\ Untouched(w)
    /\ StepTo(w, "undo", script[w].at - 1)
    /\ UNCHANGED <<installation, records, txn, plan, journal, mutex, proc, bounds>>

PutBack(w) ==
    LET r == script[w].request IN
    /\ \/ Running(w, "restore")
       \/ /\ Running(w, "undo") /\ script[w].at > 0
          /\ script[w].at \notin script[w].mine /\ ~Untouched(w)
    /\ file[Slot(w)] = None /\ backup[r][Slot(w)] # None
    /\ file' = [file EXCEPT ![Slot(w)] = backup[r][Slot(w)]]
    /\ backup' = [backup EXCEPT ![r][Slot(w)] = None]
    /\ StepTo(w, "undo", script[w].at - 1)
    /\ UNCHANGED <<exe, records, txn, plan, journal, mutex, proc, bounds>>

(* A failed rollback of a file leaves it, and the others are still tried.    *)
(* The backup of a publication that is gone is still put back.               *)
Foreign(w) ==
    LET s == Slot(w) IN
    /\ s # "worker"
    /\ IF Running(w, "undo") /\ script[w].at \in script[w].mine
       THEN file[s] # NewBytes(script[w].request, s)
       ELSE file[s] # None \/ backup[script[w].request][s] = None

UndoFails(w) ==
    LET gone == Running(w, "undo") /\ Foreign(w) /\ file[Slot(w)] = None IN
    /\ script[w].pc \in {"undo", "restore"} /\ script[w].at > 0 /\ ~Untouched(w)
    /\ IF Foreign(w) THEN UNCHANGED bounds ELSE Fault
    /\ script' = [script EXCEPT ![w].pc = IF gone THEN "restore" ELSE "undo",
                                ![w].at = IF gone THEN @ ELSE @ - 1,
                                ![w].lost = @ \/ script[w].at \in script[w].mine]
    /\ UNCHANGED <<installation, records, txn, plan, journal, mutex, proc>>

RolledBack(w) ==
    LET r == script[w].request IN
    /\ Running(w, "undo") /\ script[w].at = 0
    /\ IF txn[r]
       THEN Journal(r, [phase |-> IF script[w].lost THEN "blocked" ELSE "rolled_back",
                        next |-> 0, done |-> journal[r].done, committed |-> script[w].flag])
       ELSE UNCHANGED journal
    /\ Exit(w, FALSE)
    /\ UNCHANGED <<installation, records, txn, plan, mutex, proc, bounds>>

(* Repair-RaymanUpdateJournal: an interrupted run is undone in reverse from  *)
(* the backups; a file that is neither generation's blocks it.  A worker     *)
(* executable stays: the old receipt cannot run it.                          *)
AlreadyOld(r, s) == s # "worker" => file[s] = OldBytes(r, s)
(* Mutant: an empty place counts as restored. *)
RepairableFull(r, s) == backup[r][s] = OldBytes(r, s) /\ file[s] = NewBytes(r, s)

Repairable(r, s) == /\ backup[r][s] = OldBytes(r, s)
                    /\ file[s] \in {None, NewBytes(r, s)}

SkipRepair(w) ==
    /\ Running(w, "repair") /\ script[w].at > 0
    /\ AlreadyOld(script[w].request, Slot(w))
    /\ StepTo(w, "repair", script[w].at - 1)
    /\ UNCHANGED <<installation, records, txn, plan, journal, mutex, proc, bounds>>

RepairRole(w) ==
    LET r == script[w].request IN
    /\ Running(w, "repair") /\ script[w].at > 0
    /\ ~AlreadyOld(r, Slot(w)) /\ Repairable(r, Slot(w))
    /\ file' = [file EXCEPT ![Slot(w)] = None]
    /\ Step(w, "refill")
    /\ UNCHANGED <<exe, backup, records, txn, plan, journal, mutex, proc, bounds>>

Refill(w) ==
    LET r == script[w].request IN
    /\ Running(w, "refill")
    /\ file[Slot(w)] = None
    /\ file' = [file EXCEPT ![Slot(w)] = OldBytes(r, Slot(w))]
    /\ StepTo(w, "repair", script[w].at - 1)
    /\ UNCHANGED <<exe, backup, records, txn, plan, journal, mutex, proc, bounds>>

RepairDone(w) ==
    LET r == script[w].request IN
    /\ Running(w, "repair") /\ script[w].at = 0 /\ txn[r]
    /\ Journal(r, Record("rolled_back", 0, journal[r].done))
    /\ Exit(w, FALSE)
    /\ UNCHANGED <<installation, records, txn, plan, mutex, proc, bounds>>

(* A refused or failed repair ends the script; a file it had moved may come  *)
(* back.                                                                     *)
RepairStops(w) ==
    LET s == Slot(w)  r == script[w].request IN
    /\ script[w].pc \in {"repair", "refill"}
    /\ IF \/ ~txn[r] /\ script[w].at = 0
          \/ Running(w, "repair") /\ script[w].at > 0
             /\ ~AlreadyOld(r, s) /\ ~Repairable(r, s)
          \/ Running(w, "refill") /\ file[s] # None
       THEN UNCHANGED <<file, bounds>>
       ELSE /\ Fault
            /\ \/ UNCHANGED file
               \/ Running(w, "refill") /\ file' = [file EXCEPT ![s] = NewBytes(r, s)]
    /\ Exit(w, FALSE)
    /\ UNCHANGED <<exe, backup, records, txn, plan, journal, mutex, proc>>

----------------------------------------------------------------------------
(* Deaths                                                                    *)

(* The mutex of a dead worker is abandoned.  Pipes are all that ties its      *)
(* script to it: the script ends too (the session does) or goes on alone.     *)
(* A worker that fails to wait for its script leaves it behind likewise.      *)
WorkerDies(w) ==
    /\ proc[w].pc # "idle"
    /\ Fault
    /\ Return(w)
    /\ \/ script' = [script EXCEPT ![w] = NoScript]
       \/ script[w].pc # "ended" /\ UNCHANGED script
    /\ UNCHANGED <<installation, records, txn, plan, journal>>

ScriptDies(w) ==
    /\ script[w].pc \notin {"off", "ended"}
    /\ Fault
    /\ Exit(w, FALSE)
    /\ UNCHANGED <<installation, records, txn, plan, journal, mutex, proc>>

----------------------------------------------------------------------------
WorkerSteps(w) ==
    \/ Lock(w) \/ LockRefused(w) \/ Intend(w) \/ IntendRefused(w)
    \/ FindStaged(w) \/ CancelStaged(w) \/ Stage(w) \/ RunPlan(w)
    \/ RunPlanFails(w) \/ RunRepair(w)
    \/ Installed(w) \/ Repaired(w) \/ ScriptFailed(w)
    \/ SaveFloor(w) \/ Close(w)
ScriptSteps(w) ==
    \/ Begin(w) \/ BeginAgain(w) \/ AnnounceRole(w) \/ MoveAside(w) \/ PublishRole(w)
    \/ CompleteRole(w) \/ AnnounceVerify(w) \/ CheckInstalled(w) \/ CommitJournal(w)
    \/ RemoveBackups(w) \/ Throw(w)
    \/ TakeAway(w) \/ SkipUndo(w) \/ PutBack(w) \/ UndoFails(w)
    \/ RolledBack(w)
    \/ SkipRepair(w) \/ RepairRole(w) \/ Refill(w) \/ RepairDone(w) \/ RepairStops(w)

Next ==
    \/ Configure
    \/ \E r \in Requests : PrepareRequest(r)
    \/ \E w \in Workers : \/ \E r \in Requests : Start(w, r)
                          \/ WorkerSteps(w) \/ WorkerFails(w) \/ ScriptSteps(w)
                          \/ WorkerDies(w) \/ ScriptDies(w)

Spec == Init /\ [][Next]_vars

(* update poll: the installed CLI names the recovery and its host runs it.   *)
Poll(w) == /\ active.status = "active" /\ file["cli"] # None
           /\ \E r \in Requests : Start(w, r)

(* Programs go on, and rayman is polled again and again.  A worker waits for *)
(* its script and is started when both are gone: one condition covers all.   *)
Fairness == \A w \in Workers : WF_vars(WorkerSteps(w) \/ ScriptSteps(w) \/ Poll(w))
FairSpec == Spec /\ Fairness

----------------------------------------------------------------------------
(* Properties                                                                *)

(* Outside an active update the installation is one whole generation: the    *)
(* skill, the CLI and the worker are the ones that the receipt states.  It   *)
(* takes the mutex to keep the script with it: once a worker has taken the   *)
(* mutex of a dead one whose script goes on, two of them move the files.     *)
SettledIsWhole == active.status # "active" /\ ~overlap => TupleMatches

(* active.json tells the truth when it is written: an update begins on a     *)
(* whole installation of an older version, and it ends either on the receipt *)
(* its request was prepared for or on its own, each with all of its files,   *)
(* as long as no worker worked beside the script of a dead one.              *)
ActiveRecordIsTrue ==
    [][ active' # active /\ ~overlap =>
            /\ TupleMatches
            /\ LET r == active'.request IN
               CASE active'.status = "active" -> Candidate[r] > VersionOf(file["receipt"])
                 [] active'.status = "recovered_old" -> file["receipt"] = request[r]
                 [] active'.status = "committed" -> file["receipt"] = r ]_vars

(* An interrupted update is finished or rolled back, however often worker    *)
(* and script died, unless a death left the CLI, which is what is polled, or *)
(* the receipt, which the recovery reads first, renamed away; unless the     *)
(* write of the commit threw, so that the journal says rolled back and       *)
(* committed and every recovery refuses it; or unless a worker went on       *)
(* beside the script of a dead one.                                          *)
Nobody == \A w \in Workers : proc[w].pc = "idle" /\ script[w].pc = "off"
Stranded == Nobody /\ None \in {file["cli"], file["receipt"]}
Contradicted(r) == journal[r].committed /\ journal[r].phase # "committed"

InterruptedUpdateResolves ==
    active.status = "active" ~>
        \/ active.status # "active"
        \/ Stranded \/ Contradicted(active.request) \/ overlap
=============================================================================
