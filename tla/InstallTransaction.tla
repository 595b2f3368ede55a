------------------------- MODULE InstallTransaction -------------------------
(* Installations through the global worker                                  *)
(* (crates/codex-global-execution/src/global_execution/install.rs, worker.rs *)
(* and install-worker.ps1 with scripts/install-rayman.ps1).  A bundle is     *)
(* staged, marked as the active installation, admitted to the ledger, and    *)
(* published file by file by a journaled PowerShell kernel in a child        *)
(* process; then the ledger is settled, the marker cleared and the result    *)
(* written.  The worker and its child may die anywhere, the child alone may  *)
(* be killed by its time limit, and other programs write the same files.     *)
(*                                                                          *)
(* Bytes are named by where they come from: "old", the installation that     *)
(* brings them, or "other".  Every installation has a worktree of its own;   *)
(* the marker, the files and the worker are shared.                          *)
EXTENDS Naturals, FiniteSetsExt

CONSTANTS
    Installs,    \* install requests
    N,           \* files of a bundle, published in the order of their roles
    Fresh,       \* files that do not exist at first
    None,
    MaxFaults,   \* bound: deaths of the worker or its child, and I/O errors
    MaxMeddles   \* bound: files written by other programs

Files == 1..N

ASSUME ConstantsAssumption ==
    /\ N \in Nat \ {0} /\ Fresh \subseteq Files
    /\ MaxFaults \in Nat /\ MaxMeddles \in Nat
    /\ None \notin Installs
    /\ Installs \cap {"absent", "old", "other"} = {}

VARIABLES
    \* the protected root
    packet,     \* requests/<id>.request.json is queued
    result,     \* result-<id>.json, written once
    staged,     \* the install-payload files exist
    plan,       \* install-plan-<id>.json exists
    marker,     \* install-active.json: the active installation, or None
    intent,     \* the ledger of the installation's worktree, with its journal
    journal,    \* install-journal-<id>.json: [phase, done]
    \* the destination directories
    dest,       \* each destination file
    backup,     \* backup[i][f]: <file>.backup-<id>
    \* the worker process and its child
    checked,    \* recovery_checked: this process made its recovery attempt
    run,        \* the request in process() and the step it is at
    \* history and bounds
    expects,    \* the files each bundle was packaged against, or None
    touched,    \* files another program wrote
    faults

queue == <<packet, result>>
store == <<staged, plan, marker, intent>>
files == <<dest, backup>>
world == <<expects, touched, faults>>
vars  == <<queue, store, journal, files, checked, run, world>>

Contents == {"absent", "old", "other"} \cup Installs

ASSUME NoneAssumption == None \notin [Files -> Contents]

(* The ledger entry.  While the ledger's own journal is on disk and the     *)
(* ledger is not, the entry is on its way.                                  *)
Intents == {"none", "admitting", "open", "succeeding", "failing", "succeeded", "failed"}

(* recorded_result reads the ledger and not its journal.                    *)
Visible(i) ==
    CASE intent[i] = "admitting"               -> "none"
      [] intent[i] \in {"succeeding", "failing"} -> "open"
      [] OTHER                                 -> intent[i]

(* recover_locked, run by accept and record_effect_result.                  *)
Recovered(i) ==
    CASE intent[i] = "admitting"  -> "open"
      [] intent[i] = "succeeding" -> "succeeded"
      [] intent[i] = "failing"    -> "failed"
      [] OTHER                    -> intent[i]

KernelSteps == {"kernel", "frontier", "vacate", "publish", "complete", "verify",
                "rollback", "repair"}

Steps == KernelSteps \cup {"idle", "lookup", "stage", "plan", "mark", "admit", "admitting",
                           "settle", "settling", "clear", "reply"}

Idle == [at |-> "idle", of |-> None, recovery |-> FALSE, retried |-> FALSE,
         startup |-> FALSE, next |-> 0, placed |-> {}, verdict |-> "none"]

Init ==
    /\ packet = [i \in Installs |-> FALSE]
    /\ result = [i \in Installs |-> "none"]
    /\ staged = [i \in Installs |-> FALSE]
    /\ plan = [i \in Installs |-> FALSE]
    /\ marker = None
    /\ intent = [i \in Installs |-> "none"]
    /\ journal = [i \in Installs |-> [phase |-> "none", done |-> 0]]
    /\ dest = [f \in Files |-> IF f \in Fresh THEN "absent" ELSE "old"]
    /\ backup = [i \in Installs |-> [f \in Files |-> "absent"]]
    /\ checked = FALSE
    /\ run = Idle
    /\ expects = [i \in Installs |-> None]
    /\ touched = {} /\ faults = 0

----------------------------------------------------------------------------
me == run.of
file == run.next

Go(step) == run' = [run EXCEPT !.at = step]

(* What a run was doing is forgotten when it is over.                       *)
Leave(step, verdict) ==
    run' = [Idle EXCEPT !.at = step, !.of = me, !.startup = run.startup, !.verdict = verdict]

Reply(verdict) == Leave("reply", verdict)

(* A bundle is packaged against the files as they are and queued.           *)
Submit(i) ==
    /\ expects[i] = None
    /\ expects' = [expects EXCEPT ![i] = dest]
    /\ packet' = [packet EXCEPT ![i] = TRUE]
    /\ UNCHANGED <<result, store, journal, files, checked, run, touched, faults>>

(* The first cycle of a worker process makes the one recovery attempt.      *)
Startup ==
    /\ run.at = "idle" /\ ~checked
    /\ checked' = TRUE
    /\ IF marker = None
       THEN UNCHANGED <<marker, run>>
       ELSE IF Visible(marker) = "none"
            THEN /\ marker' = IF journal[marker].phase = "none" THEN None ELSE marker
                 /\ UNCHANGED run
            ELSE /\ run' = [Idle EXCEPT !.at = "lookup", !.of = marker, !.startup = TRUE]
                 /\ UNCHANGED marker
    /\ UNCHANGED <<queue, staged, plan, intent, journal, files, world>>

(* A cycle takes a queued request that has no result yet ...                *)
Take(i) ==
    /\ run.at = "idle" /\ checked
    /\ packet[i] /\ result[i] = "none"
    /\ run' = [Idle EXCEPT !.at = "lookup", !.of = i]
    /\ UNCHANGED <<queue, store, journal, files, checked, world>>

(* ... and removes one that has.                                            *)
Consume(i) ==
    /\ run.at = "idle" /\ checked
    /\ packet[i] /\ result[i] # "none"
    /\ packet' = [packet EXCEPT ![i] = FALSE]
    /\ UNCHANGED <<result, store, journal, files, checked, run, world>>

(* process: a terminal result is replayed, an open intent is recovered - no *)
(* payload is staged again - and an unknown request is prepared.            *)
ReplayTerminal ==
    /\ run.at = "lookup" /\ Visible(me) \in {"succeeded", "failed"}
    /\ marker' = IF marker = me THEN None ELSE marker
    /\ Reply(Visible(me))
    /\ UNCHANGED <<queue, staged, plan, intent, journal, files, checked, world>>

NoOtherActive == marker \in {None, me}

RecoverOpen ==
    /\ run.at = "lookup" /\ Visible(me) = "open"
    /\ NoOtherActive /\ plan[me] /\ staged[me]
    /\ intent' = [intent EXCEPT ![me] = Recovered(me)]
    /\ run' = [run EXCEPT !.at = "kernel", !.recovery = TRUE]
    /\ UNCHANGED <<queue, staged, plan, marker, journal, files, checked, world>>

(* prepare: the destinations must be those of the bundle, and nothing of an *)
(* earlier preparation may lie there.                                       *)
CanStage == NoOtherActive /\ ~plan[me] /\ ~staged[me] /\ dest = expects[me]

Prepare ==
    /\ run.at = "lookup" /\ Visible(me) = "none" /\ CanStage
    /\ staged' = [staged EXCEPT ![me] = TRUE]
    /\ Go("plan")
    /\ UNCHANGED <<queue, plan, marker, intent, journal, files, checked, world>>

WritePlan ==
    /\ run.at = "plan"
    /\ plan' = [plan EXCEPT ![me] = TRUE]
    /\ Go("mark")
    /\ UNCHANGED <<queue, staged, marker, intent, journal, files, checked, world>>

(* Fault: the installation is admitted before it is marked.                 *)
WriteNoMarker ==
    /\ run.at = "mark"
    /\ Go("admit")
    /\ UNCHANGED <<queue, store, journal, files, checked, world>>

WriteMarker ==
    /\ run.at = "mark"
    /\ marker' = me
    /\ Go("admit")
    /\ UNCHANGED <<queue, staged, plan, intent, journal, files, checked, world>>

(* The source changed while it was staged: the marker is withdrawn.         *)
CancelStaged ==
    /\ run.at = "admit"
    /\ journal[me].phase = "none"
    /\ marker' = None
    /\ Reply("error")
    /\ UNCHANGED <<queue, staged, plan, intent, journal, files, checked, world>>

(* storage.accept: the intent is journaled, then in the ledger.             *)
Admit ==
    /\ run.at = "admit"
    /\ intent' = [intent EXCEPT ![me] = "admitting"]
    /\ Go("admitting")
    /\ UNCHANGED <<queue, staged, plan, marker, journal, files, checked, world>>

Admitted ==
    /\ run.at = "admitting"
    /\ intent' = [intent EXCEPT ![me] = Recovered(me)]
    /\ Go("kernel")
    /\ UNCHANGED <<queue, staged, plan, marker, journal, files, checked, world>>

----------------------------------------------------------------------------
(* The kernel: install-worker.ps1 in a child process.                       *)
Recovering == run.recovery \/ run.retried

Record(phase, done) == journal' = [journal EXCEPT ![me] = [phase |-> phase, done |-> done]]

AllNew == \A g \in Files : dest[g] = me

(* execute returned a status; anything but a publication is a failure.     *)
Report(status) ==
    Leave("settle", IF status = "files_published" THEN "succeeded" ELSE "failed")

(* Fault: a failed recovery is repeated until it succeeds.                  *)
KernelRetries ==
    run' = [run EXCEPT !.at = "kernel", !.retried = TRUE, !.next = 0, !.placed = {},
                       !.verdict = "none"]

(* execute failed: the first time the worker runs the kernel once more to   *)
(* recover, the second time the request fails.                              *)
KernelFailed ==
    IF run.retried
    THEN Reply("error")
    ELSE run' = [run EXCEPT !.at = "kernel", !.retried = TRUE, !.next = 0, !.placed = {},
                            !.verdict = "none"]

KernelStart ==
    /\ run.at = "kernel" /\ journal[me].phase = "none" /\ ~Recovering
    /\ Record("preparing", 0)
    /\ run' = [run EXCEPT !.at = "frontier", !.next = 1]
    /\ UNCHANGED <<queue, store, files, checked, world>>

KernelNotStarted ==
    /\ run.at = "kernel" /\ journal[me].phase = "none" /\ Recovering
    /\ Report("not_started")
    /\ UNCHANGED <<queue, store, journal, files, checked, world>>

(* Fault: a journal is taken for a committed one.                           *)
KernelRecommitAny ==
    /\ run.at = "kernel" /\ journal[me].phase # "none"
    /\ Report("files_published")
    /\ UNCHANGED <<queue, store, journal, files, checked, world>>

(* Repair-RaymanUpdateJournal of a committed journal, and of any other.     *)
KernelRecommit ==
    /\ run.at = "kernel" /\ journal[me].phase = "committed"
    /\ IF AllNew THEN Report("files_published") ELSE KernelFailed
    /\ UNCHANGED <<queue, store, journal, files, checked, world>>

KernelRepair ==
    /\ run.at = "kernel" /\ journal[me].phase \notin {"none", "committed"}
    /\ run' = [run EXCEPT !.at = "repair", !.next = N]
    /\ UNCHANGED <<queue, store, journal, files, checked, world>>

Frontier ==
    /\ run.at = "frontier"
    /\ Record("publishing", file - 1)
    /\ Go("vacate")
    /\ UNCHANGED <<queue, store, files, checked, world>>

(* Fault: whatever lies at the destination is moved away.                   *)
CanVacateAnything == backup[me][file] = "absent"

(* Install-FileWithRollback: the reviewed file is renamed to the backup ... *)
CanVacate == dest[file] = expects[me][file] /\ backup[me][file] = "absent"

(* Fault: the reviewed file is deleted instead of renamed.                  *)
VacateByDeleting ==
    /\ run.at = "vacate" /\ CanVacate
    /\ dest' = [dest EXCEPT ![file] = "absent"]
    /\ Go("publish")
    /\ UNCHANGED <<queue, store, journal, backup, checked, world>>

Vacate ==
    /\ run.at = "vacate" /\ CanVacate
    /\ backup' = [backup EXCEPT ![me][file] = dest[file]]
    /\ dest' = [dest EXCEPT ![file] = "absent"]
    /\ Go("publish")
    /\ UNCHANGED <<queue, store, journal, checked, world>>

(* ... and the staged copy is renamed onto the free name.                   *)
Publish ==
    /\ run.at = "publish" /\ dest[file] = "absent"
    /\ dest' = [dest EXCEPT ![file] = me]
    /\ run' = [run EXCEPT !.at = "complete", !.placed = @ \cup {file}]
    /\ UNCHANGED <<queue, store, journal, backup, checked, world>>

Complete ==
    /\ run.at = "complete"
    /\ Record("publishing", file)
    /\ run' = [run EXCEPT !.at = IF file = N THEN "verify" ELSE "frontier", !.next = @ + 1]
    /\ UNCHANGED <<queue, store, files, checked, world>>

Commit ==
    /\ run.at = "verify" /\ AllNew
    /\ Record("committed", N)
    /\ Report("files_published")
    /\ UNCHANGED <<queue, store, files, checked, world>>

(* What makes a publication step throw by itself.                           *)
Refused ==
    \/ run.at = "vacate" /\ ~CanVacate
    \/ run.at = "publish" /\ dest[file] # "absent"
    \/ run.at = "verify" /\ ~AllNew

(* catch: a file that was moved away and not replaced is put back unless    *)
(* its name is taken, then the published ones are rolled back.              *)
Catch ==
    /\ IF run.at = "publish" /\ dest[file] = "absent"
       THEN /\ dest' = [dest EXCEPT ![file] = backup[me][file]]
            /\ backup' = [backup EXCEPT ![me][file] = "absent"]
       ELSE UNCHANGED files
    /\ Go("rollback")
    /\ UNCHANGED <<queue, store, journal, checked>>

Throw == Refused /\ Catch /\ UNCHANGED world

Latest == Max(run.placed)

(* Invoke-InstallRollback, the last published file first: the publication   *)
(* is deleted if it is still this one, then the backup renamed back.        *)
Unpublish ==
    /\ run.at = "rollback" /\ run.placed # {} /\ dest[Latest] = me
    /\ dest' = [dest EXCEPT ![Latest] = "absent"]
    /\ UNCHANGED <<queue, store, journal, backup, checked, run, world>>

PutBack ==
    /\ run.at = "rollback" /\ run.placed # {} /\ dest[Latest] = "absent"
    /\ dest' = [dest EXCEPT ![Latest] = backup[me][Latest]]
    /\ backup' = [backup EXCEPT ![me][Latest] = "absent"]
    /\ run' = [run EXCEPT !.placed = @ \ {Latest}]
    /\ UNCHANGED <<queue, store, journal, checked, world>>

LeaveForeign ==
    /\ run.at = "rollback" /\ run.placed # {} /\ dest[Latest] \notin {me, "absent"}
    /\ run' = [run EXCEPT !.placed = @ \ {Latest}, !.verdict = "blocked"]
    /\ UNCHANGED <<queue, store, journal, files, checked, world>>

RolledBack ==
    /\ run.at = "rollback" /\ run.placed = {}
    /\ Record(IF run.verdict = "blocked" THEN "blocked" ELSE "rolled_back", journal[me].done)
    /\ KernelFailed
    /\ UNCHANGED <<queue, store, files, checked, world>>

(* Repair-RaymanUpdateJournal, the last file first: a file that was absent  *)
(* stays as it is, the reviewed one is kept, and the backup is installed    *)
(* over this publication or over nothing.                                   *)
KeepRepaired ==
    /\ run.at = "repair" /\ file > 0
    /\ \/ expects[me][file] = "absent" /\ dest[file] \in {"absent", me}
       \/ expects[me][file] # "absent" /\ dest[file] = expects[me][file]
    /\ run' = [run EXCEPT !.next = @ - 1]
    /\ UNCHANGED <<queue, store, journal, files, checked, world>>

CanRestore ==
    /\ expects[me][file] # "absent" /\ dest[file] \in {"absent", me}
    /\ backup[me][file] = expects[me][file]

Displace ==
    /\ run.at = "repair" /\ file > 0 /\ CanRestore /\ dest[file] = me
    /\ dest' = [dest EXCEPT ![file] = "absent"]
    /\ UNCHANGED <<queue, store, journal, backup, checked, run, world>>

Restore ==
    /\ run.at = "repair" /\ file > 0 /\ CanRestore /\ dest[file] = "absent"
    /\ dest' = [dest EXCEPT ![file] = backup[me][file]]
    /\ run' = [run EXCEPT !.next = @ - 1]
    /\ UNCHANGED <<queue, store, journal, backup, checked, world>>

RepairRefused ==
    /\ run.at = "repair" /\ file > 0
    /\ dest[file] # expects[me][file] /\ ~CanRestore
    /\ ~(expects[me][file] = "absent" /\ dest[file] = me)
    /\ KernelFailed
    /\ UNCHANGED <<queue, store, journal, files, checked, world>>

(* Fault: a rollback that left a new file behind is reported as complete.   *)
RepairedAnyway ==
    /\ run.at = "repair" /\ file = 0
    /\ Record("rolled_back", journal[me].done)
    /\ Report("rolled_back")
    /\ UNCHANGED <<queue, store, files, checked, world>>

(* run() does not report a rollback while a file that was absent at first   *)
(* is there: who created it is unknown, so it stays for the owner.          *)
Repaired ==
    /\ run.at = "repair" /\ file = 0
    /\ Record("rolled_back", journal[me].done)
    /\ IF \A g \in Files : expects[me][g] = "absent" => dest[g] = "absent"
       THEN Report("rolled_back")
       ELSE KernelFailed
    /\ UNCHANGED <<queue, store, files, checked, world>>

----------------------------------------------------------------------------
(* Fault: the outcome is reported without being recorded.                   *)
SettleNothing ==
    /\ run.at = "settle"
    /\ Go("clear")
    /\ UNCHANGED <<queue, store, journal, files, checked, world>>

(* record_effect_result: an open intent is settled, the same outcome is     *)
(* accepted again, another one is refused.                                  *)
Settle ==
    /\ run.at = "settle"
    /\ LET current == Recovered(me)
       IN \/ /\ current = "open"
             /\ intent' = [intent EXCEPT ![me] =
                              IF run.verdict = "succeeded" THEN "succeeding" ELSE "failing"]
             /\ Go("settling")
          \/ /\ current = run.verdict
             /\ intent' = [intent EXCEPT ![me] = current]
             /\ Go("clear")
          \/ /\ current \notin {"open", run.verdict}
             /\ Reply("error")
             /\ UNCHANGED intent
    /\ UNCHANGED <<queue, staged, plan, marker, journal, files, checked, world>>

Settled ==
    /\ run.at = "settling"
    /\ intent' = [intent EXCEPT ![me] = Recovered(me)]
    /\ Go("clear")
    /\ UNCHANGED <<queue, staged, plan, marker, journal, files, checked, world>>

ClearMarker ==
    /\ run.at = "clear" /\ NoOtherActive
    /\ marker' = None
    /\ Go("reply")
    /\ UNCHANGED <<queue, staged, plan, intent, journal, files, checked, world>>

(* The result is written once; the recovery at startup has none to write.   *)
WriteResult ==
    /\ run.at = "reply"
    /\ result' = IF run.startup THEN result ELSE [result EXCEPT ![me] = run.verdict]
    /\ run' = Idle
    /\ UNCHANGED <<packet, store, journal, files, checked, world>>

(* A check of process() fails.  What was staged before it stays.            *)
Refuse ==
    /\ \/ run.at = "lookup" /\ Visible(me) = "none" /\ ~CanStage
       \/ run.at = "lookup" /\ Visible(me) = "open" /\ ~(NoOtherActive /\ plan[me] /\ staged[me])
       \/ run.at = "clear" /\ ~NoOtherActive
    /\ \/ UNCHANGED staged
       \/ run.at = "lookup" /\ NoOtherActive /\ ~plan[me]
          /\ staged' = [staged EXCEPT ![me] = TRUE]
    /\ Reply("error")
    /\ UNCHANGED <<queue, plan, marker, intent, journal, files, checked, world>>

Worker ==
    \/ Startup \/ (\E i \in Installs : Take(i) \/ Consume(i))
    \/ ReplayTerminal \/ RecoverOpen \/ Prepare \/ WritePlan \/ WriteMarker
    \/ Admit \/ Admitted
    \/ KernelStart \/ KernelNotStarted \/ KernelRecommit \/ KernelRepair
    \/ Frontier \/ Vacate \/ Publish \/ Complete \/ Commit \/ Throw
    \/ Unpublish \/ PutBack \/ LeaveForeign \/ RolledBack
    \/ KeepRepaired \/ Displace \/ Restore \/ RepairRefused \/ Repaired
    \/ Settle \/ Settled \/ ClearMarker \/ WriteResult \/ Refuse

----------------------------------------------------------------------------
Fault ==
    /\ faults < MaxFaults /\ faults' = faults + 1
    /\ UNCHANGED <<expects, touched>>

(* The worker dies, and with it the job of its child.  Without a request in *)
(* hand and without a marker the next process is just like this one.        *)
Crash ==
    /\ run.at # "idle" \/ marker # None
    /\ Fault
    /\ run' = Idle /\ checked' = FALSE
    /\ UNCHANGED <<queue, store, journal, files>>

(* An I/O error, a request past its validity or a full ledger.              *)
Fail ==
    /\ Fault
    /\ run.at \in Steps \ (KernelSteps \cup {"idle", "reply"})
    /\ Reply("error")
    /\ UNCHANGED <<queue, store, journal, files, checked>>

(* A step of the publication throws, or the child exceeds its time.         *)
KernelThrows ==
    /\ Fault
    /\ run.at \in {"frontier", "vacate", "publish", "complete", "verify"}
    /\ Catch

KernelKilled ==
    /\ Fault
    /\ run.at \in KernelSteps
    /\ KernelFailed
    /\ UNCHANGED <<queue, store, journal, files, checked>>

(* Another request of the same worktree is accepted.                        *)
AcceptAnother(i) ==
    /\ run.at = "idle" /\ checked
    /\ intent[i] # Recovered(i)
    /\ intent' = [intent EXCEPT ![i] = Recovered(i)]
    /\ UNCHANGED <<queue, staged, plan, marker, journal, files, checked, run, world>>

WriteForeign(g) ==
    /\ Cardinality(touched) < MaxMeddles /\ g \notin touched
    /\ dest' = [dest EXCEPT ![g] = "other"]
    /\ touched' = touched \cup {g}
    /\ UNCHANGED <<queue, store, journal, backup, checked, run, expects, faults>>

Next ==
    \/ Worker \/ CancelStaged \/ Crash \/ Fail \/ KernelThrows \/ KernelKilled
    \/ \E i \in Installs : Submit(i) \/ AcceptAnother(i)
    \/ \E g \in Files : WriteForeign(g)

Spec == Init /\ [][Next]_vars

(* serve() restarts cycles for ever, and the service manager the worker.    *)
FairSpec == Spec /\ WF_vars(Worker)

----------------------------------------------------------------------------
Phases == {"none", "preparing", "publishing", "committed", "rolled_back", "blocked"}

TypeOK ==
    /\ packet \in [Installs -> BOOLEAN]
    /\ result \in [Installs -> {"none", "error", "succeeded", "failed"}]
    /\ staged \in [Installs -> BOOLEAN] /\ plan \in [Installs -> BOOLEAN]
    /\ marker \in Installs \cup {None}
    /\ intent \in [Installs -> Intents]
    /\ journal \in [Installs -> [phase : Phases, done : 0..N]]
    /\ dest \in [Files -> Contents]
    /\ backup \in [Installs -> [Files -> Contents]]
    /\ checked \in BOOLEAN
    /\ run.at \in Steps /\ (run.at # "idle" => run.of \in Installs)
    /\ run.next \in 0..N + 1 /\ run.placed \subseteq Files
    /\ expects \in [Installs -> [Files -> Contents] \cup {None}]
    /\ touched \subseteq Files /\ faults \in 0..MaxFaults

Finished == {"none", "committed", "rolled_back"}

(* A bundle is published as a whole or not at all: whenever no installation *)
(* is marked active, the files nobody else wrote are all of one generation  *)
(* - the first one, or all of one bundle - through any crash, kill or       *)
(* rollback.                                                                *)
NoMixedGeneration ==
    marker = None =>
        \/ \A g \in Files \ touched : dest[g] = IF g \in Fresh THEN "absent" ELSE "old"
        \/ \E i \in Installs : \A g \in Files \ touched : dest[g] = i

(* A publication that stopped half-way keeps its marker, so that startup    *)
(* finds it and no second installation starts over it.                      *)
HalfInstallIsMarked ==
    \A i \in Installs : journal[i].phase \notin Finished => marker = i

(* While an installation can still be rolled back, the bytes it found are   *)
(* at their place or in its backup, unless another program replaced them.   *)
OldBytesAreKept ==
    marker # None /\ journal[marker].phase # "committed" =>
        \A g \in Files \ touched :
            expects[marker][g] = "absent" \/ expects[marker][g] \in {dest[g], backup[marker][g]}

(* What the ledger settles is what happened to the files: success only of a *)
(* committed journal, failure only when no file of the bundle is left.      *)
SettledAsDone ==
    \A i \in Installs :
        /\ intent[i] \in {"succeeding", "succeeded"} => journal[i].phase = "committed"
        /\ intent[i] \in {"failing", "failed"} =>
              journal[i].phase # "committed" /\ \A g \in Files : dest[g] # i

(* A result other than an error repeats the ledger, also when it was        *)
(* written by a later process than the one that settled.                    *)
ResultsRepeatLedger ==
    \A i \in Installs :
        result[i] \in {"succeeded", "failed"} => Recovered(i) = result[i]

(* Neither the publication nor any recovery ever moves, replaces or deletes *)
(* bytes that are neither the bundle's own nor the ones it was packaged     *)
(* against: a file another program put there meanwhile stays.               *)
ForeignFilesSurvive ==
    [][\A g \in Files : dest'[g] # dest[g] /\ touched' = touched =>
          dest[g] \in {"absent", run.of, expects[run.of][g]}]_vars

(* Recovery completes a journaled admission, then handles its effect: an    *)
(* installation the ledger holds as open is the active one, which startup   *)
(* recovers, or is still queued without a result.                           *)
OpenInstallIsRecovered ==
    \A i \in Installs :
        intent[i] = "open" => marker = i \/ (packet[i] /\ result[i] = "none")

(* Every queued installation is answered.                                   *)
EveryInstallAnswered ==
    \A i \in Installs : packet[i] ~> result[i] # "none"
=============================================================================
