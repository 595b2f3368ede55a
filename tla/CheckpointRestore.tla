------------------------- MODULE CheckpointRestore -------------------------
(* Snapshots of a workspace and their restoration                           *)
(* (crates/rayman/src/checkpoint.rs, checkpoint/restore.rs).  A restore      *)
(* publishes file after file; its journal in the checkpoint store says how  *)
(* far it came, and whoever saves or restores next in that store undoes      *)
(* what a dead restore left.  Meanwhile users edit files, and rayman writes  *)
(* its own state files under their locks.  A store has a lock of its own;   *)
(* several stores may serve one workspace (--dir).                          *)
(*                                                                          *)
(* A file is known by its content; every edit has a new one.  Files are      *)
(* numbered in the order of their paths.  Copying into staged/ touches       *)
(* nothing outside the transaction and is left out: its failure is Fail.    *)
EXTENDS Naturals, FiniteSets, Sequences

CONSTANTS
    Stores,      \* the checkpoint stores of this workspace
    Count,       \* the files of the snapshot, 1 .. Count
    Managed,     \* files written under a state lock (pending.json, goals/*)
    New,         \* files the workspace does not have at first
    Nested,      \* the files of one ordinary directory, which is then missing too
    Goals,       \* the state files of goals/, which is then missing too
    MaxEdits,    \* bound: writes of others
    MaxErrors,   \* bound: deaths and I/O errors
    MaxSnapshots \* bound: snapshots kept per store

Files == 1 .. Count
Nobody == "nobody"
Writer == "writer"

ASSUME WorkspaceAssumption ==
    /\ Count \in Nat /\ Managed \subseteq Files /\ New \subseteq Files
    /\ Nested \subseteq New \ Managed /\ Goals \subseteq New \cap Managed
    /\ Nobody \notin Stores /\ Writer \notin Stores
    /\ MaxEdits \in Nat /\ MaxErrors \in Nat /\ MaxSnapshots \in Nat \ {0}

Absent == 0
FirstContent == 1
Saved == 2                       \* the content in the snapshot
Contents == 0 .. 2 + MaxEdits

VARIABLES
    file,      \* the workspace's files
    dir,       \* the directory of the nested files: "absent", "own" or "shared" with a file
               \* of somebody else
    goals,     \* goals/: "absent" or "made"; it holds the locks of its files, which stay
    lock,      \* per managed file: who holds its state lock
    autosave,  \* who holds the autosave lock
    disk,      \* per store: its restore transaction
    snaps,     \* per store: its snapshots, oldest first
    call,      \* per store: the operation that holds the store's lock
    \* history and bounds
    past,      \* per store: the workspace when the last restore began, what was
               \* edited since, and how the restore ended
    edits, errors

restoreVars == <<file, dir, goals, lock, autosave, disk, snaps, call, past, edits, errors>>

Steps == {"planned", "prepared", "attempted", "undone"}
Transactions ==
    [kind : {"none",       \* no directory
             "bare",       \* neither a journal nor a backup
             "journaled",
             "torn",       \* a journal, but staged/ or backups/ are gone
             "wreck"},     \* backups without a journal
     phase : {"preparing", "publishing", "rolling_back", "committed"},
     made : {"no", "planned", "created"},
     step : [Files -> Steps],
     original : [Files -> Contents]]   \* with a verified copy in backups/

NoTransaction == [kind |-> "none", phase |-> "preparing", made |-> "no",
                  step |-> [f \in Files |-> "planned"],
                  original |-> [f \in Files |-> Absent]]

Operations == {"restore", "save", "salvage", "rotate"}
Places == {"idle", "recover", "create", "journal", "lock", "prepare", "made", "check",
           "publish", "replace", "verify", "commit", "rollback", "undo", "record",
           "undo_dir", "remove", "capture", "prune"}
Calls == [at : Places, op : Operations, own : BOOLEAN, target : Files \cup {0},
          refused : SUBSET (Files \cup {0})]      \* 0 stands for the directory
NoCall == [at |-> "idle", op |-> "save", own |-> FALSE, target |-> 0, refused |-> {}]

Snapshots == [status : {"complete", "partial", "corrupt"},
              purpose : {"standard", "recovery_only"}, half : BOOLEAN]

RestoreTypeOK ==
    /\ file \in [Files -> Contents]
    /\ dir \in {"absent", "own", "shared"} /\ goals \in {"absent", "made"}
    /\ lock \in [Managed -> Stores \cup {Nobody, Writer}]
    /\ autosave \in Stores \cup {Nobody}
    /\ disk \in [Stores -> Transactions]
    /\ snaps \in [Stores -> Seq(Snapshots)]
    /\ \A s \in Stores : Len(snaps[s]) <= MaxSnapshots + 1
    /\ call \in [Stores -> Calls]
    /\ past \in [Stores -> [file : [Files -> Contents], dir : {"absent", "own", "shared"},
                            edited : SUBSET (Files \cup {0}),
                            result : {"none", "restored", "rolled_back"}]]
    /\ edits \in 0 .. MaxEdits /\ errors \in 0 .. MaxErrors

RestoreInit ==
    /\ file = [f \in Files |-> IF f \in New THEN Absent ELSE FirstContent]
    /\ dir = "absent" /\ goals = IF Goals = {} THEN "made" ELSE "absent"
    /\ lock = [f \in Managed |-> Nobody] /\ autosave = Nobody
    /\ disk = [s \in Stores |-> NoTransaction]
    /\ snaps = [s \in Stores |->
                  <<[status |-> "complete", purpose |-> "standard", half |-> FALSE]>>]
    /\ call = [s \in Stores |-> NoCall]
    /\ past = [s \in Stores |-> [file |-> file, dir |-> dir, edited |-> {}, result |-> "none"]]
    /\ edits = 0 /\ errors = 0

----------------------------------------------------------------------------
(* Helpers                                                                  *)

InStep(s, steps) == {f \in Files : disk[s].step[f] \in steps}
First(S) == CHOOSE f \in S : \A g \in S : f <= g
Last(S)  == CHOOSE f \in S : \A g \in S : g <= f

Reached(s, place) == call[s].at = place
Goto(s, place) == call' = [call EXCEPT ![s].at = place]

(* Journal a change of the transaction (persist_restore_journal).           *)
Journal(s, txn) == disk' = [disk EXCEPT ![s] = txn]

(* The locks of an operation end with it.                                   *)
Release(s) ==
    /\ lock' = [f \in Managed |-> IF lock[f] = s THEN Nobody ELSE lock[f]]
    /\ autosave' = IF autosave = s THEN Nobody ELSE autosave
End(s) == call' = [call EXCEPT ![s] = NoCall] /\ Release(s)

Outcome(s, result) == past' = [past EXCEPT ![s].result = result]

(* A restore that stopped between its first publication and its end, or      *)
(* could not be undone entirely.                                             *)
HalfRestored(s) == /\ disk[s].kind = "journaled"
                   /\ disk[s].phase # "committed"
                   /\ InStep(s, {"attempted"}) # {}

Complete(snap) == snap.status = "complete"
Standard(snap) == Complete(snap) /\ snap.purpose = "standard"

----------------------------------------------------------------------------
(* Beginning, and what orphans mean for it                                  *)

(* restore: autosave lock first, then the store's.                          *)
BeginRestore(s) ==
    /\ Reached(s, "idle") /\ autosave = Nobody
    /\ autosave' = s
    /\ call' = [call EXCEPT ![s] = [NoCall EXCEPT !.at = "recover", !.op = "restore"]]
    /\ UNCHANGED <<file, dir, goals, lock, disk, snaps, past, edits, errors>>

(* save, salvage_save and prune_standard_snapshots take the store's lock    *)
(* alone; only the last looks for no orphan.                                *)
BeginOther(s, op) ==
    /\ Reached(s, "idle")
    /\ call' = [call EXCEPT ![s] =
                  [NoCall EXCEPT !.at = IF op = "rotate" THEN "prune" ELSE "recover", !.op = op]]
    /\ UNCHANGED <<file, dir, goals, lock, autosave, disk, snaps, past, edits, errors>>

(* Where an operation goes on when no orphan is left.                       *)
Proceed(s) == Goto(s, IF call[s].op = "restore" THEN "create" ELSE "capture")

(* An orphan that cannot be dealt with ends everything but a salvage.       *)
Blocked(s) ==
    /\ IF call[s].op = "salvage"
       THEN /\ call' = [call EXCEPT ![s].at = "capture", ![s].target = 0, ![s].refused = {}]
            /\ Release(s)
       ELSE End(s)

NoOrphan(s) ==
    /\ Reached(s, "recover") /\ disk[s].kind = "none"
    /\ Proceed(s)
    /\ UNCHANGED <<file, dir, goals, lock, autosave, disk, snaps, past, edits, errors>>

(* reap_journalless_restore_transaction                                     *)
ReapBare(s) ==
    /\ Reached(s, "recover") /\ disk[s].kind = "bare"
    /\ Journal(s, NoTransaction) /\ Proceed(s)
    /\ UNCHANGED <<file, dir, goals, lock, autosave, snaps, past, edits, errors>>

RefuseOrphan(s) ==
    /\ Reached(s, "recover") /\ disk[s].kind \in {"torn", "wreck"}
    /\ Blocked(s)
    /\ UNCHANGED <<file, dir, goals, disk, snaps, past, edits, errors>>

(* Fault: a committed orphan is compared with the workspace once more.      *)
SkipCommittedStrict(s) ==
    /\ Reached(s, "recover") /\ disk[s].kind = "journaled" /\ disk[s].phase = "committed"
    /\ IF \A f \in Files : file[f] = Saved
       THEN Goto(s, "remove") /\ UNCHANGED <<lock, autosave>>
       ELSE Blocked(s)
    /\ UNCHANGED <<file, dir, goals, disk, snaps, past, edits, errors>>

SkipCommitted(s) ==
    /\ Reached(s, "recover") /\ disk[s].kind = "journaled" /\ disk[s].phase = "committed"
    /\ Goto(s, "remove")
    /\ UNCHANGED <<file, dir, goals, lock, autosave, disk, snaps, past, edits, errors>>

NeedsLocks(s) == \/ Reached(s, "recover") /\ disk[s].kind = "journaled"
                                        /\ disk[s].phase # "committed"
                 \/ Reached(s, "lock")

(* acquire_managed_state_locks resolves every state file first, and makes    *)
(* the missing goals/ for its lock files: no journal says so, and nobody     *)
(* removes it again.                                                        *)
MakeGoals(s) ==
    /\ NeedsLocks(s) /\ goals = "absent"
    /\ goals' = "made"
    /\ UNCHANGED <<file, dir, lock, autosave, disk, snaps, call, past, edits, errors>>

(* Then one lock after the other, in the order of the paths.                *)
ToLock(s) == {f \in Managed : lock[f] # s}
AcquireStateLock(s) ==
    /\ NeedsLocks(s) /\ goals = "made" /\ ToLock(s) # {} /\ lock[First(ToLock(s))] = Nobody
    /\ lock' = [lock EXCEPT ![First(ToLock(s))] = s]
    /\ UNCHANGED <<file, dir, goals, autosave, disk, snaps, call, past, edits, errors>>

LocksHeld(s) == goals = "made" /\ ToLock(s) = {}

(* Fault: the rollback of an orphan runs under the store's lock alone: the   *)
(* state files are resolved, and their locks not taken.                     *)
RecoverOrphanUnlocked(s) ==
    /\ Reached(s, "recover") /\ disk[s].kind = "journaled" /\ disk[s].phase # "committed"
    /\ goals = "made"
    /\ Journal(s, [disk[s] EXCEPT !.phase = "rolling_back"]) /\ Goto(s, "rollback")
    /\ UNCHANGED <<file, dir, goals, lock, autosave, snaps, past, edits, errors>>

(* recover_orphaned_restore_transactions and the start of its rollback.     *)
RecoverOrphan(s) ==
    /\ Reached(s, "recover") /\ disk[s].kind = "journaled" /\ disk[s].phase # "committed"
    /\ LocksHeld(s)
    /\ Journal(s, [disk[s] EXCEPT !.phase = "rolling_back"]) /\ Goto(s, "rollback")
    /\ UNCHANGED <<file, dir, goals, lock, autosave, snaps, past, edits, errors>>

(* Waiting 2.5 s for a state lock was not enough.                           *)
LocksTimeOut(s) ==
    /\ NeedsLocks(s) /\ goals = "made" /\ ToLock(s) # {} /\ lock[First(ToLock(s))] # Nobody
    /\ errors < MaxErrors /\ errors' = errors + 1
    /\ Blocked(s)
    /\ UNCHANGED <<file, dir, goals, disk, snaps, past, edits>>

----------------------------------------------------------------------------
(* The restore                                                              *)

(* The target is the latest complete standard snapshot, or any complete one *)
(* by its id (recovery-only ones by an explicit option).                    *)
Create(s) ==
    /\ Reached(s, "create") /\ \E i \in DOMAIN snaps[s] : Complete(snaps[s][i])
    /\ Journal(s, [NoTransaction EXCEPT !.kind = "bare"])
    /\ call' = [call EXCEPT ![s].at = "journal", ![s].own = TRUE]
    /\ past' = [past EXCEPT ![s] = [file |-> file, dir |-> dir, edited |-> {}, result |-> "none"]]
    /\ UNCHANGED <<file, dir, goals, lock, autosave, snaps, edits, errors>>

WriteJournal(s) ==
    /\ Reached(s, "journal")
    /\ Journal(s, [disk[s] EXCEPT !.kind = "journaled"]) /\ Goto(s, "lock")
    /\ UNCHANGED <<file, dir, goals, lock, autosave, snaps, past, edits, errors>>

(* After staging, before the destinations are read.                         *)
Lock(s) ==
    /\ Reached(s, "lock") /\ LocksHeld(s)
    /\ Goto(s, "prepare")
    /\ UNCHANGED <<file, dir, goals, lock, autosave, disk, snaps, past, edits, errors>>

NextToPrepare(s) == First(InStep(s, {"planned"}))
NeedsDir(s) == NextToPrepare(s) \in Nested /\ dir = "absent"

(* prepare_restore_destination_file: a missing directory is journaled, made *)
(* and journaled again; somebody else may be faster.                        *)
PlanDir(s) ==
    /\ Reached(s, "prepare") /\ InStep(s, {"planned"}) # {} /\ NeedsDir(s) /\ disk[s].made = "no"
    /\ Journal(s, [disk[s] EXCEPT !.made = "planned"])
    /\ UNCHANGED <<file, dir, goals, lock, autosave, snaps, call, past, edits, errors>>

MakeDir(s) ==
    /\ Reached(s, "prepare") /\ disk[s].made = "planned"
    /\ IF dir = "absent"
       THEN dir' = "own" /\ Goto(s, "made") /\ UNCHANGED disk
       ELSE Journal(s, [disk[s] EXCEPT !.made = "no"]) /\ UNCHANGED <<dir, call>>
    /\ UNCHANGED <<file, goals, lock, autosave, snaps, past, edits, errors>>

RecordDir(s) ==
    /\ Reached(s, "made")
    /\ Journal(s, [disk[s] EXCEPT !.made = "created"]) /\ Goto(s, "prepare")
    /\ UNCHANGED <<file, dir, goals, lock, autosave, snaps, past, edits, errors>>

(* The destination is copied to backups/ and recorded.                      *)
PrepareFile(s) ==
    /\ Reached(s, "prepare") /\ InStep(s, {"planned"}) # {} /\ ~NeedsDir(s)
    /\ disk[s].made # "planned"
    /\ LET f == NextToPrepare(s) IN
       /\ Journal(s, [disk[s] EXCEPT !.step[f] = "prepared", !.original[f] = file[f]])
       /\ Goto(s, IF InStep(s, {"planned"}) = {f} THEN "check" ELSE "prepare")
    /\ UNCHANGED <<file, dir, goals, lock, autosave, snaps, past, edits, errors>>

(* validate_restore_destination_unchanged                                   *)
Unchanged(s, f) == file[f] = disk[s].original[f]

CheckUnchanged(s) ==
    /\ Reached(s, "check") /\ \A f \in Files : Unchanged(s, f)
    /\ Goto(s, "publish")
    /\ UNCHANGED <<file, dir, goals, lock, autosave, disk, snaps, past, edits, errors>>

NextToPublish(s) == First(InStep(s, {"prepared"}))

(* Fault: only the phase is journaled, not which file is attempted.         *)
AttemptUnrecorded(s) ==
    /\ Reached(s, "publish") /\ Unchanged(s, NextToPublish(s))
    /\ Journal(s, [disk[s] EXCEPT !.phase = "publishing"])
    /\ call' = [call EXCEPT ![s].at = "replace", ![s].target = NextToPublish(s)]
    /\ UNCHANGED <<file, dir, goals, lock, autosave, snaps, past, edits, errors>>

(* publish_restore_entry, up to the journaled attempt.                      *)
Attempt(s) ==
    /\ Reached(s, "publish")
    /\ LET f == NextToPublish(s) IN
       /\ Unchanged(s, f)
       /\ dir' = IF f \in Nested /\ dir = "absent" THEN "own" ELSE dir
       /\ Journal(s, [disk[s] EXCEPT !.phase = "publishing", !.step[f] = "attempted"])
       /\ call' = [call EXCEPT ![s].at = "replace", ![s].target = f]
    /\ UNCHANGED <<file, goals, lock, autosave, snaps, past, edits, errors>>

(* The staged copy replaces whatever is there now.                          *)
Replace(s) ==
    /\ Reached(s, "replace")
    /\ LET f == call[s].target IN
       /\ file' = [file EXCEPT ![f] = Saved]
       /\ call' = [call EXCEPT ![s].target = 0,
                     ![s].at = IF InStep(s, {"prepared"}) = {} THEN "verify" ELSE "publish"]
    /\ UNCHANGED <<dir, goals, lock, autosave, disk, snaps, past, edits, errors>>

(* validate_published_restore                                               *)
Verify(s) ==
    /\ Reached(s, "verify") /\ \A f \in Files : file[f] = Saved
    /\ Goto(s, "commit")
    /\ UNCHANGED <<file, dir, goals, lock, autosave, disk, snaps, past, edits, errors>>

CommitRestore(s) ==
    /\ Reached(s, "commit")
    /\ Journal(s, [disk[s] EXCEPT !.phase = "committed"]) /\ Goto(s, "remove")
    /\ UNCHANGED <<file, dir, goals, lock, autosave, snaps, past, edits, errors>>

(* A check failed, or an I/O error that counts as a fault: finish_failed_    *)
(* restore rolls back in the same process, its locks still held.            *)
Forward == {"prepare", "made", "check", "publish", "replace", "verify", "commit"}

CheckFails(s) ==
    \/ Reached(s, "check") /\ \E f \in Files : ~Unchanged(s, f)
    \/ Reached(s, "publish") /\ ~Unchanged(s, NextToPublish(s))
    \/ Reached(s, "verify") /\ \E f \in Files : file[f] # Saved

RollBack(s) ==
    /\ \/ CheckFails(s) /\ UNCHANGED errors
       \/ call[s].at \in Forward /\ errors < MaxErrors /\ errors' = errors + 1
    /\ Journal(s, [disk[s] EXCEPT !.phase = "rolling_back"])
    /\ call' = [call EXCEPT ![s].at = "rollback", ![s].target = 0]
    /\ UNCHANGED <<file, dir, goals, lock, autosave, snaps, past, edits>>

----------------------------------------------------------------------------
(* The rollback                                                             *)

ToUndo(s) == InStep(s, {"attempted"}) \ call[s].refused

(* rollback_restore_entry: what others have written since is left alone.    *)
MayUndo(s, f) ==
    IF disk[s].original[f] = Absent THEN file[f] \in {Absent, Saved}
    ELSE file[f] \in {Absent, Saved, disk[s].original[f]}

UndoNext(s) ==
    /\ Reached(s, "rollback") /\ ToUndo(s) # {}
    /\ LET f == Last(ToUndo(s)) IN
       call' = IF MayUndo(s, f) THEN [call EXCEPT ![s].at = "undo", ![s].target = f]
               ELSE [call EXCEPT ![s].refused = @ \cup {f}]
    /\ UNCHANGED <<file, dir, goals, lock, autosave, disk, snaps, past, edits, errors>>

(* The verified backup is published, or the new file removed.               *)
Undo(s) ==
    /\ Reached(s, "undo")
    /\ file' = [file EXCEPT ![call[s].target] = disk[s].original[call[s].target]]
    /\ Goto(s, "record")
    /\ UNCHANGED <<dir, goals, lock, autosave, disk, snaps, past, edits, errors>>

(* An entry that fails to be undone or recorded does not stop the others.   *)
RecordUndone(s) ==
    /\ Reached(s, "record")
    /\ Journal(s, [disk[s] EXCEPT !.step[call[s].target] = "undone"])
    /\ call' = [call EXCEPT ![s].at = "rollback", ![s].target = 0]
    /\ UNCHANGED <<file, dir, goals, lock, autosave, snaps, past, edits, errors>>

UndoFails(s) ==
    /\ call[s].at \in {"undo", "record"} /\ errors < MaxErrors
    /\ call' = [call EXCEPT ![s].at = "rollback", ![s].target = 0,
                            ![s].refused = @ \cup {call[s].target}]
    /\ errors' = errors + 1
    /\ UNCHANGED <<file, dir, goals, lock, autosave, disk, snaps, past, edits>>

DirIsEmpty == dir = "own" /\ \A f \in Nested : file[f] = Absent

(* A directory of this restore is removed when nothing is in it.            *)
UndoDir(s) ==
    /\ Reached(s, "rollback") /\ ToUndo(s) = {}
    /\ IF disk[s].made # "no" /\ dir # "absent" /\ ~DirIsEmpty
       THEN call' = [call EXCEPT ![s].at = "undo_dir", ![s].refused = @ \cup {0}] /\ UNCHANGED dir
       ELSE /\ dir' = IF disk[s].made # "no" THEN "absent" ELSE dir
            /\ Goto(s, "undo_dir")
    /\ UNCHANGED <<file, goals, lock, autosave, disk, snaps, past, edits, errors>>

(* Recovery lets go of the state locks before it removes the transaction.   *)
RolledBack(s) ==
    /\ Reached(s, "undo_dir") /\ call[s].refused = {}
    /\ Goto(s, "remove")
    /\ lock' = IF call[s].own THEN lock
               ELSE [f \in Managed |-> IF lock[f] = s THEN Nobody ELSE lock[f]]
    /\ UNCHANGED <<file, dir, goals, autosave, disk, snaps, past, edits, errors>>

(* Something was refused: the transaction stays for its owner.              *)
RollbackIncomplete(s) ==
    /\ Reached(s, "undo_dir") /\ call[s].refused # {}
    /\ IF call[s].own THEN End(s) ELSE Blocked(s)
    /\ UNCHANGED <<file, dir, goals, disk, snaps, past, edits, errors>>

(* remove_restore_transaction                                               *)
Remove(s) ==
    /\ Reached(s, "remove")
    /\ Journal(s, NoTransaction)
    /\ Outcome(s, IF disk[s].phase = "committed" THEN "restored" ELSE "rolled_back")
    /\ IF call[s].own THEN End(s) ELSE Proceed(s) /\ UNCHANGED <<lock, autosave>>
    /\ UNCHANGED <<file, dir, goals, snaps, edits, errors>>

(* remove_dir_all stops half-way: a handle is open, or the process dies.    *)
HasBackups(s) == \E f \in Files : disk[s].original[f] # Absent
RemoveStops(s) ==
    /\ Reached(s, "remove") /\ errors < MaxErrors /\ errors' = errors + 1
    /\ \E kind \in {"journaled", "torn", "bare"} \cup (IF HasBackups(s) THEN {"wreck"} ELSE {}) :
         Journal(s, [disk[s] EXCEPT !.kind = kind])
    /\ Outcome(s, IF disk[s].phase = "committed" THEN "restored" ELSE "rolled_back")
    /\ IF call[s].own THEN End(s) ELSE Blocked(s)
    /\ UNCHANGED <<file, dir, goals, snaps, edits>>

----------------------------------------------------------------------------
(* Saving and rotating                                                      *)

(* A snapshot is renamed into place when it is whole; one whose files could  *)
(* not all be copied is kept as partial, and nothing is rotated for it.      *)
Capture(s, status) ==
    /\ Reached(s, "capture") /\ Len(snaps[s]) <= MaxSnapshots
    /\ LET purpose == IF call[s].op = "salvage" THEN "recovery_only" ELSE "standard" IN
       snaps' = [snaps EXCEPT ![s] = Append(@, [status |-> status, purpose |-> purpose,
                     half |-> \E t \in Stores : HalfRestored(t)])]
    /\ \/ status = "complete" /\ call[s].op = "save" /\ Goto(s, "prune")
          /\ UNCHANGED <<lock, autosave>>
       \/ End(s)
    /\ UNCHANGED <<file, dir, goals, disk, past, edits, errors>>

(* Fault: recovery-only snapshots count as restore points to keep.          *)
RotatableAny(s) == {i \in DOMAIN snaps[s] : Complete(snaps[s][i])}

Rotatable(s) == {i \in DOMAIN snaps[s] : Standard(snaps[s][i])}

(* prune_standard with keep = 1, oldest first; a deletion that stops leaves  *)
(* a snapshot that no longer verifies.                                      *)
Rotate(s) ==
    /\ Reached(s, "prune") /\ Cardinality(Rotatable(s)) > 1
    /\ LET old == First(Rotatable(s)) IN
       \/ /\ snaps' = [snaps EXCEPT ![s] = SubSeq(@, 1, old - 1) \o SubSeq(@, old + 1, Len(@))]
          /\ UNCHANGED <<lock, autosave, call, errors>>
       \/ /\ errors < MaxErrors /\ errors' = errors + 1
          /\ snaps' = [snaps EXCEPT ![s][old].status = "corrupt"]
          /\ End(s)
    /\ UNCHANGED <<file, dir, goals, disk, past, edits>>

RotateDone(s) ==
    /\ Reached(s, "prune") /\ Cardinality(Rotatable(s)) <= 1
    /\ End(s)
    /\ UNCHANGED <<file, dir, goals, disk, snaps, past, edits, errors>>

(* An error that ends the call where nothing is to be undone.               *)
GiveUp(s) ==
    /\ \/ call[s].at \in {"recover", "journal", "capture"} /\ errors < MaxErrors
          /\ errors' = errors + 1
       \/ Reached(s, "create") /\ UNCHANGED errors       \* no such snapshot, or it does not verify
       \/ Reached(s, "capture") /\ Len(snaps[s]) > MaxSnapshots /\ UNCHANGED errors
    /\ End(s)
    /\ UNCHANGED <<file, dir, goals, disk, snaps, past, edits>>

(* The process dies; its locks go with it.                                  *)
Die(s) ==
    /\ ~Reached(s, "idle") /\ errors < MaxErrors /\ errors' = errors + 1
    /\ End(s)
    /\ UNCHANGED <<file, dir, goals, disk, snaps, past, edits>>

----------------------------------------------------------------------------
(* The others                                                               *)

Edited(f) == past' = [s \in Stores |-> [past[s] EXCEPT !.edited = @ \cup {f}]]

(* A user writes or deletes a file that no lock protects.                   *)
Edit(f) ==
    /\ f \notin Managed /\ edits < MaxEdits /\ edits' = edits + 1
    /\ \E c \in {Absent, Saved + edits'} :
         c # file[f] /\ file' = [file EXCEPT ![f] = c]
    /\ dir' = IF f \in Nested /\ dir = "absent" THEN "own" ELSE dir
    /\ Edited(f)
    /\ UNCHANGED <<goals, lock, autosave, disk, snaps, call, errors>>

(* A user puts another file into the directory, or removes it again.        *)
Share ==
    /\ Nested # {} /\ edits < MaxEdits /\ edits' = edits + 1
    /\ dir' = "shared"
    /\ past' = [s \in Stores |-> [past[s] EXCEPT !.edited = @ \cup {0}]]
    /\ UNCHANGED <<file, goals, lock, autosave, disk, snaps, call, errors>>

(* Another rayman process changes a state file under its lock, for which it  *)
(* makes goals/ too.                                                        *)
WriterLocks(f) ==
    /\ lock[f] = Nobody /\ edits < MaxEdits
    /\ lock' = [lock EXCEPT ![f] = Writer]
    /\ goals' = IF f \in Goals THEN "made" ELSE goals
    /\ UNCHANGED <<file, dir, autosave, disk, snaps, call, past, edits, errors>>

WriterWrites(f) ==
    /\ lock[f] = Writer /\ edits < MaxEdits /\ edits' = edits + 1
    /\ file' = [file EXCEPT ![f] = Saved + edits']
    /\ lock' = [lock EXCEPT ![f] = Nobody]
    /\ Edited(f)
    /\ UNCHANGED <<dir, goals, autosave, disk, snaps, call, errors>>

WriterLeaves(f) ==
    /\ lock[f] = Writer
    /\ lock' = [lock EXCEPT ![f] = Nobody]
    /\ UNCHANGED <<file, dir, goals, autosave, disk, snaps, call, past, edits, errors>>

----------------------------------------------------------------------------
Recovery(s) == NoOrphan(s) \/ ReapBare(s) \/ RefuseOrphan(s) \/ SkipCommitted(s)
               \/ MakeGoals(s) \/ AcquireStateLock(s) \/ RecoverOrphan(s) \/ LocksTimeOut(s)
RestoreStep(s) == Create(s) \/ WriteJournal(s) \/ Lock(s) \/ PlanDir(s) \/ MakeDir(s)
                  \/ RecordDir(s) \/ PrepareFile(s) \/ CheckUnchanged(s) \/ Attempt(s) \/ Replace(s)
                  \/ Verify(s) \/ CommitRestore(s)
RollbackStep(s) == UndoNext(s) \/ Undo(s) \/ RecordUndone(s) \/ UndoDir(s) \/ RolledBack(s)
                   \/ RollbackIncomplete(s) \/ Remove(s)
SaveStep(s) == (\E status \in {"complete", "partial"} : Capture(s, status))
               \/ Rotate(s) \/ RotateDone(s)
Errors(s) == RollBack(s) \/ UndoFails(s) \/ RemoveStops(s) \/ GiveUp(s) \/ Die(s)
Call(s) == Recovery(s) \/ RestoreStep(s) \/ RollbackStep(s) \/ SaveStep(s) \/ Errors(s)

Others == (\E f \in Files : Edit(f)) \/ Share
          \/ \E f \in Managed : WriterLocks(f) \/ WriterWrites(f) \/ WriterLeaves(f)

RestoreNext ==
    \/ \E s \in Stores : \/ BeginRestore(s) \/ Call(s)
                         \/ \E op \in Operations \ {"restore"} : BeginOther(s, op)
    \/ Others

RestoreSpec == RestoreInit /\ [][RestoreNext]_restoreVars

(* An operation that was begun goes on, snapshots are saved again and       *)
(* again, and writers, who hold a lock for milliseconds, leave a gap for     *)
(* whoever waits seconds for it.                                            *)
RestoreFairness ==
    /\ \A s \in Stores : /\ WF_restoreVars(Call(s)) /\ SF_restoreVars(BeginOther(s, "save"))
                         /\ SF_restoreVars(AcquireStateLock(s))
    /\ \A f \in Managed : WF_restoreVars(WriterWrites(f) \/ WriterLeaves(f))
FairRestoreSpec == RestoreSpec /\ RestoreFairness

----------------------------------------------------------------------------
(* A restore that ended - by itself or by the recovery of whoever came       *)
(* next, after any death - has restored every file or none, but for files    *)
(* that others changed since it began; and an undone one has left no         *)
(* ordinary directory behind.  The missing goals/ it does leave behind, in   *)
(* every case: the locks made it (restore.rs:309-320), no journal tells of   *)
(* it, and what restore.rs:5-6 says of directories is not true of this one.  *)
RestoredOrUndone ==
    \A s \in Stores :
        /\ past[s].result = "restored" =>
             \A f \in Files \ past[s].edited : file[f] = Saved
        /\ past[s].result = "rolled_back" =>
             /\ \A f \in Files \ past[s].edited : file[f] = past[s].file[f]
             /\ past[s].edited \cap (Nested \cup {0}) = {} => dir = past[s].dir
        /\ past[s].result # "none" => goals = "made"

(* What a restore or a rollback replaces in a state file is what its own     *)
(* backup holds or what it published itself: a goal or pending record that  *)
(* another rayman process wrote under the file's lock is never lost,        *)
(* however restore, death, recovery and writer interleave.                  *)
Replaceable(s, f) == {disk[s].original[f], Saved, Absent}
StateWritesSurvive ==
    [][\A s \in Stores : call[s].at \in {"replace", "undo"} =>
         \A f \in Managed : file'[f] # file[f] /\ call' # call
                              => file[f] \in Replaceable(s, f)]_restoreVars

(* There is always a complete standard snapshot to go back to, and none was  *)
(* taken of a workspace that a restore had left half-way.                   *)
RecoveryPointsAreWhole ==
    \A s \in Stores :
        /\ \E i \in DOMAIN snaps[s] : Standard(snaps[s][i])
        /\ \A i \in DOMAIN snaps[s] : Standard(snaps[s][i]) => ~snaps[s][i].half

(* The removal of a finished transaction stopped half-way: staged/ or       *)
(* backups/ went before the journal, or the journal before backups/.  Its    *)
(* phase no longer counts then (restore.rs:905-910, 945-948).               *)
CleanupStopped(s) == disk[s].kind \in {"torn", "wreck"}

(* What recovery refuses for good, until the owner deletes the transaction:  *)
(* a file or the directory was changed by others, or its removal stopped.    *)
Obstructed(s) ==
    \/ CleanupStopped(s)
    \/ /\ disk[s].phase # "committed"
       /\ \/ \E f \in InStep(s, {"attempted"}) : ~MayUndo(s, f)
          \/ disk[s].made # "no" /\ (dir = "shared" \/ \E f \in Nested : file[f] > Saved)

(* A dead restore whose transaction is still whole blocks the store for good *)
(* only where undoing it would destroy somebody's work: as long as snapshots *)
(* are saved, it is undone, or cleared away when it had committed, whatever  *)
(* was edited since.  Not so when the removal itself stopped half-way: then  *)
(* every save and restore is refused even though the restore had committed   *)
(* or was undone wholly.  The comment at restore.rs:816-827 means a failed   *)
(* cleanup of a committed restore never to be permanent; it is, when staged/ *)
(* or backups/ went before the journal.                                     *)
OrphansRecover ==
    \A s \in Stores : []<>(disk[s].kind = "none" \/ Obstructed(s))
=============================================================================
