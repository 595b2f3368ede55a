--------------------------- MODULE GitPublication ---------------------------
(* The publication of one admitted commit into a live Git repository        *)
(* (crates/codex-global-execution/src/global_execution/git.rs with           *)
(* publication.rs).  The worker prepares the exact commit aside, then moves  *)
(* it in by renames: staged files become index.lock and <ref>.lock, the      *)
(* objects are published, <ref>.lock becomes the ref and index.lock the      *)
(* index.  Each durable step is journaled; the worker may die after any of   *)
(* them and the same candidate is then resumed by the recorded identities.   *)
(* Meanwhile ordinary Git commands and the user work in the repository.      *)
(*                                                                          *)
(* Files are their contents' names: a ref or an index is "parent"/"original" *)
(* (what was reviewed), the candidate's, or "other".  A staged file is known *)
(* by where it lies, which is what its recorded file identity establishes.   *)
EXTENDS Naturals, FiniteSets

CONSTANTS
    Objects,        \* the candidate's loose objects, numbered in their order
    MaxAttempts,    \* bound: staging attempts per candidate and object (8 in the code)
    MaxCrashes,     \* bound: worker deaths and I/O errors
    MaxMeddles      \* bound: steps of other programs

ASSUME BoundsAssumption ==
    /\ Objects \subseteq Nat /\ IsFiniteSet(Objects)
    /\ MaxAttempts \in Nat /\ MaxCrashes \in Nat /\ MaxMeddles \in Nat

VARIABLES
    \* the repository
    ref,          \* the registered branch
    head,         \* what HEAD names: "branch", or something else at that commit
    index,        \* the index
    store,        \* the object store, per object of the candidate
    worktree,     \* "reviewed", or "edited" since
    refLock,      \* another program holds <ref>.lock
    indexLock,    \* another program holds index.lock
    \* the candidate directory
    candidate,    \* "absent", "created" (directory only) or "written" (candidate.json)
    attempts,     \* staging-attempts.json
    phase,        \* publication.json: its phase, "none" before it exists
    metadata,     \* publication.json: metadata_ready
    tries,        \* publication.json: object_attempts
    seeded,       \* publication.json: the objects in object_seeds
    refSlot,      \* where the journaled ref file lies
    indexSlot,    \* where the journaled index file lies
    \* the worker
    granted,      \* execute_effect was returned and not used yet
    pc,           \* the step the current run is at
    seenRef, seenIndex,   \* what the run read before it claimed the locks
    todo,         \* objects this run has still to look at
    \* history and bounds
    moves,        \* how often the worker moved the ref
    removed,      \* somebody deleted a lock file that a dead run had left
    crashes, meddles

repository == <<ref, head, index, store, worktree>>
foreign    == <<refLock, indexLock>>
journal    == <<attempts, phase, metadata, tries, seeded>>
slots      == <<refSlot, indexSlot>>
run        == <<seenRef, seenIndex, todo>>
history    == <<moves, removed, crashes, meddles>>
vars == <<repository, foreign, candidate, journal, slots, granted, pc, run, history>>

Steps == {"prepare", "build", "open", "stage", "record", "metadata", "verify", "read",
          "claim_index", "claim_ref", "recheck", "objects", "seed", "publish_ref",
          "record_ref", "publish_index", "terminal"}

Places == {"none",       \* not journaled
           "seed",       \* under its unique name beside the target
           "lock",       \* renamed to the standard Git lock
           "installed",  \* renamed onto the ref or the index
           "gone"}       \* deleted or replaced by somebody else

Init ==
    /\ ref = "parent" /\ head = "branch" /\ index = "original"
    /\ store \in [Objects -> {"absent", "same"}]      \* Git may already have some
    /\ worktree = "reviewed"
    /\ refLock = FALSE /\ indexLock = FALSE
    /\ candidate = "absent" /\ attempts = 0
    /\ phase = "none" /\ metadata = FALSE
    /\ tries = [o \in Objects |-> 0] /\ seeded = {}
    /\ refSlot = "none" /\ indexSlot = "none"
    /\ granted = TRUE
    /\ pc = "idle"
    /\ seenRef = "none" /\ seenIndex = "none" /\ todo = {}
    /\ moves = 0 /\ removed = FALSE /\ crashes = 0 /\ meddles = 0

----------------------------------------------------------------------------
OnBranch == head = "branch"

Head == IF OnBranch THEN ref ELSE head

(* GitInspector::capture: the registered branch is checked out and the      *)
(* index holds the tree of HEAD; head, index and changed files are compared *)
(* with what the candidate records.                                         *)
Captures(commit, idx) ==
    OnBranch /\ ref = commit /\ index = idx /\ worktree = "reviewed"

CapturesOriginal  == Captures("parent", "original")
CapturesCommitted == Captures("commit", "candidate")

(* Fault: the lock is claimed by replacing whatever lies there.             *)
CanClaimOver(slot, lockedByOther) == slot \in {"seed", "lock"}

(* Fault: a staged file that was used up is staged again.                   *)
CanClaimAnew(slot, lockedByOther) == slot = "lock" \/ ~lockedByOther

(* Fault: a lock left by an earlier run of the same candidate is a conflict. *)
CanClaimFresh(slot, lockedByOther) == slot = "seed" /\ ~lockedByOther

(* claim: a lock that exists must be the file this candidate staged.        *)
CanClaim(slot, lockedByOther) ==
    \/ slot = "lock"
    \/ slot = "seed" /\ ~lockedByOther

(* Objects are published in the order of the candidate's BTreeMap.          *)
NextObject == CHOOSE o \in todo : \A p \in todo : o <= p

(* An object is kept where it already lies with the same bytes, published   *)
(* over nothing - from the seed on record or by a new attempt - and never   *)
(* over a different file.                                                   *)
CanPublish(o) ==
    \/ store[o] = "same"
    \/ store[o] = "absent" /\ (o \in seeded \/ tries[o] < MaxAttempts)

AttemptsLeft == attempts < MaxAttempts

(* The checks each step of the code makes before it acts.                   *)
Permitted(step) ==
    /\ step \in {"prepare", "build"} => CapturesOriginal
    /\ step = "prepare" => candidate = "absent"
    /\ step = "open" => candidate = "written" /\ OnBranch
    /\ step = "stage" => CapturesOriginal /\ AttemptsLeft
    /\ step = "metadata" => refSlot = "seed" /\ indexSlot = "seed"
    /\ step = "verify" => OnBranch /\ ref = "commit" /\ index = "candidate"
    /\ step = "read" => /\ Head \in {"parent", "commit"}
                        /\ index \in {"original", "candidate"}
    /\ step = "claim_index" => seenIndex = "candidate" \/ CanClaim(indexSlot, indexLock)
    /\ step = "claim_ref" => seenRef = "commit" \/ CanClaim(refSlot, refLock)
    /\ step = "recheck" => seenRef = "commit" \/ CapturesOriginal
    /\ step = "objects" => \A o \in todo : o = NextObject => CanPublish(o)
    /\ step = "terminal" => CapturesCommitted

At(step) == pc = step /\ Permitted(step)

Stop ==
    /\ pc' = "idle"
    /\ seenRef' = "none" /\ seenIndex' = "none" /\ todo' = {}

----------------------------------------------------------------------------
(* Worker::process: the run that got execute_effect prepares; any other can *)
(* only resume what is there.                                               *)
Begin ==
    /\ pc = "idle"
    /\ pc' = IF granted THEN "prepare" ELSE "open"
    /\ granted' = FALSE
    /\ UNCHANGED <<repository, foreign, candidate, journal, slots, run, history>>

(* prepare_commit: exclusive directory, so an interrupted preparation is    *)
(* never adopted.                                                           *)
Prepare ==
    /\ At("prepare")
    /\ candidate' = "created" /\ pc' = "build"
    /\ UNCHANGED <<repository, foreign, journal, slots, granted, run, history>>

Build ==
    /\ At("build")
    /\ candidate' = "written" /\ pc' = "open"
    /\ UNCHANGED <<repository, foreign, journal, slots, granted, run, history>>

(* publish_bound_commit: continue where publication.json says.              *)
Open ==
    /\ At("open")
    /\ pc' = CASE phase = "none"                  -> "stage"
               [] phase # "none" /\ ~metadata     -> "metadata"
               [] phase = "complete" /\ metadata  -> "verify"
               [] OTHER                           -> "read"
    /\ UNCHANGED <<repository, foreign, candidate, journal, slots, granted, run, history>>

(* A staging attempt is on record before its two seeds are created.  Seeds  *)
(* whose identity was never journaled stay behind, unused.                  *)
Stage ==
    /\ At("stage")
    /\ attempts' = attempts + 1 /\ pc' = "record"
    /\ UNCHANGED <<repository, foreign, candidate, phase, metadata, tries, seeded,
                   slots, granted, run, history>>

RecordSeeds ==
    /\ At("record")
    /\ phase' = "seeds_recorded"
    /\ refSlot' = "seed" /\ indexSlot' = "seed"
    /\ pc' = "metadata"
    /\ UNCHANGED <<repository, foreign, candidate, attempts, metadata, tries, seeded,
                   granted, run, history>>

PrepareMetadata ==
    /\ At("metadata")
    /\ metadata' = TRUE /\ pc' = "read"
    /\ UNCHANGED <<repository, foreign, candidate, attempts, phase, tries, seeded,
                   slots, granted, run, history>>

(* A publication already complete only checks that nothing moved since.     *)
VerifyComplete ==
    /\ At("verify")
    /\ Stop
    /\ UNCHANGED <<repository, foreign, candidate, journal, slots, granted, history>>

ReadHeadAndIndex ==
    /\ At("read")
    /\ seenRef' = Head /\ seenIndex' = index
    /\ pc' = "claim_index"
    /\ UNCHANGED <<repository, foreign, candidate, journal, slots, granted, todo, history>>

(* Fault: index.lock is left for after the ref.                             *)
ClaimIndexLater ==
    /\ At("claim_index")
    /\ pc' = "claim_ref"
    /\ UNCHANGED <<repository, foreign, candidate, journal, slots, granted, run, history>>

ClaimIndex ==
    /\ At("claim_index")
    /\ indexSlot' = IF seenIndex = "candidate" THEN indexSlot ELSE "lock"
    /\ pc' = "claim_ref"
    /\ UNCHANGED <<repository, foreign, candidate, journal, refSlot, granted, run, history>>

ClaimRef ==
    /\ At("claim_ref")
    /\ refSlot' = IF seenRef = "commit" THEN refSlot ELSE "lock"
    /\ pc' = "recheck"
    /\ UNCHANGED <<repository, foreign, candidate, journal, indexSlot, granted, run, history>>

(* Fault: nothing is read again once the locks are held.                    *)
RecheckNothing ==
    /\ pc = "recheck"
    /\ todo' = Objects /\ pc' = "objects"
    /\ UNCHANGED <<repository, foreign, candidate, journal, slots, granted,
                   seenRef, seenIndex, history>>

(* Under both locks the snapshot must still be the reviewed one, unless the *)
(* ref had been published by an earlier run.                                *)
Recheck ==
    /\ At("recheck")
    /\ todo' = Objects /\ pc' = "objects"
    /\ UNCHANGED <<repository, foreign, candidate, journal, slots, granted,
                   seenRef, seenIndex, history>>

KeepObject ==
    /\ At("objects") /\ todo # {} /\ store[NextObject] = "same"
    /\ todo' = todo \ {NextObject}
    /\ UNCHANGED <<repository, foreign, candidate, journal, slots, granted, pc,
                   seenRef, seenIndex, history>>

(* A new attempt is on record before its seed is created; a run that dies   *)
(* before the seed's identity is journaled leaves an orphan.                *)
AttemptObject ==
    /\ At("objects") /\ todo # {}
    /\ store[NextObject] = "absent" /\ NextObject \notin seeded
    /\ tries' = [tries EXCEPT ![NextObject] = @ + 1]
    /\ pc' = "seed"
    /\ UNCHANGED <<repository, foreign, candidate, attempts, phase, metadata, seeded,
                   slots, granted, run, history>>

SeedObject ==
    /\ At("seed")
    /\ seeded' = seeded \cup {NextObject}
    /\ pc' = "objects"
    /\ UNCHANGED <<repository, foreign, candidate, attempts, phase, metadata, tries,
                   slots, granted, run, history>>

PublishObject ==
    /\ At("objects") /\ todo # {}
    /\ store[NextObject] = "absent" /\ NextObject \in seeded
    /\ store' = [store EXCEPT ![NextObject] = "same"]
    /\ todo' = todo \ {NextObject}
    /\ UNCHANGED <<ref, head, index, worktree, foreign, candidate, journal, slots,
                   granted, pc, seenRef, seenIndex, history>>

(* Fault: the objects are left for after the ref.                           *)
RecordObjectsEarly ==
    /\ At("objects")
    /\ phase' = "objects_published" /\ pc' = "publish_ref" /\ todo' = {}
    /\ UNCHANGED <<repository, foreign, candidate, attempts, metadata, tries, seeded,
                   slots, granted, seenRef, seenIndex, history>>

RecordObjects ==
    /\ At("objects") /\ todo = {}
    /\ phase' = "objects_published" /\ pc' = "publish_ref"
    /\ UNCHANGED <<repository, foreign, candidate, attempts, metadata, tries, seeded,
                   slots, granted, run, history>>

(* <ref>.lock is renamed onto the ref, unless the ref was the commit.       *)
PublishRef ==
    /\ At("publish_ref")
    /\ IF seenRef = "commit"
       THEN UNCHANGED <<ref, refSlot, moves>>
       ELSE ref' = "commit" /\ refSlot' = "installed" /\ moves' = moves + 1
    /\ pc' = "record_ref"
    /\ UNCHANGED <<head, index, store, worktree, foreign, candidate, journal,
                   indexSlot, granted, run, removed, crashes, meddles>>

RecordRef ==
    /\ At("record_ref")
    /\ phase' = "ref_published" /\ pc' = "publish_index"
    /\ UNCHANGED <<repository, foreign, candidate, attempts, metadata, tries, seeded,
                   slots, granted, run, history>>

(* index.lock is renamed onto the index, unless it was the candidate's.     *)
PublishIndex ==
    /\ At("publish_index")
    /\ IF seenIndex = "candidate"
       THEN UNCHANGED <<index, indexSlot>>
       ELSE index' = "candidate" /\ indexSlot' = "installed"
    /\ pc' = "terminal"
    /\ UNCHANGED <<ref, head, store, worktree, foreign, candidate, journal,
                   refSlot, granted, run, history>>

(* Only what is captured as the commit with everything else preserved is    *)
(* recorded as complete.                                                    *)
Complete ==
    /\ At("terminal")
    /\ phase' = "complete"
    /\ Stop
    /\ UNCHANGED <<repository, foreign, candidate, attempts, metadata, tries, seeded,
                   slots, granted, history>>

(* A check fails: the run ends with an error and leaves everything.         *)
Refuse ==
    /\ pc # "idle" /\ ~Permitted(pc)
    /\ Stop
    /\ UNCHANGED <<repository, foreign, candidate, journal, slots, granted, history>>

(* The worker dies, or a file operation fails.                              *)
Crash ==
    /\ pc # "idle" /\ crashes < MaxCrashes
    /\ crashes' = crashes + 1
    /\ Stop
    /\ UNCHANGED <<repository, foreign, candidate, journal, slots, granted,
                   moves, removed, meddles>>

Advance ==
    \/ Prepare \/ Build \/ Open \/ Stage \/ RecordSeeds \/ PrepareMetadata
    \/ VerifyComplete \/ ReadHeadAndIndex \/ ClaimIndex \/ ClaimRef \/ Recheck
    \/ KeepObject \/ AttemptObject \/ SeedObject \/ PublishObject \/ RecordObjects
    \/ PublishRef \/ RecordRef \/ PublishIndex \/ Complete \/ Refuse

----------------------------------------------------------------------------
(* Other programs.  Git commands take the standard locks and replace a file *)
(* only by renaming their lock onto it; HEAD is switched without either.    *)
Meddle ==
    /\ meddles < MaxMeddles /\ meddles' = meddles + 1
    /\ UNCHANGED <<candidate, journal, granted, pc, run, moves, crashes>>

GitLocksIndex ==
    /\ Meddle
    /\ ~indexLock /\ indexSlot # "lock"
    /\ indexLock' = TRUE
    /\ UNCHANGED <<repository, refLock, slots, removed>>

GitWritesIndex(content) ==
    /\ Meddle
    /\ indexLock
    /\ index' = content /\ indexLock' = FALSE
    /\ indexSlot' = IF indexSlot = "installed" THEN "gone" ELSE indexSlot
    /\ UNCHANGED <<ref, head, store, worktree, refLock, refSlot, removed>>

GitLocksRef ==
    /\ Meddle
    /\ ~refLock /\ refSlot # "lock"
    /\ refLock' = TRUE
    /\ UNCHANGED <<repository, indexLock, slots, removed>>

GitWritesRef(content) ==
    /\ Meddle
    /\ refLock
    /\ ref' = content /\ refLock' = FALSE
    /\ refSlot' = IF refSlot = "installed" THEN "gone" ELSE refSlot
    /\ UNCHANGED <<head, index, store, worktree, indexLock, indexSlot, removed>>

GitSwitchesHead ==
    /\ Meddle
    /\ head' \in IF OnBranch THEN {ref, "other"} ELSE {"branch"}
    /\ UNCHANGED <<ref, index, store, worktree, foreign, slots, removed>>

(* The same object, or the same object compressed otherwise.                *)
GitWritesObject(o) ==
    /\ Meddle
    /\ store[o] = "absent"
    /\ \E bytes \in {"same", "different"} : store' = [store EXCEPT ![o] = bytes]
    /\ UNCHANGED <<ref, head, index, worktree, foreign, slots, removed>>

UserEdits ==
    /\ Meddle
    /\ worktree' = IF worktree = "reviewed" THEN "edited" ELSE "reviewed"
    /\ UNCHANGED <<ref, head, index, store, foreign, slots, removed>>

(* A run that claimed a lock keeps its file open without sharing deletion.  *)
Holding == {"recheck", "objects", "seed", "publish_ref"}
HoldsRef == seenRef = "parent" /\ pc \in Holding
HoldsIndex == /\ seenIndex = "original"
              /\ pc \in Holding \cup {"claim_ref", "record_ref", "publish_index"}

(* What Git advises when it finds a stale lock.                             *)
UserRemovesRefLock ==
    /\ Meddle
    /\ refSlot = "lock" /\ ~HoldsRef
    /\ refSlot' = "gone" /\ removed' = TRUE
    /\ UNCHANGED <<repository, foreign, indexSlot>>

UserRemovesIndexLock ==
    /\ Meddle
    /\ indexSlot = "lock" /\ ~HoldsIndex
    /\ indexSlot' = "gone" /\ removed' = TRUE
    /\ UNCHANGED <<repository, foreign, refSlot>>

Others ==
    \/ GitLocksIndex \/ GitLocksRef \/ GitSwitchesHead \/ UserEdits
    \/ UserRemovesRefLock \/ UserRemovesIndexLock
    \/ \E content \in {"original", "other"} : GitWritesIndex(content)
    \/ \E content \in {"parent", "other"} : GitWritesRef(content)
    \/ \E o \in Objects : GitWritesObject(o)

Next == Begin \/ Advance \/ Crash \/ Others

Spec == Init /\ [][Next]_vars

(* The worker's thread keeps running, and recovery is requested again as    *)
(* long as the commit is not complete.                                      *)
Fairness == WF_vars(Advance) /\ WF_vars(Begin)

FairSpec == Spec /\ Fairness

----------------------------------------------------------------------------
TypeOK ==
    /\ ref \in {"parent", "commit", "other"}
    /\ head \in {"branch", "parent", "commit", "other"}
    /\ index \in {"original", "candidate", "other"}
    /\ store \in [Objects -> {"absent", "same", "different"}]
    /\ worktree \in {"reviewed", "edited"}
    /\ refLock \in BOOLEAN /\ indexLock \in BOOLEAN
    /\ candidate \in {"absent", "created", "written"}
    /\ attempts \in 0..MaxAttempts
    /\ phase \in {"none", "seeds_recorded", "objects_published", "ref_published", "complete"}
    /\ metadata \in BOOLEAN
    /\ tries \in [Objects -> 0..MaxAttempts] /\ seeded \subseteq Objects
    /\ refSlot \in Places /\ indexSlot \in Places
    /\ granted \in BOOLEAN
    /\ pc \in Steps \cup {"idle"}
    /\ seenRef \in {"none", "parent", "commit"}
    /\ seenIndex \in {"none", "original", "candidate"}
    /\ todo \subseteq Objects
    /\ moves \in Nat /\ removed \in BOOLEAN
    /\ crashes \in 0..MaxCrashes /\ meddles \in 0..MaxMeddles

(* The branch never names a commit whose objects are not all in the store   *)
(* with the candidate's bytes, and no phase is journaled ahead of the       *)
(* repository - whatever dies, and whatever Git does meanwhile.             *)
PublishedRefIsWhole ==
    /\ ref = "commit" => \A o \in Objects : store[o] = "same"
    /\ phase \in {"objects_published", "ref_published", "complete"} =>
          \A o \in Objects : store[o] = "same"
    /\ phase \in {"ref_published", "complete"} => moves = 1

(* However often the commit is recovered, and even after somebody reset the *)
(* branch to its parent, the worker moves the branch at most once.          *)
RefMovesAtMostOnce == moves <= 1

(* A standard Git lock never has two owners.                                *)
LocksHaveOneOwner ==
    /\ ~(refLock /\ refSlot = "lock")
    /\ ~(indexLock /\ indexSlot = "lock")

(* From the moment the branch names the commit until the index does, the    *)
(* candidate's own index.lock keeps other Git commands from the index, also *)
(* while no worker runs; and until then both staged files are where the     *)
(* next run looks for them.  Only a user who deletes a lock file breaks it. *)
HalfPublicationIsLocked ==
    ~removed =>
        /\ ref = "commit" /\ index = "original" /\ indexSlot # "gone" => indexSlot = "lock"
        /\ phase # "none" /\ moves = 0 =>
              /\ refSlot \in {"seed", "lock"} /\ indexSlot \in {"seed", "lock"}

(* The worker replaces only what was reviewed: it moves the branch only off *)
(* the reviewed parent and replaces only the reviewed index, never a value  *)
(* another program wrote between two of its steps.                          *)
WorkerStep == pc' # pc
ReplacesOnlyReviewed ==
    [][WorkerStep => /\ ref' # ref => ref = "parent" /\ ~refLock
                     /\ index' # index => index = "original" /\ ~indexLock]_vars

(* What the code leaves to the owner: a preparation that was interrupted, a *)
(* retry limit, a foreign object, somebody's lock or change.                *)
Obstructed ==
    \/ candidate # "written" /\ ~granted
    \/ phase = "none" /\ (attempts = MaxAttempts \/ ~CapturesOriginal)
    \/ \E o \in Objects : store[o] = "different" \/ (store[o] = "absent" /\ tries[o] = MaxAttempts)
    \/ refLock \/ indexLock \/ removed
    \/ ~OnBranch \/ ref = "other" \/ index = "other" \/ worktree = "edited"
    \/ (moves = 1 /\ ref = "parent") \/ indexSlot = "gone"

(* Nothing but such an obstruction keeps an admitted commit from being      *)
(* completed: no crash leaves a state its own recovery refuses.             *)
CompletesUnlessObstructed == <>[](phase = "complete" \/ Obstructed)
=============================================================================
