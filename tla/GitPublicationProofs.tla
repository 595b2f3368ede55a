------------------------ MODULE GitPublicationProofs ------------------------
(* Proofs about GitPublication for every set of objects, every limit of      *)
(* attempts and any number of crashes and of steps of other programs.        *)
EXTENDS GitPublication, WellFoundedInduction, TLAPS

Claiming == {"claim_index", "claim_ref", "recheck"}
Claimed  == {"objects", "seed", "publish_ref"}
Moved    == {"record_ref", "publish_index", "terminal"}

Whole == \A o \in Objects : store[o] = "same"

(* publication.json exists from the seeds on, and before it nothing moved.   *)
PhaseIsSound ==
    /\ pc \in {"stage", "record"} => phase = "none"
    /\ pc \in {"metadata", "read"} \cup Claiming \cup Claimed \cup Moved => phase # "none"
    /\ phase = "none" => moves = 0
    /\ pc \in Claiming \cup Claimed \cup Moved =>
          seenRef \in {"parent", "commit"} /\ seenIndex \in {"original", "candidate"}

(* Whoever meets the commit, or its index, meets them after the worker's     *)
(* one move.                                                                 *)
MoveIsSeen ==
    /\ "commit" \in {ref, head, seenRef} => moves = 1
    /\ "candidate" \in {index, seenIndex} => moves = 1
    /\ pc \in Moved => moves = 1

(* The move uses up the staged ref, and only with the index locked.          *)
SlotsAreSound ==
    /\ moves = 0 => refSlot # "installed"
    /\ moves = 1 => refSlot \in {"installed", "gone"}
                    /\ indexSlot \in {"lock", "installed", "gone"}
    /\ indexSlot = "installed" => index = "candidate"
    /\ ~removed /\ phase # "none" /\ moves = 0 =>
          refSlot \in {"seed", "lock"} /\ indexSlot \in {"seed", "lock"}

(* Under its locks the run finds what it has read: the ref once it has       *)
(* checked it again, the index from then on or, when the ref had been moved  *)
(* before, since it is locked.                                               *)
ClaimsHold ==
    /\ HoldsRef => refSlot = "lock"
    /\ HoldsIndex => indexSlot = "lock"
    /\ seenRef = "parent" /\ pc \in Claimed => ref = "parent"
    /\ seenIndex = "original" /\ pc \in Claimed \cup {"record_ref", "publish_index"} =>
          index = "original"
    /\ /\ seenIndex = "original" /\ seenRef = "commit"
       /\ pc \in Claiming /\ indexSlot = "lock"
       => index = "original"

ObjectsAreDone ==
    /\ pc \in {"objects", "seed"} => \A o \in Objects \ todo : store[o] = "same"
    /\ pc = "seed" => todo # {}
    /\ pc \in {"publish_ref"} \cup Moved => Whole

IndInv ==
    /\ TypeOK
    /\ PhaseIsSound
    /\ MoveIsSeen
    /\ SlotsAreSound
    /\ ClaimsHold
    /\ ObjectsAreDone
    /\ PublishedRefIsWhole
    /\ RefMovesAtMostOnce
    /\ LocksHaveOneOwner

----------------------------------------------------------------------------
LEMMA NotLess == \A x, y \in Nat : <<y, x>> \notin OpToRel(<, Nat) => x <= y
  BY DEF OpToRel

(* The next object is one of those the run has still to look at.             *)
LEMMA NextIsToDo ==
  ASSUME TypeOK, todo # {} PROVE NextObject \in todo /\ NextObject \in Objects
  <1>1. todo \subseteq Nat
    BY BoundsAssumption DEF TypeOK
  <1>2. PICK x \in todo : \A y \in todo : <<y, x>> \notin OpToRel(<, Nat)
    BY <1>1, WFMin, NatLessThanWellFounded
  <1>3. \A y \in todo : x <= y
    BY <1>1, <1>2, NotLess, Zenon
  <1> QED
    BY <1>3 DEF NextObject, TypeOK

LEMMA InitIndInv == Init => IndInv
  <1> SUFFICES ASSUME Init PROVE IndInv
    OBVIOUS
  <1>1. TypeOK
    <2>1. /\ attempts \in 0 .. MaxAttempts /\ tries \in [Objects -> 0 .. MaxAttempts]
          /\ crashes \in 0 .. MaxCrashes /\ meddles \in 0 .. MaxMeddles
      BY BoundsAssumption DEF Init
    <2> QED
      BY <2>1 DEF Init, TypeOK, Places
  <1>2. PhaseIsSound /\ MoveIsSeen /\ SlotsAreSound
    BY DEF Init, PhaseIsSound, MoveIsSeen, SlotsAreSound, Claiming, Claimed, Moved
  <1>3. ClaimsHold /\ ObjectsAreDone
    BY DEF Init, ClaimsHold, ObjectsAreDone, HoldsRef, HoldsIndex, Holding, Claiming, Claimed, Moved
  <1>4. PublishedRefIsWhole /\ RefMovesAtMostOnce /\ LocksHaveOneOwner
    BY DEF Init, PublishedRefIsWhole, RefMovesAtMostOnce, LocksHaveOneOwner
  <1> QED
    BY <1>1, <1>2, <1>3, <1>4 DEF IndInv

----------------------------------------------------------------------------
(* A run that ends, or starts over, has claimed nothing.                     *)
LEMMA StopStep ==
  ASSUME IndInv, Stop,
         UNCHANGED <<repository, foreign, candidate, slots, granted, moves, removed>>,
         UNCHANGED <<attempts, metadata, tries, seeded>>,
         phase' = phase \/ (phase' = "complete" /\ phase # "none" /\ moves = 1 /\ Whole),
         crashes' \in 0 .. MaxCrashes, UNCHANGED meddles
  PROVE  IndInv'
  <1>1. TypeOK'
    BY DEF IndInv, TypeOK, Stop, repository, foreign, slots, Steps
  <1>2. PhaseIsSound' /\ MoveIsSeen' /\ SlotsAreSound'
    BY DEF IndInv, PhaseIsSound, MoveIsSeen, SlotsAreSound, Stop, repository, slots,
           Claiming, Claimed, Moved
  <1>3. ClaimsHold' /\ ObjectsAreDone'
    BY DEF ClaimsHold, ObjectsAreDone, HoldsRef, HoldsIndex, Holding, Stop, Claiming, Claimed, Moved
  <1>4. PublishedRefIsWhole' /\ RefMovesAtMostOnce' /\ LocksHaveOneOwner'
    BY DEF IndInv, PublishedRefIsWhole, RefMovesAtMostOnce, LocksHaveOneOwner, Whole,
           repository, foreign, slots
  <1> QED
    BY <1>1, <1>2, <1>3, <1>4 DEF IndInv

LEMMA EndStep ==
  ASSUME IndInv, VerifyComplete \/ Complete \/ Refuse \/ Crash PROVE IndInv'
  <1>1. /\ Stop
        /\ UNCHANGED <<repository, foreign, candidate, slots, granted, moves, removed>>
        /\ UNCHANGED <<attempts, metadata, tries, seeded, meddles>>
        /\ phase' = phase \/ (phase' = "complete" /\ pc = "terminal")
        /\ crashes' = crashes \/ (crashes < MaxCrashes /\ crashes' = crashes + 1)
    <2>1. CASE VerifyComplete
      BY <2>1 DEF VerifyComplete, At, journal, history
    <2>2. CASE Complete
      BY <2>2 DEF Complete, At, history
    <2>3. CASE Refuse
      BY <2>3 DEF Refuse, journal, history
    <2>4. CASE Crash
      BY <2>4 DEF Crash, journal
    <2> QED
      BY <2>1, <2>2, <2>3, <2>4
  <1>2. pc = "terminal" => phase # "none" /\ moves = 1 /\ Whole
    BY DEF IndInv, PhaseIsSound, MoveIsSeen, ObjectsAreDone, Moved
  <1>3. crashes' \in 0 .. MaxCrashes
    BY <1>1, BoundsAssumption DEF IndInv, TypeOK
  <1> QED
    BY <1>1, <1>2, <1>3, StopStep

(* The steps before the first claim                                          *)
LEMMA PreparationStep ==
  ASSUME IndInv, \/ Begin \/ Prepare \/ Build \/ Open \/ Stage \/ RecordSeeds
                 \/ PrepareMetadata \/ ReadHeadAndIndex
  PROVE  IndInv'
  <1>1. /\ UNCHANGED <<repository, foreign, tries, seeded, history, todo>>
        /\ pc' \in {"prepare", "open", "build", "stage", "record", "metadata", "verify", "read",
                    "claim_index"}
    BY DEF Begin, Prepare, Build, Open, Stage, RecordSeeds, PrepareMetadata, ReadHeadAndIndex,
           journal, run
  <1>2. TypeOK'
    <2>1. /\ candidate' \in {"absent", "created", "written"} /\ granted' \in BOOLEAN
          /\ metadata' \in BOOLEAN
          /\ phase' = phase \/ phase' = "seeds_recorded"
          /\ slots' = slots \/ (refSlot' = "seed" /\ indexSlot' = "seed")
      BY DEF IndInv, TypeOK, Begin, Prepare, Build, Open, Stage, RecordSeeds, PrepareMetadata,
         ReadHeadAndIndex, journal
    <2>2. attempts' = attempts \/ (attempts' = attempts + 1 /\ attempts < MaxAttempts)
      BY DEF Begin, Prepare, Build, Open, Stage, RecordSeeds, PrepareMetadata,
         ReadHeadAndIndex, journal, At, Permitted, AttemptsLeft
    <2>3. /\ seenRef' = seenRef \/ seenRef' \in {"parent", "commit"}
          /\ seenIndex' = seenIndex \/ seenIndex' \in {"original", "candidate"}
      BY DEF Begin, Prepare, Build, Open, Stage, RecordSeeds, PrepareMetadata,
         ReadHeadAndIndex, At, Permitted, run
    <2> QED
      BY <1>1, <2>1, <2>2, <2>3, BoundsAssumption
         DEF IndInv, TypeOK, repository, foreign, slots, history, Steps, Places
  <1>3. \/ pc # "record" /\ UNCHANGED <<phase, slots>>
        \/ pc = "record" /\ phase' = "seeds_recorded" /\ refSlot' = "seed" /\ indexSlot' = "seed"
    BY DEF Begin, Prepare, Build, Open, Stage, RecordSeeds, PrepareMetadata, ReadHeadAndIndex, At,
           journal
  <1>4. /\ pc' \in {"stage", "record"} => phase = "none" /\ pc # "record"
        /\ pc' \in {"metadata", "read", "claim_index"} => phase # "none" \/ pc = "record"
    <2>1. CASE Begin \/ Prepare \/ Build
      BY <2>1 DEF Begin, Prepare, Build
    <2>2. CASE Open
      <3>1. CASE phase = "none"
        BY <2>2, <3>1 DEF Open, At
      <3>2. CASE phase # "none"
        BY <2>2, <3>2 DEF Open, At
      <3> QED
        BY <3>1, <3>2
    <2>3. CASE Stage \/ RecordSeeds
      BY <2>3 DEF Stage, RecordSeeds, At, IndInv, PhaseIsSound
    <2>4. CASE PrepareMetadata \/ ReadHeadAndIndex
      BY <2>4 DEF PrepareMetadata, ReadHeadAndIndex, At, IndInv, PhaseIsSound
    <2> QED
      BY <2>1, <2>2, <2>3, <2>4
  <1>5. \/ UNCHANGED <<seenRef, seenIndex>> /\ pc' # "claim_index"
        \/ /\ pc' = "claim_index" /\ seenRef' = Head /\ seenIndex' = index
           /\ Head \in {"parent", "commit"} /\ index \in {"original", "candidate"}
           /\ UNCHANGED <<phase, slots>>
    BY DEF Begin, Prepare, Build, Open, Stage, RecordSeeds, PrepareMetadata, ReadHeadAndIndex, At,
           Permitted, run, journal
  <1>6. PhaseIsSound'
    BY <1>1, <1>3, <1>4, <1>5 DEF IndInv, PhaseIsSound, Claiming, Claimed, Moved, history
  <1>7. MoveIsSeen'
    BY <1>1, <1>5 DEF IndInv, MoveIsSeen, Moved, Head, OnBranch, repository, history
  <1>8. SlotsAreSound'
    BY <1>1, <1>3 DEF IndInv, SlotsAreSound, PhaseIsSound, repository, slots, history
  <1>9. ClaimsHold' /\ ObjectsAreDone'
    BY <1>1, <1>5 DEF ClaimsHold, ObjectsAreDone, HoldsRef, HoldsIndex, Holding, Claiming, Claimed,
       Moved, repository
  <1>10. PublishedRefIsWhole' /\ RefMovesAtMostOnce' /\ LocksHaveOneOwner'
    BY <1>1, <1>3 DEF IndInv, PublishedRefIsWhole, RefMovesAtMostOnce, LocksHaveOneOwner,
       repository, foreign, slots, history
  <1> QED
    BY <1>2, <1>6, <1>7, <1>8, <1>9, <1>10 DEF IndInv

(* The two claims and the check under them                                   *)
LEMMA ClaimStep ==
  ASSUME IndInv, ClaimIndex \/ ClaimRef \/ Recheck PROVE IndInv'
  <1>1. /\ UNCHANGED <<repository, foreign, candidate, journal, granted, history>>
        /\ UNCHANGED <<seenRef, seenIndex>>
        /\ todo' \in {todo, Objects}
        /\ \/ pc = "claim_index" /\ pc' = "claim_ref"
           \/ pc = "claim_ref" /\ pc' = "recheck"
           \/ pc = "recheck" /\ pc' = "objects" /\ todo' = Objects
    BY DEF ClaimIndex, ClaimRef, Recheck, At, run
  <1>2. /\ \/ refSlot' = refSlot
           \/ refSlot' = "lock" /\ refSlot \in {"seed", "lock"} /\ (refSlot = "lock" \/ ~refLock)
        /\ \/ indexSlot' = indexSlot
           \/ /\ indexSlot' = "lock" /\ indexSlot \in {"seed", "lock"}
              /\ indexSlot = "lock" \/ ~indexLock
        /\ pc = "claim_index" /\ seenIndex # "candidate" => indexSlot' = "lock"
        /\ pc = "claim_ref" /\ seenRef # "commit" => refSlot' = "lock"
        /\ pc # "claim_index" => indexSlot' = indexSlot
        /\ pc # "claim_ref" => refSlot' = refSlot
        /\ pc = "recheck" => seenRef = "commit" \/ CapturesOriginal
    <2>1. CASE ClaimIndex
      BY <2>1 DEF ClaimIndex, At, Permitted, CanClaim
    <2>2. CASE ClaimRef
      BY <2>2 DEF ClaimRef, At, Permitted, CanClaim
    <2>3. CASE Recheck
      BY <2>3 DEF Recheck, At, Permitted, slots
    <2> QED
      BY <2>1, <2>2, <2>3
  <1>3. /\ phase # "none" /\ seenRef \in {"parent", "commit"}
        /\ seenIndex \in {"original", "candidate"}
        /\ ~(refLock /\ refSlot = "lock") /\ ~(indexLock /\ indexSlot = "lock")
    BY <1>1 DEF IndInv, PhaseIsSound, Claiming, LocksHaveOneOwner
  <1>4. TypeOK'
    BY <1>1, <1>2 DEF IndInv, TypeOK, repository, foreign, journal, history, Steps, Places
  <1>5. PhaseIsSound'
    BY <1>1, <1>3 DEF IndInv, PhaseIsSound, journal, history
  <1>6. MoveIsSeen'
    BY <1>1 DEF IndInv, MoveIsSeen, Moved, repository, history
  <1>7. SlotsAreSound'
    BY <1>1, <1>2 DEF IndInv, SlotsAreSound, repository, journal, history
  <1>8. ClaimsHold'
    <2>1. CASE pc = "claim_index"
      BY <1>1, <1>2, <1>3, <2>1 DEF IndInv, ClaimsHold, MoveIsSeen, SlotsAreSound, HoldsRef,
         HoldsIndex, Holding, Claiming, Claimed, repository
    <2>2. CASE pc = "claim_ref"
      BY <1>1, <1>2, <1>3, <2>2 DEF IndInv, ClaimsHold, HoldsRef,
         HoldsIndex, Holding, Claiming, Claimed, repository
    <2>3. CASE pc = "recheck"
      BY <1>1, <1>2, <1>3, <2>3 DEF IndInv, ClaimsHold, HoldsRef, CapturesOriginal, Captures,
         HoldsIndex, Holding, Claiming, Claimed, repository
    <2> QED
      BY <1>1, <2>1, <2>2, <2>3
  <1>9. ObjectsAreDone'
    BY <1>1 DEF ObjectsAreDone, Moved, repository
  <1>10. PublishedRefIsWhole' /\ RefMovesAtMostOnce' /\ LocksHaveOneOwner'
    BY <1>1, <1>2, <1>3 DEF IndInv, PublishedRefIsWhole, RefMovesAtMostOnce, LocksHaveOneOwner,
       repository, foreign, journal, history
  <1> QED
    BY <1>4, <1>5, <1>6, <1>7, <1>8, <1>9, <1>10 DEF IndInv

(* The objects, one by one                                                   *)
LEMMA ObjectStep ==
  ASSUME IndInv, KeepObject \/ AttemptObject \/ SeedObject \/ PublishObject \/ RecordObjects
  PROVE  IndInv'
  <1>1. /\ UNCHANGED <<ref, head, index, worktree, foreign, candidate, attempts, metadata>>
        /\ UNCHANGED <<slots, granted, seenRef, seenIndex, history>>
        /\ pc \in {"objects", "seed"} /\ pc' \in {"objects", "seed", "publish_ref"}
        /\ phase' \in {phase, "objects_published"}
    BY DEF KeepObject, AttemptObject, SeedObject, PublishObject, RecordObjects, At,
       repository, journal, run
  <1>2. /\ pc = "objects" /\ todo # {} => NextObject \in todo /\ NextObject \in Objects
        /\ pc = "seed" => todo # {} /\ NextObject \in todo /\ NextObject \in Objects
    BY NextIsToDo DEF IndInv, ObjectsAreDone
  <1>3. /\ phase # "none" /\ seenRef \in {"parent", "commit"}
        /\ seenIndex \in {"original", "candidate"}
    BY <1>1 DEF IndInv, PhaseIsSound, Claimed
  <1>4. /\ store' \in [Objects -> {"absent", "same", "different"}]
        /\ \A o \in Objects : store[o] = "same" => store'[o] = "same"
        /\ todo' \subseteq todo
        /\ \A o \in todo \ todo' : store'[o] = "same"
    <2>1. CASE KeepObject
      BY <1>1, <1>2, <2>1 DEF KeepObject, IndInv, TypeOK, repository
    <2>2. CASE AttemptObject \/ SeedObject \/ RecordObjects
      BY <2>2 DEF AttemptObject, SeedObject, RecordObjects, IndInv, TypeOK, repository, run
    <2>3. CASE PublishObject
      BY <1>2, <2>3 DEF PublishObject, At, IndInv, TypeOK
    <2> QED
      BY <2>1, <2>2, <2>3
  <1>5. tries' \in [Objects -> 0 .. MaxAttempts] /\ seeded' \subseteq Objects
    <2>1. CASE AttemptObject
      <3>1. /\ pc = "objects" /\ todo # {} /\ CanPublish(NextObject)
            /\ store[NextObject] = "absent" /\ NextObject \notin seeded
            /\ tries' = [tries EXCEPT ![NextObject] = @ + 1] /\ seeded' = seeded
        BY <1>2, <2>1 DEF AttemptObject, At, Permitted
      <3>2. tries[NextObject] < MaxAttempts
        BY <3>1 DEF CanPublish
      <3> QED
        <4>1. tries[NextObject] + 1 \in 0 .. MaxAttempts
          <5>1. tries[NextObject] \in 0 .. MaxAttempts
            BY <1>2, <3>1 DEF IndInv, TypeOK
          <5> QED
            BY <3>2, <5>1, BoundsAssumption
        <4> QED
          BY <3>1, <4>1 DEF IndInv, TypeOK
    <2>2. CASE SeedObject
      BY <1>2, <2>2 DEF SeedObject, At, IndInv, TypeOK
    <2>3. CASE KeepObject \/ PublishObject \/ RecordObjects
      BY <2>3 DEF KeepObject, PublishObject, RecordObjects, journal, IndInv, TypeOK
    <2> QED
      BY <2>1, <2>2, <2>3
  <1>6. TypeOK'
    BY <1>1, <1>4, <1>5 DEF IndInv, TypeOK, foreign, slots, history, Steps
  <1>7. PhaseIsSound'
    BY <1>1, <1>3 DEF PhaseIsSound, history
  <1>8. MoveIsSeen' /\ SlotsAreSound'
    BY <1>1, <1>3 DEF IndInv, MoveIsSeen, SlotsAreSound, Moved, slots, history
  <1>9. ClaimsHold'
    BY <1>1 DEF IndInv, ClaimsHold, HoldsRef, HoldsIndex, Holding, Claiming, Claimed, slots
  <1>10. ObjectsAreDone'
    <2>1. \A o \in Objects \ todo' : store'[o] = "same"
      BY <1>1, <1>4 DEF IndInv, ObjectsAreDone
    <2>2. pc' = "seed" => todo' # {}
      BY DEF KeepObject, AttemptObject, SeedObject, PublishObject, RecordObjects, At, run
    <2>3. pc' = "publish_ref" => todo' = {}
      BY DEF KeepObject, AttemptObject, SeedObject, PublishObject, RecordObjects, At, run
    <2> QED
      BY <1>1, <2>1, <2>2, <2>3 DEF ObjectsAreDone, Whole, Moved
  <1>11. phase' = "objects_published" => \A o \in Objects : store'[o] = "same"
    <2>1. phase' = phase \/ todo = {}
      BY DEF KeepObject, AttemptObject, SeedObject, PublishObject, RecordObjects, journal
    <2> QED
      BY <1>1, <1>4, <2>1 DEF IndInv, PublishedRefIsWhole, ObjectsAreDone
  <1>12. PublishedRefIsWhole' /\ RefMovesAtMostOnce' /\ LocksHaveOneOwner'
    BY <1>1, <1>4, <1>11 DEF IndInv, PublishedRefIsWhole, RefMovesAtMostOnce, LocksHaveOneOwner,
       foreign, slots, history
  <1> QED
    BY <1>6, <1>7, <1>8, <1>9, <1>10, <1>12 DEF IndInv

(* The two renames onto live names, each of a file this run holds            *)
LEMMA RenameStep ==
  ASSUME IndInv, PublishRef \/ RecordRef \/ PublishIndex PROVE IndInv'
  <1>1. /\ UNCHANGED <<head, store, worktree, foreign, candidate, attempts, metadata>>
        /\ UNCHANGED <<tries, seeded, granted, seenRef, seenIndex, todo, removed, crashes, meddles>>
        /\ \/ /\ pc = "publish_ref" /\ pc' = "record_ref"
              /\ UNCHANGED <<phase, index, indexSlot>>
              /\ \/ seenRef = "commit" /\ UNCHANGED <<ref, refSlot, moves>>
                 \/ /\ seenRef # "commit"
                    /\ ref' = "commit" /\ refSlot' = "installed" /\ moves' = moves + 1
           \/ /\ pc = "record_ref" /\ pc' = "publish_index" /\ phase' = "ref_published"
              /\ UNCHANGED <<ref, index, slots, moves>>
           \/ /\ pc = "publish_index" /\ pc' = "terminal"
              /\ UNCHANGED <<phase, ref, refSlot, moves>>
              /\ \/ seenIndex = "candidate" /\ UNCHANGED <<index, indexSlot>>
                 \/ /\ seenIndex # "candidate"
                    /\ index' = "candidate" /\ indexSlot' = "installed"
    <2>1. CASE PublishRef
      BY <2>1 DEF PublishRef, At, journal, run
    <2>2. CASE RecordRef
      BY <2>2 DEF RecordRef, At, repository, run, history
    <2>3. CASE PublishIndex
      BY <2>3 DEF PublishIndex, At, journal, run, history
    <2> QED
      BY <2>1, <2>2, <2>3
  <1>2. /\ phase # "none" /\ Whole
        /\ seenRef \in {"parent", "commit"} /\ seenIndex \in {"original", "candidate"}
    BY <1>1 DEF IndInv, PhaseIsSound, ObjectsAreDone, Claimed, Moved
  <1>3. /\ moves \in {0, 1}
        /\ pc = "publish_ref" /\ seenRef # "commit" =>
             moves = 0 /\ seenIndex = "original" /\ indexSlot = "lock"
        /\ pc = "publish_ref" /\ seenRef = "commit" => moves = 1
        /\ pc # "publish_ref" => moves = 1
    <2>1. moves \in {0, 1}
      BY DEF IndInv, TypeOK, RefMovesAtMostOnce
    <2>2. pc = "publish_ref" /\ seenRef # "commit" => refSlot = "lock"
      BY <1>2 DEF IndInv, ClaimsHold, HoldsRef, Holding
    <2>3. pc = "publish_ref" /\ seenIndex = "original" => indexSlot = "lock"
      BY DEF IndInv, ClaimsHold, HoldsIndex, Holding
    <2> QED
      BY <1>1, <1>2, <2>1, <2>2, <2>3 DEF IndInv, SlotsAreSound, MoveIsSeen, Moved
  <1>4. TypeOK'
    <2>1. moves' \in Nat
      BY <1>1, <1>3 DEF slots
    <2> QED
      BY <1>1, <2>1 DEF IndInv, TypeOK, foreign, slots, Steps, Places
  <1>5. PhaseIsSound' /\ MoveIsSeen' /\ RefMovesAtMostOnce'
    BY <1>1, <1>2, <1>3
       DEF IndInv, PhaseIsSound, MoveIsSeen, RefMovesAtMostOnce, Claiming, Claimed, Moved
  <1>6. SlotsAreSound'
    BY <1>1, <1>2, <1>3 DEF IndInv, SlotsAreSound, slots
  <1>7. ClaimsHold'
    BY <1>1, <1>2, <1>3
       DEF IndInv, ClaimsHold, HoldsRef, HoldsIndex, Holding, Claiming, Claimed, slots
  <1>8. ObjectsAreDone' /\ PublishedRefIsWhole'
    BY <1>1, <1>2, <1>3 DEF IndInv, ObjectsAreDone, PublishedRefIsWhole, Whole, Moved
  <1>9. LocksHaveOneOwner'
    BY <1>1 DEF IndInv, LocksHaveOneOwner, foreign, slots
  <1> QED
    BY <1>4, <1>5, <1>6, <1>7, <1>8, <1>9 DEF IndInv

(* Other programs: they take a lock nobody has, write only under a lock of   *)
(* their own, and never the commit.                                          *)
LEMMA OthersStep ==
  ASSUME IndInv, Others PROVE IndInv'
  <1>1. /\ UNCHANGED <<candidate, journal, granted, pc, run, moves, crashes>>
        /\ meddles' \in 0 .. MaxMeddles
    BY BoundsAssumption
       DEF Others, GitLocksIndex, GitLocksRef, GitSwitchesHead, UserEdits, UserRemovesRefLock,
           UserRemovesIndexLock, GitWritesIndex, GitWritesRef, GitWritesObject, Meddle, IndInv,
           TypeOK
  <1>2. /\ \/ ref' = ref /\ refSlot' = refSlot
           \/ /\ refLock /\ ref' \in {"parent", "other"}
              /\ refSlot' = IF refSlot = "installed" THEN "gone" ELSE refSlot
           \/ ref' = ref /\ refSlot = "lock" /\ ~HoldsRef /\ refSlot' = "gone" /\ removed'
        /\ \/ index' = index /\ indexSlot' = indexSlot
           \/ /\ indexLock /\ index' \in {"original", "other"}
              /\ indexSlot' = IF indexSlot = "installed" THEN "gone" ELSE indexSlot
           \/ index' = index /\ indexSlot = "lock" /\ ~HoldsIndex /\ indexSlot' = "gone" /\ removed'
        /\ removed' = removed \/ removed' = TRUE
    BY DEF Others, GitLocksIndex, GitLocksRef, GitSwitchesHead, UserEdits, UserRemovesRefLock,
       UserRemovesIndexLock, GitWritesIndex, GitWritesRef, GitWritesObject, repository, slots
  <1>3. /\ head' = head \/ head' \in {ref, "other", "branch"}
        /\ worktree' \in {"reviewed", "edited"}
    BY DEF Others, GitLocksIndex, GitLocksRef, GitSwitchesHead, UserEdits, UserRemovesRefLock,
       UserRemovesIndexLock, GitWritesIndex, GitWritesRef, GitWritesObject, repository, IndInv, TypeOK
  <1>4. /\ store' \in [Objects -> {"absent", "same", "different"}]
        /\ \A o \in Objects : store[o] = "same" => store'[o] = "same"
    BY DEF Others, GitLocksIndex, GitLocksRef, GitSwitchesHead, UserEdits, UserRemovesRefLock,
       UserRemovesIndexLock, GitWritesIndex, GitWritesRef, GitWritesObject, repository, IndInv, TypeOK
  <1>5. /\ refLock' \in BOOLEAN /\ indexLock' \in BOOLEAN
        /\ refLock' => refLock \/ refSlot # "lock"
        /\ refLock' /\ refSlot' = "lock" => refSlot = "lock"
        /\ indexLock' => indexLock \/ indexSlot # "lock"
        /\ indexLock' /\ indexSlot' = "lock" => indexSlot = "lock"
    <2>1. CASE \/ GitSwitchesHead \/ UserEdits \/ UserRemovesRefLock \/ UserRemovesIndexLock
               \/ \E o \in Objects : GitWritesObject(o)
      <3>1. refLock' = refLock /\ indexLock' = indexLock
        BY <2>1 DEF GitSwitchesHead, UserEdits, UserRemovesRefLock, UserRemovesIndexLock,
           GitWritesObject, foreign
      <3> QED
        BY <1>2, <3>1 DEF IndInv, TypeOK
    <2>2. CASE GitLocksIndex
      BY <2>2 DEF GitLocksIndex, slots, IndInv, TypeOK
    <2>3. CASE GitLocksRef
      BY <2>3 DEF GitLocksRef, slots, IndInv, TypeOK
    <2>4. CASE \E content \in {"original", "other"} : GitWritesIndex(content)
      <3>1. /\ indexLock' = FALSE /\ refLock' = refLock /\ refSlot' = refSlot
        BY <2>4 DEF GitWritesIndex
      <3> QED
        BY <3>1 DEF IndInv, TypeOK
    <2>5. CASE \E content \in {"parent", "other"} : GitWritesRef(content)
      <3>1. /\ refLock' = FALSE /\ indexLock' = indexLock /\ indexSlot' = indexSlot
        BY <2>5 DEF GitWritesRef
      <3> QED
        BY <3>1 DEF IndInv, TypeOK
    <2> QED
      BY <2>1, <2>2, <2>3, <2>4, <2>5 DEF Others
  <1>6. TypeOK'
    <2>1. ref' \in {"parent", "commit", "other"} /\ index' \in {"original", "candidate", "other"}
      BY <1>2 DEF IndInv, TypeOK
    <2>2. refSlot' \in Places /\ indexSlot' \in Places
      BY <1>2 DEF IndInv, TypeOK, Places
    <2>3. head' \in {"branch", "parent", "commit", "other"} /\ removed' \in BOOLEAN
      BY <1>2, <1>3 DEF IndInv, TypeOK
    <2> QED
      BY <1>1, <1>3, <1>4, <1>5, <2>1, <2>2, <2>3 DEF IndInv, TypeOK, journal, run
  <1>7. PhaseIsSound' /\ RefMovesAtMostOnce'
    BY <1>1 DEF IndInv, PhaseIsSound, RefMovesAtMostOnce, journal, run
  <1>8. MoveIsSeen'
    BY <1>1, <1>2, <1>3 DEF IndInv, MoveIsSeen, run
  <1>9. SlotsAreSound'
    BY <1>1, <1>2 DEF IndInv, SlotsAreSound, TypeOK, RefMovesAtMostOnce, journal
  <1>10. LocksHaveOneOwner'
    BY <1>5 DEF IndInv, LocksHaveOneOwner
  <1>11. ClaimsHold'
    BY <1>1, <1>2 DEF IndInv, ClaimsHold, LocksHaveOneOwner, HoldsRef, HoldsIndex, Holding,
       Claiming, Claimed, run
  <1>12. ObjectsAreDone' /\ PublishedRefIsWhole'
    BY <1>1, <1>2, <1>4 DEF IndInv, ObjectsAreDone, PublishedRefIsWhole, Whole, TypeOK, run, journal
  <1> QED
    BY <1>6, <1>7, <1>8, <1>9, <1>10, <1>11, <1>12 DEF IndInv

LEMMA NextIndInv == IndInv /\ [Next]_vars => IndInv'
  <1> SUFFICES ASSUME IndInv, [Next]_vars PROVE IndInv'
    OBVIOUS
  <1>1. CASE UNCHANGED vars
    BY <1>1 DEF vars, repository, foreign, journal, slots, run, history, IndInv, TypeOK,
       PhaseIsSound, MoveIsSeen, SlotsAreSound, ClaimsHold, HoldsRef, HoldsIndex, ObjectsAreDone,
       Whole, PublishedRefIsWhole, RefMovesAtMostOnce, LocksHaveOneOwner
  <1>2. CASE Next
    BY <1>2, EndStep, PreparationStep, ClaimStep, ObjectStep, RenameStep, OthersStep
       DEF Next, Advance
  <1> QED
    BY <1>1, <1>2

(* IndInv holds in every state that worker, Git and user can reach.          *)
THEOREM Invariance == Spec => []IndInv
  BY InitIndInv, NextIndInv, PTL DEF Spec

(* The variables keep their types: no attempt passes its limit.              *)
THEOREM TypeCorrect == Spec => []TypeOK
  <1>1. IndInv => TypeOK
    BY DEF IndInv
  <1> QED
    BY <1>1, Invariance, PTL

(* The branch never names a commit whose objects are not all in the store.   *)
THEOREM RefSafe == Spec => []PublishedRefIsWhole
  <1>1. IndInv => PublishedRefIsWhole
    BY DEF IndInv
  <1> QED
    BY <1>1, Invariance, PTL

(* The worker moves the branch at most once.                                 *)
THEOREM MoveSafe == Spec => []RefMovesAtMostOnce
  <1>1. IndInv => RefMovesAtMostOnce
    BY DEF IndInv
  <1> QED
    BY <1>1, Invariance, PTL

(* A standard Git lock never has two owners.                                 *)
THEOREM LocksSafe == Spec => []LocksHaveOneOwner
  <1>1. IndInv => LocksHaveOneOwner
    BY DEF IndInv
  <1> QED
    BY <1>1, Invariance, PTL

(* Between the move of the branch and that of the index, the candidate's     *)
(* index.lock is in place unless a user removed a lock, and before the move  *)
(* the staged files are.  The ref's lock has become the branch by then.      *)
THEOREM HalvesSafe == Spec => []HalfPublicationIsLocked
  <1>1. IndInv => HalfPublicationIsLocked
    BY DEF IndInv, HalfPublicationIsLocked, SlotsAreSound, MoveIsSeen
  <1> QED
    BY <1>1, Invariance, PTL

(* The worker replaces only the reviewed ref and the reviewed index, and     *)
(* neither while another program has its lock.                               *)
THEOREM ReplacementsSafe == Spec => ReplacesOnlyReviewed
  <1> DEFINE Replaces == WorkerStep => /\ ref' # ref => ref = "parent" /\ ~refLock
                                       /\ index' # index => index = "original" /\ ~indexLock
  <1>1. IndInv /\ [Next]_vars => [Replaces]_vars
    <2> SUFFICES ASSUME IndInv, Next, pc' # pc
                 PROVE  /\ ref' # ref => ref = "parent" /\ ~refLock
                        /\ index' # index => index = "original" /\ ~indexLock
      BY DEF WorkerStep
    <2>1. CASE PublishRef
      <3>1. /\ pc = "publish_ref" /\ index' = index /\ (seenRef = "commit" => ref' = ref)
        BY <2>1 DEF PublishRef, At
      <3>2. seenRef # "commit" => seenRef = "parent"
        BY <3>1 DEF IndInv, PhaseIsSound, Claimed
      <3> QED
        BY <3>1, <3>2 DEF IndInv, ClaimsHold, HoldsRef, Holding, Claimed, LocksHaveOneOwner
    <2>2. CASE PublishIndex
      <3>1. /\ pc = "publish_index" /\ ref' = ref /\ (seenIndex = "candidate" => index' = index)
        BY <2>2 DEF PublishIndex, At
      <3>2. seenIndex # "candidate" => seenIndex = "original"
        BY <3>1 DEF IndInv, PhaseIsSound, Moved
      <3> QED
        BY <3>1, <3>2 DEF IndInv, ClaimsHold, HoldsIndex, Holding, LocksHaveOneOwner
    <2>3. CASE Others
      <3>1. pc' = pc
        BY <2>3 DEF Others, GitLocksIndex, GitLocksRef, GitSwitchesHead, UserEdits,
           UserRemovesRefLock, UserRemovesIndexLock, GitWritesIndex, GitWritesRef,
           GitWritesObject, Meddle
      <3> QED
        BY <3>1
    <2>4. CASE \/ Begin \/ Prepare \/ Build \/ Open \/ Stage \/ RecordSeeds \/ PrepareMetadata
               \/ VerifyComplete \/ ReadHeadAndIndex \/ ClaimIndex \/ ClaimRef \/ Recheck
               \/ KeepObject \/ AttemptObject \/ SeedObject \/ PublishObject \/ RecordObjects
               \/ RecordRef \/ Complete \/ Refuse \/ Crash
      <3>1. ref' = ref /\ index' = index
        BY <2>4 DEF Begin, Prepare, Build, Open, Stage, RecordSeeds, PrepareMetadata,
           VerifyComplete, ReadHeadAndIndex, ClaimIndex, ClaimRef, Recheck, KeepObject,
           AttemptObject, SeedObject, PublishObject, RecordObjects, RecordRef, Complete, Refuse,
           Crash, repository
      <3> QED
        BY <3>1
    <2> QED
      BY <2>1, <2>2, <2>3, <2>4 DEF Next, Advance
  <1> QED
    BY <1>1, Invariance, PTL DEF Spec, ReplacesOnlyReviewed
=============================================================================
