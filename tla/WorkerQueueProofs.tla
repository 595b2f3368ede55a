------------------------- MODULE WorkerQueueProofs -------------------------
(* Proofs about WorkerQueue for every set of requests and every capacity:    *)
(* its types, and that a published answer tells the truth whatever died on   *)
(* the way.                                                                  *)
EXTENDS WorkerQueue, WellFoundedInduction, TLAPS

EffectOf(i) == IF i \in Recoveries THEN Original(i) ELSE i

Steps == Working \cup {"idle", "scan", "reply", "consume"}
Verdicts == {"applied", "done", "failed"}

RunRecords ==
    [at : Steps, name : Ids \cup {None}, bytes : {"none", "own", "other"},
     of : Effects \cup {None}, granted : BOOLEAN, verdict : {"none"} \cup Verdicts]

(* TypeOK, with what a step of a run may expect of its request               *)
Types ==
    /\ uploads \subseteq Ids
    /\ packet \in [Ids -> {"none", "own", "other"}]
    /\ result \in [Ids -> [bytes : {"own", "other"}, verdict : Verdicts] \cup {None}]
    /\ ledger \in [Effects -> {"none", "open", "applied", "done"}]
    /\ pending \in Transitions \cup {None}
    /\ archive \subseteq Commits \cup Recoveries
    /\ candidate \in [Commits -> {"none", "partial", "whole"}]
    /\ tip \in {Parent, Other} \cup Commits /\ half \in Commits \cup {None}
    /\ sender \in [Ids -> {"new", "uploading", "over"}]
    /\ batch \subseteq Ids /\ count \in 0 .. MaxPerCycle
    /\ expired \subseteq Ids
    /\ run \in RunRecords

RunIsTyped ==
    /\ run.at \in Working \cup {"reply", "consume"} =>
          /\ me \in Ids /\ effect = EffectOf(me) /\ run.bytes # "none"
    /\ run.at \in Working => run.bytes = "own"
    /\ run.at \in Working \cup {"reply"} => count < MaxPerCycle
    /\ run.at = "reply" => run.verdict \in Verdicts

(* A journaled transition continues the ledger: an intent for a new commit,  *)
(* a state mutation at once, and a result only for an intent.                *)
LedgerIsSound ==
    /\ \A s \in States : ledger[s] \in {"none", "applied"}
    /\ \A c \in Commits : ledger[c] \in {"none", "open", "done"}
    /\ pending # None =>
         LET old == ledger[pending.of] IN
         /\ pending.of \in States => pending.to = "applied"
         /\ pending.of \in Commits =>
              \/ pending.to = "open" /\ old = "none"
              \/ pending.to = "done" /\ old # "none"

OnRecord(c) == Recovered[c] \in {"open", "done"}

(* What each step of a request has established                               *)
RunIsSound ==
    /\ At("retain") => effect \in Commits
    /\ At("nested") => effect \in Commits
    /\ run.at \in {"nested", "accept"} /\ effect \in Commits => effect \in archive
    /\ At("accepting") =>
         pending = [of |-> effect, to |-> IF effect \in Commits THEN "open" ELSE "applied"]
    /\ run.at \in {"prepare", "build", "publish", "move", "record", "recording"} =>
         effect \in Commits /\ OnRecord(effect)
    /\ At("recording") => pending = [of |-> effect, to |-> "done"]
    /\ At("reply") /\ run.verdict # "failed" =>
         run.bytes = "own" /\ ledger[effect] = run.verdict

IndInv ==
    /\ Types
    /\ RunIsTyped
    /\ LedgerIsSound
    /\ RunIsSound
    /\ AnswersAreTrue

----------------------------------------------------------------------------
LEMMA NotLess == \A x, y \in Nat : <<y, x>> \notin OpToRel(<, Nat) => x <= y
  BY DEF OpToRel

(* The next name of a batch is one of it.                                    *)
LEMMA NextIsInBatch ==
  ASSUME Types, batch # {} PROVE Next1 \in batch /\ Next1 \in Ids
  <1>1. batch \subseteq Nat
    BY ConstantsAssumption DEF Types
  <1>2. PICK x \in batch : \A y \in batch : <<y, x>> \notin OpToRel(<, Nat)
    BY <1>1, WFMin, NatLessThanWellFounded
  <1>3. \A y \in batch : x <= y
    BY <1>1, <1>2, NotLess, Zenon
  <1> QED
    BY <1>3 DEF Next1, Min, Types

LEMMA EffectType == \A i \in Ids : EffectOf(i) \in Effects
  BY ConstantsAssumption DEF EffectOf, Ids, Effects

(* Completing the journal keeps the kinds of entries, and forgets nothing.   *)
LEMMA RecoveredFacts ==
  ASSUME IndInv
  PROVE  /\ Recovered \in [Effects -> {"none", "open", "applied", "done"}]
         /\ \A s \in States : Recovered[s] \in {"none", "applied"}
         /\ \A c \in Commits : Recovered[c] \in {"none", "open", "done"}
         /\ \A e \in Effects :
              /\ ledger[e] # "none" => Recovered[e] # "none"
              /\ ledger[e] \in {"applied", "done"} => Recovered[e] = ledger[e]
  <1>1. CASE pending = None
    BY <1>1 DEF IndInv, Types, LedgerIsSound, Recovered
  <1>2. CASE pending # None
    <2>1. /\ pending.of \in Effects /\ pending.to \in {"open", "applied", "done"}
          /\ Recovered = [ledger EXCEPT ![pending.of] = pending.to]
      BY <1>2 DEF IndInv, Types, Transitions, Recovered
    <2> QED
      BY <1>2, <2>1, ConstantsAssumption DEF IndInv, Types, LedgerIsSound, Effects
  <1> QED
    BY <1>1, <1>2

LEMMA InitIndInv == Init => IndInv
  <1> SUFFICES ASSUME Init PROVE IndInv
    OBVIOUS
  <1>1. PICK legacy \in SUBSET Commits :
          /\ ledger = [e \in Effects |-> IF e \in legacy THEN "open" ELSE "none"]
          /\ candidate = [c \in Commits |-> IF c \in legacy THEN "whole" ELSE "none"]
          /\ sender = [i \in Ids |-> IF i \in legacy THEN "over" ELSE "new"]
    BY DEF Init
  <1>2. Types
    BY <1>1, ConstantsAssumption DEF Init, Types, RunRecords, Steps, Idle
  <1>3. RunIsTyped /\ RunIsSound
    BY DEF Init, RunIsTyped, RunIsSound, Idle, At, Working
  <1>4. LedgerIsSound
    BY <1>1, ConstantsAssumption DEF Init, LedgerIsSound, Effects
  <1>5. AnswersAreTrue
    BY <1>1, ConstantsAssumption DEF Init, AnswersAreTrue, Answered, Recovered, Ids, Effects
  <1> QED
    BY <1>2, <1>3, <1>4, <1>5 DEF IndInv

----------------------------------------------------------------------------
(* Steps that leave the ledger and its journal alone.  Evidence is only      *)
(* added, an answer agrees with the ledger, and the branch moves for a       *)
(* commit on record.                                                         *)
LEMMA SameBookStep ==
  ASSUME IndInv, UNCHANGED book, Types', RunIsTyped', RunIsSound',
         archive \subseteq archive',
         \A c \in Commits : candidate[c] = "whole" => candidate'[c] = "whole",
         \A c \in Commits : c \in {tip', half'} => c \in {tip, half} \/ OnRecord(c),
         \A i \in Ids : \/ result'[i] = result[i]
                        \/ result'[i].verdict # "failed" =>
                             result'[i].bytes = "own" /\ ledger[EffectOf(i)] = result'[i].verdict
  PROVE  IndInv'
  <1>1. ledger' = ledger /\ pending' = pending /\ Recovered' = Recovered
    BY DEF book, Recovered
  <1>2. LedgerIsSound'
    BY <1>1 DEF IndInv, LedgerIsSound
  <1>3. AnswersAreTrue'
    BY <1>1 DEF IndInv, AnswersAreTrue, Answered, EffectOf, OnRecord
  <1> QED
    BY <1>2, <1>3 DEF IndInv

(* What happens outside the worker                                           *)
LEMMA OutsideStep ==
  ASSUME IndInv,
         \/ \E i \in Ids : Upload(i) \/ Enqueue(i) \/ ClientDies(i) \/ Intrude(i)
         \/ TimePasses \/ UserEdits \/ UserCommits \/ Maintain
  PROVE  IndInv'
  <1>1. /\ UNCHANGED <<result, book, evidence, half, batch, count, run>>
        /\ UNCHANGED tip \/ tip' = Other
    BY DEF Upload, Enqueue, ClientDies, Intrude, TimePasses, UserEdits, UserCommits, Maintain,
       Meddle, repository, cycle, evidence, book
  <1>2. /\ uploads' \subseteq Ids /\ expired' \subseteq Ids
        /\ packet' \in [Ids -> {"none", "own", "other"}]
        /\ sender' \in [Ids -> {"new", "uploading", "over"}]
    BY DEF IndInv, Types, Upload, Enqueue, ClientDies, Intrude, TimePasses, UserEdits,
       UserCommits, Maintain, Meddle, queue, world
  <1>3. Types'
    BY <1>1, <1>2 DEF IndInv, Types, book, evidence
  <1>4. RunIsTyped'
    BY <1>1 DEF IndInv, RunIsTyped, me, effect
  <1>5. Recovered' = Recovered
    BY <1>1 DEF Recovered, book
  <1>6. RunIsSound'
    BY <1>1, <1>5 DEF IndInv, RunIsSound, OnRecord, At, me, effect, book, evidence
  <1> QED
    BY <1>1, <1>3, <1>4, <1>6, SameBookStep, ConstantsAssumption DEF evidence, Ids

----------------------------------------------------------------------------
(* The worker between two requests                                           *)

LEMMA BetweenRequestsStep ==
  ASSUME IndInv,
         \/ Cycle \/ EndCycle \/ CleanAnswered \/ Vanished \/ Consume
         \/ Defer \/ WriteFails \/ ConsumeFails \/ WorkerDies
  PROVE  IndInv'
  <1>1. Idle \in RunRecords /\ [Idle EXCEPT !.at = "scan"] \in RunRecords
        /\ [Idle EXCEPT !.at = "scan"].at = "scan" /\ Idle.at = "idle"
    BY DEF Idle, RunRecords, Steps
  <1>2. run' \in RunRecords /\ run'.at \in {"idle", "scan"}
    BY <1>1 DEF Cycle, EndCycle, CleanAnswered, Vanished, Consume, Defer, WriteFails, ConsumeFails,
       WorkerDies, Go, Scanning, At, IndInv, Types, RunRecords, Steps
  <1>3. UNCHANGED <<uploads, result, book, evidence, repository, sender, world>>
    BY DEF Cycle, EndCycle, CleanAnswered, Vanished, Consume, Defer, WriteFails, ConsumeFails,
       WorkerDies, queue
  <1>4. packet' \in [Ids -> {"none", "own", "other"}]
    BY DEF Cycle, EndCycle, CleanAnswered, Vanished, Consume, Defer, WriteFails, ConsumeFails,
       WorkerDies, queue, IndInv, Types
  <1>5. batch' \subseteq Ids /\ count' \in 0 .. MaxPerCycle
    BY ConstantsAssumption DEF Cycle, EndCycle, CleanAnswered, Vanished, Consume, Defer, WriteFails,
       ConsumeFails, WorkerDies, cycle, IndInv, Types
  <1>6. Types'
    BY <1>2, <1>3, <1>4, <1>5 DEF IndInv, Types, book, evidence, repository, world
  <1>7. RunIsTyped' /\ RunIsSound'
    BY <1>2 DEF RunIsTyped, RunIsSound, At, Working
  <1> QED
    BY <1>3, <1>6, <1>7, SameBookStep DEF evidence, repository

LEMMA TakeStep ==
  ASSUME IndInv, Take PROVE IndInv'
  <1> DEFINE i == Next1
             started == [Idle EXCEPT !.name = i, !.bytes = packet[i],
                                     !.of = IF i \in Recoveries THEN Original(i) ELSE i]
  <1>1. /\ batch # {} /\ count < MaxPerCycle /\ packet[i] # "none"
        /\ run' = IF packet[i] = "own" THEN [started EXCEPT !.at = "process"]
                  ELSE [started EXCEPT !.at = "reply", !.verdict = "failed"]
        /\ batch' = batch \ {i}
        /\ UNCHANGED <<queue, result, book, evidence, repository, sender, count, world, faults>>
    BY DEF Take, Scanning
  <1>2. i \in Ids /\ EffectOf(i) \in Effects /\ packet[i] \in {"own", "other"}
    BY <1>1, NextIsInBatch, EffectType DEF IndInv, Types
  <1>3. /\ run' \in RunRecords /\ run'.name = i /\ run'.of = EffectOf(i)
        /\ run'.bytes = packet[i]
        /\ IF packet[i] = "own" THEN run'.at = "process"
           ELSE run'.at = "reply" /\ run'.verdict = "failed"
    BY <1>1, <1>2 DEF EffectOf, Idle, RunRecords, Steps, Working, Verdicts
  <1>4. Types'
    BY <1>1, <1>3 DEF IndInv, Types, queue, book, evidence, repository, world
  <1>5. RunIsTyped'
    BY <1>1, <1>2, <1>3 DEF RunIsTyped, Working, Verdicts, me, effect
  <1>6. RunIsSound'
    BY <1>3 DEF RunIsSound, At
  <1> QED
    BY <1>1, <1>4, <1>5, <1>6, SameBookStep DEF evidence, repository

LEMMA WriteResultStep ==
  ASSUME IndInv, WriteResult PROVE IndInv'
  <1> DEFINE answer == [bytes |-> run.bytes, verdict |-> run.verdict]
  <1>1. /\ run.at = "reply" /\ result' = [result EXCEPT ![me] = answer]
        /\ count' = count + 1 /\ run' = [run EXCEPT !.at = "consume"]
        /\ UNCHANGED <<queue, book, evidence, repository, sender, batch, world, faults>>
    BY DEF WriteResult, At, Go
  <1>2. /\ me \in Ids /\ effect = EffectOf(me) /\ run.bytes # "none" /\ count < MaxPerCycle
        /\ run.verdict \in Verdicts
    BY <1>1 DEF IndInv, RunIsTyped
  <1>3. answer \in [bytes : {"own", "other"}, verdict : Verdicts]
    BY <1>2 DEF IndInv, Types, RunRecords
  <1>4. /\ result'[me] = answer /\ \A i \in Ids : i # me => result'[i] = result[i]
        /\ result' \in [Ids -> [bytes : {"own", "other"}, verdict : Verdicts] \cup {None}]
    BY <1>1, <1>2, <1>3 DEF IndInv, Types
  <1>5. /\ run' \in RunRecords /\ run'.at = "consume" /\ run'.name = run.name
        /\ run'.of = run.of /\ run'.bytes = run.bytes
    BY <1>1 DEF IndInv, Types, RunRecords, Steps
  <1>6. count' \in 0 .. MaxPerCycle
    BY <1>1, <1>2, ConstantsAssumption DEF IndInv, Types
  <1>7. Types'
    BY <1>1, <1>4, <1>5, <1>6 DEF IndInv, Types, queue, book, evidence, repository, world
  <1>8. RunIsTyped' /\ RunIsSound'
    BY <1>2, <1>5 DEF RunIsTyped, RunIsSound, At, Working, me, effect
  <1>9. run.verdict # "failed" => run.bytes = "own" /\ ledger[EffectOf(me)] = run.verdict
    BY <1>1, <1>2 DEF IndInv, RunIsSound, At
  <1> QED
    BY <1>1, <1>4, <1>7, <1>8, <1>9, SameBookStep DEF evidence, repository

----------------------------------------------------------------------------
(* The worker in a request                                                   *)

(* The run goes on at another step, or has a verdict.                        *)
Continues == \/ \E step \in Working : Go(step)
             \/ run' = [run EXCEPT !.at = "prepare", !.granted = TRUE]
             \/ \E verdict \in Verdicts : Reply(verdict)

LEMMA ContinuesFacts ==
  ASSUME IndInv, run.at \in Working, Continues
  PROVE  /\ run' \in RunRecords /\ run'.at \in Working \cup {"reply"}
         /\ run'.name = run.name /\ run'.of = run.of /\ run'.bytes = "own"
         /\ me \in Ids /\ effect = EffectOf(me) /\ effect \in Effects
  <1>1. run \in RunRecords /\ me \in Ids /\ effect = EffectOf(me) /\ run.bytes = "own"
    BY DEF IndInv, Types, RunIsTyped
  <1>2. ASSUME NEW step \in Working, Go(step)
        PROVE  /\ run' \in RunRecords /\ run'.at = step
               /\ run'.name = run.name /\ run'.of = run.of /\ run'.bytes = run.bytes
    BY <1>1, <1>2 DEF Go, RunRecords, Steps
  <1>3. ASSUME NEW verdict \in Verdicts, Reply(verdict)
        PROVE  /\ run' \in RunRecords /\ run'.at = "reply"
               /\ run'.name = run.name /\ run'.of = run.of /\ run'.bytes = run.bytes
    BY <1>1, <1>3 DEF Reply, RunRecords, Steps
  <1>4. ASSUME run' = [run EXCEPT !.at = "prepare", !.granted = TRUE]
        PROVE  /\ run' \in RunRecords /\ run'.at = "prepare"
               /\ run'.name = run.name /\ run'.of = run.of /\ run'.bytes = run.bytes
    BY <1>1, <1>4 DEF RunRecords, Steps, Working
  <1> QED
    BY <1>1, <1>2, <1>3, <1>4, EffectType DEF Continues, Working

LEMMA ContinuesTyped ==
  ASSUME IndInv, run.at \in Working, Continues, UNCHANGED count
  PROVE  RunIsTyped'
  <1>1. run'.at = "reply" => run'.verdict \in Verdicts
    BY DEF IndInv, Types, RunRecords, Continues, Go, Reply, Working
  <1> QED
    BY <1>1, ContinuesFacts DEF IndInv, RunIsTyped, Working, me, effect

(* A step of a request that leaves the ledger alone: what it must establish  *)
(* is what the next step, or the verdict, relies on.                         *)
LEMMA WorkStep ==
  ASSUME IndInv, run.at \in Working, Continues,
         UNCHANGED <<uploads, packet, result, ledger, pending, sender, batch, count, expired>>,
         archive' \subseteq Commits \cup Recoveries, archive \subseteq archive',
         candidate' \in [Commits -> {"none", "partial", "whole"}],
         \A c \in Commits : candidate[c] = "whole" => candidate'[c] = "whole",
         tip' \in {Parent, Other} \cup Commits, half' \in Commits \cup {None},
         \A c \in Commits : c \in {tip', half'} => c \in {tip, half} \/ OnRecord(c),
         RunIsSound'
  PROVE  IndInv'
  <1>1. Types'
    BY ContinuesFacts DEF IndInv, Types
  <1>2. RunIsTyped'
    BY ContinuesTyped
  <1> QED
    BY <1>1, <1>2, SameBookStep DEF book

LEMMA ProcessOwnStep ==
  ASSUME IndInv, ProcessOwn PROVE IndInv'
  <1>1. /\ run.at = "process" /\ me \notin Recoveries
        /\ UNCHANGED <<queue, result, book, evidence, repository, sender, cycle, world, faults>>
    BY DEF ProcessOwn, At
  <1>2. me \in Ids /\ effect = me /\ me \in Effects /\ run.bytes = "own"
    BY <1>1 DEF IndInv, RunIsTyped, Working, EffectOf, Ids, Effects
  <1>3. Continues
    BY <1>2 DEF ProcessOwn, Continues, Settled, Working, Verdicts
  <1>4. RunIsSound'
    <2>1. Recovered' = Recovered /\ run'.of = run.of /\ run'.bytes = "own"
      BY <1>1, <1>3, ContinuesFacts DEF book, Recovered, Working
    <2>2. \/ run'.at = "reply" /\ run'.verdict = "failed"
          \/ run'.at = "reply" /\ run'.verdict = ledger[me]
          \/ run'.at = "retain" /\ me \in Commits
          \/ run'.at = "accept" /\ me \notin Commits
      BY DEF ProcessOwn, Reply, Go, IndInv, Types, RunRecords
    <2> QED
      BY <1>1, <1>2, <2>1, <2>2 DEF RunIsSound, At, me, effect, book
  <1> QED
    BY <1>1, <1>3, <1>4, WorkStep
       DEF Working, queue, book, evidence, repository, cycle, world, IndInv, Types

LEMMA ProcessRecoveryStep ==
  ASSUME IndInv, ProcessRecovery PROVE IndInv'
  <1>1. /\ run.at = "process" /\ me \in Recoveries
        /\ UNCHANGED <<queue, result, book, evidence, repository, sender, cycle, world, faults>>
    BY DEF ProcessRecovery, At
  <1>2. effect \in Commits
    BY <1>1, ConstantsAssumption DEF IndInv, RunIsTyped, Working, EffectOf
  <1>3. Continues
    BY DEF ProcessRecovery, Continues, Working, Verdicts
  <1>4. RunIsSound'
    <2>1. \/ run'.at = "reply" /\ run'.verdict = "failed" /\ run'.of = run.of
          \/ run'.at = "retain" /\ run'.of = run.of
      BY DEF ProcessRecovery, Reply, Go, IndInv, Types, RunRecords
    <2> QED
      BY <1>2, <2>1 DEF RunIsSound, At, effect
  <1> QED
    BY <1>1, <1>3, <1>4, WorkStep
       DEF Working, queue, book, evidence, repository, cycle, world, IndInv, Types

LEMMA RetainStep ==
  ASSUME IndInv, Retain PROVE IndInv'
  <1>1. /\ run.at = "retain" /\ archive' = archive \cup {me}
        /\ UNCHANGED <<queue, result, book, candidate, repository, sender, cycle, world, faults>>
    BY DEF Retain, At
  <1>2. /\ me \in Ids /\ effect = EffectOf(me) /\ run.bytes = "own" /\ effect \in Commits
        /\ me \in Commits => effect = me
    BY <1>1, ConstantsAssumption DEF IndInv, RunIsTyped, RunIsSound, Working, EffectOf, At, Effects
  <1>3. Continues
    BY <1>2 DEF Retain, Continues, Settled, Working, Verdicts
  <1>4. me \in Commits \cup Recoveries
    BY DEF Retain
  <1>5. RunIsSound'
    <2>1. Recovered' = Recovered /\ run'.of = run.of /\ run'.bytes = "own"
      BY <1>1, <1>3, ContinuesFacts DEF book, Recovered, Working
    <2>2. \/ run'.at = "accept" /\ me \in Commits
          \/ run'.at = "nested" /\ effect \in archive
          \/ run'.at = "publish" /\ ledger[effect] = "open"
          \/ run'.at = "reply" /\ run'.verdict = ledger[effect]
      BY DEF Retain, Reply, Go, IndInv, Types, RunRecords
    <2>3. ledger[effect] = "open" => OnRecord(effect)
      BY <1>2, RecoveredFacts DEF OnRecord, Effects
    <2> QED
      BY <1>1, <1>2, <2>1, <2>2, <2>3 DEF RunIsSound, OnRecord, At, effect, book
  <1> QED
    BY <1>1, <1>3, <1>4, <1>5, WorkStep
       DEF Working, queue, book, repository, cycle, world, IndInv, Types

LEMMA ProcessOriginalStep ==
  ASSUME IndInv, ProcessOriginal PROVE IndInv'
  <1>1. /\ run.at = "nested"
        /\ UNCHANGED <<queue, result, book, evidence, repository, sender, cycle, world, faults>>
    BY DEF ProcessOriginal, At
  <1>2. effect \in Commits /\ effect \in archive
    BY <1>1 DEF IndInv, RunIsSound, At
  <1>3. Continues
    BY DEF ProcessOriginal, Continues, Settled, Working, Verdicts
  <1>4. RunIsSound'
    <2>1. run'.of = run.of /\ run'.bytes = "own"
      BY <1>1, <1>3, ContinuesFacts DEF Working
    <2>2. \/ run'.at = "reply" /\ run'.verdict = "failed"
          \/ run'.at = "reply" /\ run'.verdict = ledger[effect]
          \/ run'.at = "accept"
      BY DEF ProcessOriginal, Reply, Go, IndInv, Types, RunRecords
    <2> QED
      BY <1>1, <1>2, <2>1, <2>2 DEF RunIsSound, At, effect, book, evidence
  <1> QED
    BY <1>1, <1>3, <1>4, WorkStep
       DEF Working, queue, book, evidence, repository, cycle, world, IndInv, Types

(* A candidate is begun and finished for a commit on record.                 *)
LEMMA CandidateStep ==
  ASSUME IndInv, Prepare \/ Build PROVE IndInv'
  <1>1. /\ run.at \in {"prepare", "build"}
        /\ UNCHANGED <<queue, result, book, archive, repository, sender, cycle, world, faults>>
    BY DEF Prepare, Build, At
  <1>2. effect \in Commits /\ OnRecord(effect)
    BY <1>1 DEF IndInv, RunIsSound
  <1>3. Continues
    BY DEF Prepare, Build, Continues, Working, Verdicts
  <1>4. /\ candidate' \in [Commits -> {"none", "partial", "whole"}]
        /\ \A c \in Commits : candidate[c] = "whole" => candidate'[c] = "whole"
    BY <1>2 DEF Prepare, Build, IndInv, Types
  <1>5. RunIsSound'
    <2>1. /\ \/ run'.at = "reply" /\ run'.verdict = "failed"
             \/ run'.at \in {"build", "publish"}
          /\ run'.of = run.of
      BY DEF Prepare, Build, Reply, Go, IndInv, Types, RunRecords
    <2>2. Recovered' = Recovered
      BY <1>1 DEF Recovered, book
    <2> QED
      BY <1>2, <2>1, <2>2 DEF RunIsSound, OnRecord, At, effect
  <1> QED
    BY <1>1, <1>3, <1>4, <1>5, WorkStep
       DEF Working, queue, book, repository, cycle, world, IndInv, Types

(* The branch is claimed and moved for a commit on record.                   *)
LEMMA PublishStep ==
  ASSUME IndInv, Publish \/ Move PROVE IndInv'
  <1>1. /\ run.at \in {"publish", "move"}
        /\ UNCHANGED <<queue, result, book, evidence, sender, cycle, world, faults>>
        /\ tip' \in {tip, effect} /\ half' \in {None, half, effect}
    BY DEF Publish, Move, At
  <1>2. effect \in Commits /\ OnRecord(effect)
    BY <1>1 DEF IndInv, RunIsSound
  <1>3. Continues
    BY DEF Publish, Move, Continues, Working, Verdicts
  <1>4. RunIsSound'
    <2>1. /\ \/ run'.at = "reply" /\ run'.verdict = "failed"
             \/ run'.at \in {"move", "record"}
          /\ run'.of = run.of
      BY DEF Publish, Move, Reply, Go, IndInv, Types, RunRecords
    <2>2. Recovered' = Recovered
      BY <1>1 DEF Recovered, book
    <2> QED
      BY <1>2, <2>1, <2>2 DEF RunIsSound, OnRecord, At, effect
  <1>5. None \notin Commits
    BY ConstantsAssumption DEF Ids
  <1> QED
    BY <1>1, <1>2, <1>3, <1>4, <1>5, WorkStep
       DEF Working, queue, book, evidence, cycle, world, IndInv, Types

LEMMA StepFailsStep ==
  ASSUME IndInv, StepFails PROVE IndInv'
  <1>1. /\ run.at \in Working /\ Reply("failed")
        /\ UNCHANGED <<queue, result, book, evidence, repository, sender, cycle, world>>
    BY DEF StepFails
  <1>2. RunIsSound'
    BY <1>1 DEF Reply, IndInv, Types, RunRecords, RunIsSound, At
  <1> QED
    BY <1>1, <1>2, WorkStep
       DEF Continues, Verdicts, queue, book, evidence, repository, cycle, world, IndInv, Types

----------------------------------------------------------------------------
(* Steps that complete the journal and may write a new one.  No entry is     *)
(* forgotten and no settled entry changes, so what was answered stays true;  *)
(* a new intent has its request retained.                                    *)
Continued(transition) ==
    \/ transition = None
    \/ /\ transition \in Transitions
       /\ transition.of \in States => transition.to = "applied"
       /\ transition.of \in Commits =>
            \/ transition.to = "open" /\ Recovered[transition.of] = "none"
                 /\ transition.of \in archive
            \/ transition.to = "done" /\ Recovered[transition.of] # "none"

LEMMA LedgerStep ==
  ASSUME IndInv, run.at \in Working, Continues,
         ledger' = Recovered, Continued(pending'),
         UNCHANGED <<uploads, packet, result, evidence, repository, sender, cycle, expired>>,
         RunIsSound'
  PROVE  IndInv'
  <1>1. ledger' \in [Effects -> {"none", "open", "applied", "done"}]
    BY RecoveredFacts
  <1>2. pending' \in Transitions \cup {None}
    BY DEF Continued
  <1>3. Types'
    BY <1>1, <1>2, ContinuesFacts DEF IndInv, Types, evidence, repository, cycle
  <1>4. RunIsTyped'
    BY ContinuesTyped DEF cycle
  <1>5. LedgerIsSound'
    BY RecoveredFacts DEF LedgerIsSound, Continued
  <1>6. \A e \in Effects :
          Recovered'[e] = IF pending' # None /\ pending'.of = e THEN pending'.to ELSE Recovered[e]
    BY <1>1, <1>2 DEF Recovered, Transitions
  <1>7. \A c \in Commits :
          /\ Recovered[c] # "none" => Recovered'[c] \in {"open", "done"}
          /\ Recovered'[c] # "none" => Recovered[c] # "none" \/ c \in archive
    BY <1>6, RecoveredFacts DEF Continued, Effects
  <1>8. \A i \in Ids : Answered(i)' /\ result'[i].verdict # "failed" =>
          /\ result'[i].bytes = "own"
          /\ ledger'[EffectOf(i)] = result'[i].verdict
    <2> SUFFICES ASSUME NEW i \in Ids, result[i] # None, result[i].verdict # "failed"
                 PROVE  result[i].bytes = "own" /\ Recovered[EffectOf(i)] = result[i].verdict
      BY DEF Answered
    <2>1. result[i].verdict \in {"applied", "done"}
      BY DEF IndInv, Types, Verdicts
    <2>2. result[i].bytes = "own" /\ ledger[EffectOf(i)] = result[i].verdict
      BY DEF IndInv, AnswersAreTrue, Answered, EffectOf
    <2> QED
      BY <2>1, <2>2, EffectType, RecoveredFacts
  <1>9. \A c \in Commits :
          /\ c \in {tip', half'} => Recovered'[c] \in {"open", "done"}
          /\ Recovered'[c] # "none" => c \in archive' \/ candidate'[c] = "whole"
    BY <1>7 DEF IndInv, AnswersAreTrue, evidence, repository
  <1>10. AnswersAreTrue'
    BY <1>8, <1>9 DEF AnswersAreTrue, EffectOf
  <1> QED
    BY <1>3, <1>4, <1>5, <1>10 DEF IndInv

LEMMA AcceptReplayStep ==
  ASSUME IndInv, AcceptReplay PROVE IndInv'
  <1>1. /\ run.at = "accept" /\ Recovered[effect] # "none"
        /\ ledger' = Recovered /\ pending' = None
        /\ UNCHANGED <<queue, result, evidence, repository, sender, cycle, world, faults>>
    BY DEF AcceptReplay, At
  <1>2. effect \in Effects
    BY <1>1, EffectType DEF IndInv, RunIsTyped, Working
  <1>3. Recovered[effect] \in {"open", "applied", "done"}
    BY <1>1, <1>2, RecoveredFacts
  <1>4. Continues
    BY <1>3 DEF AcceptReplay, Continues, Working, Verdicts
  <1>5. RunIsSound'
    <2>1. run'.of = run.of /\ run'.bytes = "own"
      BY <1>1, <1>4, ContinuesFacts DEF Working
    <2>2. \/ run'.at = "publish" /\ Recovered[effect] = "open"
          \/ run'.at = "reply" /\ run'.verdict = Recovered[effect]
      BY DEF AcceptReplay, Reply, Go, IndInv, Types, RunRecords
    <2>3. Recovered[effect] = "open" => effect \in Commits
      BY <1>2, RecoveredFacts DEF Effects
    <2>4. Recovered' = Recovered
      BY <1>1 DEF Recovered
    <2> QED
      BY <1>1, <2>1, <2>2, <2>3, <2>4 DEF RunIsSound, OnRecord, At, effect
  <1> QED
    BY <1>1, <1>4, <1>5, LedgerStep DEF Working, Continued, queue, world

LEMMA AcceptNewStep ==
  ASSUME IndInv, AcceptNew PROVE IndInv'
  <1> DEFINE intent == [of |-> effect, to |-> IF effect \in Commits THEN "open" ELSE "applied"]
  <1>1. /\ run.at = "accept" /\ Recovered[effect] = "none"
        /\ ledger' = Recovered /\ pending' = intent
        /\ Go("accepting")
        /\ UNCHANGED <<queue, result, evidence, repository, sender, cycle, world, faults>>
    BY DEF AcceptNew, At
  <1>2. effect \in Effects /\ (effect \in Commits => effect \in archive)
    BY <1>1, EffectType DEF IndInv, RunIsTyped, RunIsSound, Working
  <1>3. Continues
    BY <1>1 DEF Continues, Working
  <1>4. Continued(pending')
    BY <1>1, <1>2, ConstantsAssumption DEF Continued, Transitions, Effects
  <1>5. RunIsSound'
    <2>1. run'.at = "accepting" /\ run'.of = run.of
      BY <1>1 DEF Go, IndInv, Types, RunRecords
    <2> QED
      BY <1>1, <2>1 DEF RunIsSound, At, effect
  <1> QED
    BY <1>1, <1>3, <1>4, <1>5, LedgerStep DEF Working, queue, world

LEMMA AcceptedStep ==
  ASSUME IndInv, Accepted PROVE IndInv'
  <1>1. /\ run.at = "accepting" /\ ledger' = Recovered /\ pending' = None
        /\ UNCHANGED <<queue, result, evidence, repository, sender, cycle, world, faults>>
    BY DEF Accepted, At
  <1>2. effect \in Effects
    BY <1>1, EffectType DEF IndInv, RunIsTyped, Working
  <1>3. pending = [of |-> effect, to |-> IF effect \in Commits THEN "open" ELSE "applied"]
    BY <1>1 DEF IndInv, RunIsSound, At
  <1>4. /\ Continues
        /\ run'.of = run.of /\ run'.bytes = "own"
        /\ \/ run'.at = "prepare" /\ effect \in Commits
           \/ run'.at = "reply" /\ run'.verdict = "applied" /\ effect \notin Commits
    <2>1. \/ effect \in Commits /\ run' = [run EXCEPT !.at = "prepare", !.granted = TRUE]
          \/ effect \notin Commits /\ Reply("applied")
      BY DEF Accepted
    <2>2. Continues
      BY <2>1 DEF Continues, Verdicts
    <2>3. run'.of = run.of /\ run'.bytes = "own"
      BY <1>1, <2>2, ContinuesFacts DEF Working
    <2> QED
      BY <2>1, <2>2, <2>3 DEF Reply, IndInv, Types, RunRecords
  <1>5. pending # None
    BY <1>2, <1>3, NoneAssumption DEF Transitions
  <1>6. Recovered[effect] = (IF effect \in Commits THEN "open" ELSE "applied")
    BY <1>2, <1>3, <1>5 DEF Recovered, IndInv, Types
  <1>7. Recovered' = Recovered
    BY <1>1 DEF Recovered
  <1>8. RunIsSound'
    BY <1>1, <1>4, <1>6, <1>7 DEF RunIsSound, OnRecord, At, effect
  <1> QED
    BY <1>1, <1>4, <1>8, LedgerStep DEF Working, Continued, queue, world

LEMMA RecordStep ==
  ASSUME IndInv, Record PROVE IndInv'
  <1> DEFINE done == [of |-> effect, to |-> "done"]
  <1>1. /\ run.at = "record" /\ ledger' = Recovered /\ pending' = done
        /\ Go("recording")
        /\ UNCHANGED <<queue, result, evidence, repository, sender, cycle, world, faults>>
    BY DEF Record, At
  <1>2. effect \in Commits /\ OnRecord(effect) /\ effect \in Effects
    BY <1>1 DEF IndInv, RunIsSound, Effects
  <1>3. Continues
    BY <1>1 DEF Continues, Working
  <1>4. Continued(pending')
    BY <1>1, <1>2, ConstantsAssumption DEF Continued, Transitions, OnRecord, Effects
  <1>5. RunIsSound'
    <2>1. run'.at = "recording" /\ run'.of = run.of
      BY <1>1 DEF Go, IndInv, Types, RunRecords
    <2>2. done \in Transitions /\ done # None
      BY <1>2, NoneAssumption DEF Transitions
    <2>3. Recovered'[effect] = "done"
      BY <1>1, <1>2, <2>2, RecoveredFacts DEF Recovered
    <2> QED
      BY <1>1, <1>2, <2>1, <2>3 DEF RunIsSound, OnRecord, At, effect
  <1> QED
    BY <1>1, <1>3, <1>4, <1>5, LedgerStep DEF Working, queue, world

LEMMA RecordAppliedStep ==
  ASSUME IndInv, RecordApplied PROVE IndInv'
  <1>1. /\ run.at = "recording" /\ ledger' = Recovered /\ pending' = None /\ Reply("done")
        /\ UNCHANGED <<queue, result, evidence, repository, sender, cycle, world, faults>>
    BY DEF RecordApplied, At
  <1>2. effect \in Effects /\ pending = [of |-> effect, to |-> "done"]
    BY <1>1 DEF IndInv, RunIsSound, Effects, At
  <1>3. Continues
    BY <1>1 DEF Continues, Verdicts
  <1>4. RunIsSound'
    <2>1. run'.at = "reply" /\ run'.verdict = "done" /\ run'.of = run.of /\ run'.bytes = "own"
      BY <1>1, <1>3, ContinuesFacts DEF Reply, Working, IndInv, Types, RunRecords
    <2>2. pending # None
      BY <1>2, NoneAssumption DEF Transitions
    <2>3. Recovered[effect] = "done"
      BY <1>2, <2>2 DEF Recovered, IndInv, Types
    <2> QED
      BY <1>1, <2>1, <2>3 DEF RunIsSound, At, effect
  <1> QED
    BY <1>1, <1>3, <1>4, LedgerStep DEF Working, Continued, queue, world

----------------------------------------------------------------------------
LEMMA NextIndInv == IndInv /\ [Next]_vars => IndInv'
  <1> SUFFICES ASSUME IndInv, [Next]_vars PROVE IndInv'
    OBVIOUS
  <1>1. CASE UNCHANGED vars
    <2>1. UNCHANGED <<uploads, packet, result, ledger, pending, archive, candidate, tip, half,
                      sender, batch, count, run, expired>>
      BY <1>1 DEF vars, queue, book, evidence, repository, cycle, world
    <2> QED
      BY <2>1 DEF IndInv, Types, RunIsTyped, LedgerIsSound, RunIsSound, AnswersAreTrue, Answered,
         Recovered, OnRecord, At, me, effect
  <1>2. CASE Work
    BY <1>2, BetweenRequestsStep, TakeStep, ProcessOwnStep, ProcessRecoveryStep, RetainStep,
       ProcessOriginalStep, AcceptReplayStep, AcceptNewStep, AcceptedStep, CandidateStep,
       PublishStep, RecordStep, RecordAppliedStep, WriteResultStep DEF Work
  <1>3. CASE Faults
    BY <1>3, BetweenRequestsStep, StepFailsStep DEF Faults
  <1>4. CASE \/ \E i \in Ids : Upload(i) \/ Enqueue(i) \/ ClientDies(i) \/ Intrude(i)
             \/ TimePasses \/ UserEdits \/ UserCommits \/ Maintain
    BY <1>4, OutsideStep
  <1> QED
    BY <1>1, <1>2, <1>3, <1>4 DEF Next

(* IndInv holds in every state the worker and its clients can reach.         *)
THEOREM Invariance == Spec => []IndInv
  BY InitIndInv, NextIndInv, PTL DEF Spec

(* The variables keep their types: the counter of a cycle never passes its   *)
(* bound, and only requests that retain themselves are in the archive.       *)
THEOREM TypeCorrect == Spec => []TypeOK
  <1>1. IndInv => TypeOK
    BY DEF IndInv, Types, TypeOK, Verdicts
  <1> QED
    BY <1>1, Invariance, PTL

(* A published answer tells the truth whatever died on the way.              *)
THEOREM AnswersSafe == Spec => []AnswersAreTrue
  <1>1. IndInv => AnswersAreTrue
    BY DEF IndInv
  <1> QED
    BY <1>1, Invariance, PTL
=============================================================================
