---------------------- MODULE InstallTransactionProofs ----------------------
(* Proofs about InstallTransaction for every set of installations, every     *)
(* number of files and any number of deaths and of foreign writes.           *)
EXTENDS InstallTransaction, WellFoundedInduction, TLAPS

Verdicts == {"none", "error", "succeeded", "failed", "blocked"}

RunRecords ==
    [at : Steps, of : Installs \cup {None}, recovery : BOOLEAN, retried : BOOLEAN,
     startup : BOOLEAN, next : 0 .. N + 1, placed : SUBSET Files, verdict : Verdicts]

Types ==
    /\ packet \in [Installs -> BOOLEAN]
    /\ result \in [Installs -> {"none", "error", "succeeded", "failed"}]
    /\ staged \in [Installs -> BOOLEAN] /\ plan \in [Installs -> BOOLEAN]
    /\ marker \in Installs \cup {None}
    /\ intent \in [Installs -> Intents]
    /\ journal \in [Installs -> [phase : Phases, done : 0 .. N]]
    /\ dest \in [Files -> Contents]
    /\ backup \in [Installs -> [Files -> Contents]]
    /\ checked \in BOOLEAN
    /\ run \in RunRecords /\ (run.at # "idle" => run.of \in Installs)
    /\ expects \in [Installs -> [Files -> Contents] \cup {None}]
    /\ touched \subseteq Files /\ faults \in 0 .. MaxFaults

Phase(i) == journal[i].phase
Lost(i) == intent[i] \in {"failing", "failed"}
Won(i) == intent[i] \in {"succeeding", "succeeded"}

(* The files that are left alone are all of one generation.                  *)
Uniform(tuple) ==
    \/ \A g \in Files \ touched : tuple[g] = IF g \in Fresh THEN "absent" ELSE "old"
    \/ \E i \in Installs : \A g \in Files \ touched : tuple[g] = i

(* The files are those the bundle was packaged against.                      *)
Matches(i) == \A g \in Files \ touched : dest[g] = expects[i][g]

(* Each file is the old one, or the old one is in the backup.                *)
Restorable(i) ==
    \A g \in Files \ touched :
        \/ dest[g] = expects[i][g]
        \/ dest[g] \in {"absent", i} /\ backup[i][g] = expects[i][g]

(* The installation whose files may be at stake                              *)
InHand(i) == marker = i \/ (run.at \in {"plan", "mark"} /\ me = i)

(* Bytes of a bundle come from a journaled publication, never its own.       *)
BytesAreKnown ==
    /\ \A i \in Installs, g \in Files : dest[g] = i => Phase(i) # "none"
    /\ \A x \in Installs : expects[x] # None =>
          /\ \A g \in Files : expects[x][g] # x
          /\ \A i \in Installs, g \in Files : expects[x][g] = i => Phase(i) # "none"
    /\ \A x \in Installs, g \in Files : backup[x][g] # "absent" =>
          expects[x] # None /\ backup[x][g] = expects[x][g]

(* The ledger, the journal and the marker agree about how far one is.        *)
RecordsAgree ==
    /\ \A i \in Installs :
          /\ packet[i] \/ marker = i => expects[i] # None
          /\ intent[i] # "none" => plan[i] /\ staged[i]
          /\ Phase(i) # "none" => /\ expects[i] # None
                                  /\ intent[i] \notin {"none", "admitting"}
                                  /\ marker = i \/ intent[i] \in {"succeeded", "failed"}
          /\ Won(i) => Phase(i) = "committed"
          /\ Lost(i) => /\ Phase(i) \in {"none", "rolled_back"}
                        /\ \A g \in Files : dest[g] # i
    /\ ResultsRepeatLedger

(* Before it is published, or once it has failed, the files are the ones it  *)
(* found, and none of them is of a bundle that failed.                       *)
HandIsSound(i) ==
    /\ Uniform(expects[i])
    /\ \A j \in Installs, g \in Files : Lost(j) => expects[i][g] # j
    /\ Phase(i) = "none" \/ Lost(i) => Matches(i)

ActiveIsSound(i) ==
    IF Phase(i) = "committed" THEN \A g \in Files \ touched : dest[g] = i ELSE Restorable(i)

FilesAreSound ==
    /\ marker = None => Uniform(dest)
    /\ \A i \in Installs : /\ InHand(i) => HandIsSound(i)
                           /\ marker = i => ActiveIsSound(i)

Publishing == {"frontier", "vacate", "publish", "complete", "verify", "rollback"}

(* What a run has established at each step                                   *)
RunIsSound ==
    /\ run.at # "idle" => expects[me] # None
    /\ run.at \notin {"idle", "lookup", "reply"} => NoOtherActive
    /\ run.at \in {"plan", "mark", "admit"} => intent[me] = "none"
    /\ run.at \in {"plan", "mark", "admit", "admitting"} => staged[me]
    /\ run.at \in {"lookup", "plan", "mark", "admit", "admitting"} => ~Recovering
    /\ run.at \in {"lookup", "plan", "mark", "admit", "admitting", "kernel"} => run.placed = {}
    /\ run.at \in {"mark", "admit", "admitting"} => plan[me]
    /\ run.at \in {"admit", "admitting"} \cup Publishing \cup {"repair"} => marker = me
    /\ run.at = "admitting" => intent[me] = "admitting"
    /\ run.at = "kernel" =>
          /\ intent[me] \in {"open", "succeeded", "failed"}
          /\ Phase(me) # "none" => marker = me
          /\ ~Recovering => Phase(me) = "none" /\ marker = me /\ intent[me] = "open"
    /\ run.at \in Publishing =>
          /\ intent[me] = "open" /\ Phase(me) \in {"preparing", "publishing"} /\ ~Recovering
          /\ \A g \in run.placed : backup[me][g] = expects[me][g]
    /\ run.at \in {"frontier", "vacate", "publish", "complete"} => file \in Files
    /\ run.at \in {"frontier", "vacate", "publish"} => \A g \in run.placed : g < file
    /\ run.at = "complete" => \A g \in run.placed : g <= file
    /\ run.at \in {"publish", "complete"} => backup[me][file] = expects[me][file]
    /\ run.at = "repair" =>
          /\ Phase(me) \notin {"none", "committed"} /\ intent[me] \in {"open", "failed"}
          /\ file \in 0 .. N
          /\ \A g \in Files : g > file =>
                /\ dest[g] # me \/ expects[me][g] = "absent"
                /\ g \notin touched /\ expects[me][g] # "absent" => dest[g] = expects[me][g]
                /\ g \notin touched /\ expects[me][g] = "absent" => dest[g] \in {"absent", me}
    /\ run.at = "settle" =>
          /\ intent[me] \in {"open", "succeeded", "failed"}
          /\ Phase(me) # "none" => marker = me
          /\ run.verdict \in {"succeeded", "failed"}
          /\ run.verdict = "succeeded" => Phase(me) = "committed"
          /\ run.verdict = "failed" =>
                /\ Phase(me) \in {"none", "rolled_back"} /\ \A g \in Files : dest[g] # me
                /\ marker = me => Matches(me)
    /\ run.at = "settling" =>
          intent[me] = IF run.verdict = "succeeded" THEN "succeeding" ELSE "failing"
    /\ run.at \in {"settling", "clear"} => run.verdict \in {"succeeded", "failed"}
    /\ run.at = "clear" => intent[me] = run.verdict
    /\ run.at = "reply" => /\ run.verdict \in {"error", "succeeded", "failed"}
                           /\ run.verdict # "error" => intent[me] = run.verdict

IndInv ==
    /\ Types
    /\ BytesAreKnown
    /\ RecordsAgree
    /\ FilesAreSound
    /\ RunIsSound

----------------------------------------------------------------------------
LEMMA InitIndInv == Init => IndInv
  <1> SUFFICES ASSUME Init PROVE IndInv
    OBVIOUS
  <1>1. Types
    <2>1. run \in RunRecords /\ run.at = "idle"
      BY ConstantsAssumption DEF Init, Idle, RunRecords, Steps, Verdicts
    <2>2. journal \in [Installs -> [phase : Phases, done : 0 .. N]]
      BY ConstantsAssumption DEF Init, Phases
    <2>3. /\ packet \in [Installs -> BOOLEAN]
          /\ staged \in [Installs -> BOOLEAN] /\ plan \in [Installs -> BOOLEAN]
          /\ checked \in BOOLEAN
      BY DEF Init
    <2>4. faults \in 0 .. MaxFaults
      BY ConstantsAssumption DEF Init
    <2> QED
      BY <2>1, <2>2, <2>3, <2>4 DEF Init, Types, Intents, Contents
  <1>2. BytesAreKnown
    BY ConstantsAssumption DEF Init, BytesAreKnown
  <1>3. RecordsAgree
    BY ConstantsAssumption DEF Init, RecordsAgree, Phase, Won, Lost, ResultsRepeatLedger, Recovered
  <1>4. FilesAreSound
    <2>1. Uniform(dest)
      BY DEF Init, Uniform
    <2>2. \A i \in Installs : ~InHand(i) /\ marker # i
      BY ConstantsAssumption DEF Init, InHand, Idle
    <2> QED
      BY <2>1, <2>2 DEF FilesAreSound
  <1>5. RunIsSound
    BY DEF Init, Idle, RunIsSound, Publishing
  <1> QED
    BY <1>1, <1>2, <1>3, <1>4, <1>5 DEF IndInv

----------------------------------------------------------------------------
(* The run record after a step                                               *)
LEMMA GoFacts ==
  ASSUME Types, NEW step \in Steps, Go(step), run.of \in Installs
  PROVE  /\ run' \in RunRecords /\ run'.at = step /\ run'.of = run.of
         /\ run'.recovery = run.recovery /\ run'.retried = run.retried
         /\ run'.next = run.next /\ run'.placed = run.placed /\ run'.verdict = run.verdict
  BY DEF Types, Go, RunRecords

LEMMA IdleType ==
  /\ Idle \in RunRecords /\ Idle.at = "idle"
  /\ ~Idle.recovery /\ ~Idle.retried /\ Idle.placed = {}
  BY ConstantsAssumption DEF Idle, RunRecords, Steps, Verdicts

LEMMA LeaveFacts ==
  ASSUME Types, NEW step \in Steps, NEW verdict \in Verdicts, Leave(step, verdict),
         run.of \in Installs
  PROVE  /\ run' \in RunRecords /\ run'.at = step /\ run'.of = run.of /\ run'.verdict = verdict
  <1>1. run' = [Idle EXCEPT !.at = step, !.of = run.of, !.startup = run.startup,
                            !.verdict = verdict]
    BY DEF Leave, me
  <1>2. run.startup \in BOOLEAN
    BY DEF Types, RunRecords
  <1> QED
    BY <1>1, <1>2, IdleType DEF RunRecords

(* The kernel is run again, or the request fails.                            *)
LEMMA KernelFailedFacts ==
  ASSUME Types, KernelFailed, run.of \in Installs
  PROVE  /\ run' \in RunRecords /\ run'.of = run.of
         /\ \/ run'.at = "kernel" /\ run'.retried /\ run'.placed = {}
            \/ run'.at = "reply" /\ run'.verdict = "error"
  <1>1. CASE run.retried
    BY <1>1, LeaveFacts DEF KernelFailed, Reply, Steps, Verdicts
  <1>2. CASE ~run.retried
    <2>1. run' = [run EXCEPT !.at = "kernel", !.retried = TRUE, !.next = 0, !.placed = {},
                             !.verdict = "none"]
      BY <1>2 DEF KernelFailed
    <2>2. 0 \in 0 .. N + 1 /\ "kernel" \in Steps /\ "none" \in Verdicts
      BY ConstantsAssumption DEF Steps, KernelSteps, Verdicts
    <2> QED
      BY <2>1, <2>2 DEF Types, RunRecords
  <1> QED
    BY <1>1, <1>2

(* A run in the kernel has an intent, and its marker once it has a journal.  *)
LEMMA InKernel ==
  ASSUME IndInv, run.at \in KernelSteps
  PROVE  /\ me \in Installs /\ expects[me] # None /\ NoOtherActive
         /\ intent[me] \in {"open", "succeeded", "failed"}
         /\ Phase(me) # "none" => marker = me
  BY DEF IndInv, Types, RunIsSound, KernelSteps, Publishing, me

(* Between requests, and when a request fails, nothing is in hand.           *)
LEMMA AtRest ==
  ASSUME IndInv, run'.at \in {"idle", "lookup", "reply"},
         run'.at # "idle" => run'.of \in Installs /\ expects'[run'.of] # None,
         run'.at = "lookup" => ~run'.recovery /\ ~run'.retried /\ run'.placed = {},
         run'.at = "reply" => run'.verdict = "error"
  PROVE  RunIsSound' /\ \A i \in Installs : InHand(i)' => marker' = i
  <1>1. RunIsSound'
    BY DEF RunIsSound, Publishing, Recovering, me
  <1>2. \A i \in Installs : InHand(i)' => marker' = i
    BY DEF InHand
  <1> QED
    BY <1>1, <1>2

(* The same after the kernel failed                                          *)
LEMMA KernelFailedStep ==
  ASSUME IndInv, run.at \in KernelSteps, KernelFailed, UNCHANGED <<marker, intent, expects>>,
         Phase(me)' # "none" => marker = me
  PROVE  /\ run' \in RunRecords /\ run'.of = me /\ run'.at # "idle"
         /\ RunIsSound' /\ \A i \in Installs : InHand(i)' => marker' = i
  <1>1. /\ me \in Installs /\ expects[me] # None /\ NoOtherActive
        /\ intent[me] \in {"open", "succeeded", "failed"}
    BY InKernel
  <1>2. /\ run' \in RunRecords /\ run'.of = run.of
        /\ \/ run'.at = "kernel" /\ run'.retried /\ run'.placed = {}
           \/ run'.at = "reply" /\ run'.verdict = "error"
    BY <1>1, KernelFailedFacts DEF IndInv, me
  <1>3. RunIsSound'
    BY <1>1, <1>2 DEF RunIsSound, Publishing, NoOtherActive, Recovering, Phase, me
  <1>4. \A i \in Installs : InHand(i)' => marker' = i
    BY <1>2 DEF InHand
  <1> QED
    BY <1>2, <1>3, <1>4 DEF me

----------------------------------------------------------------------------
(* Steps that leave the records and the files of the installations alone     *)
LEMMA SameFilesStep ==
  ASSUME IndInv, Types', RunIsSound',
         UNCHANGED <<marker, intent, journal, dest, backup, expects, touched>>,
         \A i \in Installs : /\ packet'[i] => packet[i]
                             /\ plan[i] => plan'[i]
                             /\ staged[i] => staged'[i],
         \A i \in Installs : InHand(i)' => InHand(i) \/ HandIsSound(i),
         ResultsRepeatLedger'
  PROVE  IndInv'
  <1>1. BytesAreKnown'
    BY DEF IndInv, BytesAreKnown, Phase
  <1>2. RecordsAgree'
    BY DEF IndInv, RecordsAgree, Phase, Won, Lost
  <1>3. FilesAreSound'
    <2>1. Uniform(dest)' <=> Uniform(dest)
      BY DEF Uniform
    <2>2. \A i \in Installs : HandIsSound(i)' <=> HandIsSound(i)
      BY DEF HandIsSound, Uniform, Matches, Phase, Lost
    <2>3. \A i \in Installs : ActiveIsSound(i)' <=> ActiveIsSound(i)
      BY DEF ActiveIsSound, Restorable, Phase
    <2> QED
      BY <2>1, <2>2, <2>3 DEF IndInv, FilesAreSound, InHand
  <1> QED
    BY <1>1, <1>2, <1>3 DEF IndInv

(* A cycle begins with a request, removes an answered one, or the process    *)
(* dies, or the request fails.                                               *)
LEMMA RestStep ==
  ASSUME IndInv, (\E i \in Installs : Take(i) \/ Consume(i)) \/ Crash \/ Fail
  PROVE  IndInv'
  <1>1. /\ UNCHANGED <<result, store, journal, files, expects, touched>>
        /\ \A i \in Installs : packet'[i] => packet[i]
        /\ packet' \in [Installs -> BOOLEAN]
    BY DEF Take, Consume, Crash, Fail, Fault, queue, world, IndInv, Types
  <1>2. checked' \in BOOLEAN /\ faults' \in 0 .. MaxFaults
    <2>1. checked' = checked \/ checked' = FALSE
      BY DEF Take, Consume, Crash, Fail
    <2>2. faults' = faults \/ (faults < MaxFaults /\ faults' = faults + 1)
      BY DEF Take, Consume, Crash, Fail, Fault, world
    <2>3. checked' \in BOOLEAN
      BY <2>1 DEF IndInv, Types
    <2>4. faults \in 0 .. MaxFaults
      BY DEF IndInv, Types
    <2>5. faults' \in 0 .. MaxFaults
      BY <2>2, <2>4, ConstantsAssumption
    <2> QED
      BY <2>3, <2>5
  <1>3. /\ run' \in RunRecords /\ run'.at \in {"idle", "lookup", "reply"}
        /\ run'.at # "idle" => run'.of \in Installs /\ expects[run'.of] # None
        /\ run'.at = "lookup" => ~run'.recovery /\ ~run'.retried /\ run'.placed = {}
        /\ run'.at = "reply" => run'.verdict = "error"
    <2>1. Idle \in RunRecords /\ Idle.at = "idle"
      BY IdleType
    <2>2. CASE \E i \in Installs : Take(i)
      <3> PICK i \in Installs : Take(i)
        BY <2>2
      <3>1. /\ run' \in RunRecords /\ run'.at = "lookup" /\ run'.of = i
            /\ ~run'.recovery /\ ~run'.retried /\ run'.placed = {}
        BY <2>1 DEF Take, Idle, RunRecords, Steps
      <3>2. expects[i] # None
        BY DEF Take, IndInv, RecordsAgree
      <3> QED
        BY <3>1, <3>2
    <2>3. CASE \E i \in Installs : Consume(i)
      BY <2>3 DEF Consume, IndInv, Types, RunIsSound, Recovering
    <2>4. CASE Crash
      BY <2>1, <2>4 DEF Crash
    <2>5. CASE Fail
      <3>1. run.at # "idle" /\ Leave("reply", "error")
        BY <2>5 DEF Fail, Reply
      <3>2. run.of \in Installs /\ expects[run.of] # None
        BY <3>1 DEF IndInv, Types, RunIsSound, me
      <3> QED
        BY <3>1, <3>2, LeaveFacts DEF IndInv, Steps, Verdicts
    <2> QED
      BY <2>2, <2>3, <2>4, <2>5
  <1>4. Types'
    BY <1>1, <1>2, <1>3 DEF IndInv, Types, store, files
  <1>5. RunIsSound' /\ \A i \in Installs : InHand(i)' => marker' = i
    BY <1>1, <1>3, AtRest
  <1>6. \A i \in Installs : InHand(i)' => InHand(i)
    BY <1>1, <1>5 DEF InHand, store
  <1>7. ResultsRepeatLedger'
    BY <1>1 DEF IndInv, RecordsAgree, ResultsRepeatLedger, Recovered, store
  <1> QED
    BY <1>1, <1>4, <1>5, <1>6, <1>7, SameFilesStep DEF store, files

(* The kernel decides without touching anything, or leaves a file behind.    *)
LEMMA KernelAnswerStep ==
  ASSUME IndInv, \/ KernelNotStarted \/ KernelRecommit \/ KernelRepair \/ KeepRepaired
                 \/ LeaveForeign \/ RepairRefused \/ KernelKilled
  PROVE  IndInv'
  <1>1. /\ UNCHANGED <<queue, store, journal, files, checked, expects, touched>>
        /\ run.at \in KernelSteps
    BY DEF KernelNotStarted, KernelRecommit, KernelRepair, KeepRepaired, LeaveForeign,
           RepairRefused, KernelKilled, Fault, world, KernelSteps
  <1>2. /\ me \in Installs /\ expects[me] # None /\ NoOtherActive
        /\ intent[me] \in {"open", "succeeded", "failed"}
        /\ Phase(me) # "none" => marker = me
    BY <1>1, InKernel
  <1>3. faults' \in 0 .. MaxFaults
    <2>1. faults' = faults \/ (faults < MaxFaults /\ faults' = faults + 1)
      BY DEF KernelNotStarted, KernelRecommit, KernelRepair, KeepRepaired, LeaveForeign,
             RepairRefused, KernelKilled, Fault, world
    <2>2. faults \in 0 .. MaxFaults
      BY DEF IndInv, Types
    <2> QED
      BY <2>1, <2>2, ConstantsAssumption
  <1>4. ASSUME run' \in RunRecords, run'.of = me, run'.at # "idle", RunIsSound',
               \A i \in Installs : InHand(i)' => marker' = i
        PROVE  IndInv'
    <2>1. Types'
      BY <1>1, <1>2, <1>3, <1>4 DEF IndInv, Types, queue, store, files
    <2>2. \A i \in Installs : InHand(i)' => InHand(i)
      BY <1>1, <1>4 DEF InHand, store
    <2>3. ResultsRepeatLedger'
      BY <1>1 DEF IndInv, RecordsAgree, ResultsRepeatLedger, Recovered, queue, store
    <2> QED
      BY <1>1, <1>4, <2>1, <2>2, <2>3, SameFilesStep DEF queue, store, files
  <1>5. CASE KernelFailed
    <2>1. UNCHANGED <<marker, intent, expects>> /\ Phase(me)' = Phase(me)
      BY <1>1, <1>5, <1>2, KernelFailedFacts DEF store, Phase, me, IndInv
    <2>2. /\ run' \in RunRecords /\ run'.of = me /\ run'.at # "idle"
          /\ RunIsSound' /\ \A i \in Installs : InHand(i)' => marker' = i
      BY <1>1, <1>2, <1>5, <2>1, KernelFailedStep
    <2> QED
      BY <1>4, <2>2
  <1>6. CASE KernelNotStarted
    <2>1. /\ run' \in RunRecords /\ run'.at = "settle" /\ run'.of = run.of
          /\ run'.verdict = "failed"
      BY <1>2, <1>6, LeaveFacts DEF KernelNotStarted, Report, IndInv, Steps, Verdicts, me
    <2>2. Phase(me) = "none" /\ \A g \in Files : dest[g] # me
      BY <1>2, <1>6 DEF KernelNotStarted, Phase, IndInv, BytesAreKnown
    <2>3. marker = me => Matches(me)
      BY <1>2, <2>2 DEF IndInv, FilesAreSound, InHand, HandIsSound
    <2>4. RunIsSound'
      BY <1>1, <1>2, <2>1, <2>2, <2>3 DEF RunIsSound, Publishing, NoOtherActive, Phase, Matches,
         me, store, files
    <2>5. \A i \in Installs : InHand(i)' => marker' = i
      BY <2>1 DEF InHand
    <2> QED
      BY <1>4, <2>1, <2>4, <2>5 DEF me
  <1>7. CASE KernelRecommit /\ ~KernelFailed
    <2>1. /\ run' \in RunRecords /\ run'.at = "settle" /\ run'.of = run.of
          /\ run'.verdict = "succeeded" /\ Phase(me) = "committed"
      BY <1>2, <1>7, LeaveFacts DEF KernelRecommit, Report, IndInv, Steps, Verdicts, Phase, me
    <2>2. RunIsSound'
      BY <1>1, <1>2, <2>1 DEF RunIsSound, Publishing, NoOtherActive, Phase, Matches,
         me, store, files
    <2>3. \A i \in Installs : InHand(i)' => marker' = i
      BY <2>1 DEF InHand
    <2> QED
      BY <1>4, <2>1, <2>2, <2>3 DEF me
  <1>8. CASE KernelRepair
    <2>1. /\ run' \in RunRecords /\ run'.at = "repair" /\ run'.of = run.of /\ run'.next = N
      <3>1. "repair" \in Steps /\ N \in 0 .. N + 1 /\ run \in RunRecords
        BY ConstantsAssumption DEF Steps, KernelSteps, IndInv, Types
      <3> QED
        BY <1>8, <3>1 DEF KernelRepair, RunRecords
    <2>2. Phase(me) \notin {"none", "committed"} /\ intent[me] \in {"open", "failed"}
      BY <1>2, <1>8 DEF KernelRepair, Phase, IndInv, RecordsAgree, Won
    <2>3. \A g \in Files : ~(g > N) /\ N \in 0 .. N
      BY ConstantsAssumption DEF Files
    <2>4. RunIsSound'
      BY <1>1, <1>2, <2>1, <2>2, <2>3, ConstantsAssumption DEF RunIsSound, Publishing,
         NoOtherActive, Phase, me, file, store
    <2>5. \A i \in Installs : InHand(i)' => marker' = i
      BY <2>1 DEF InHand
    <2> QED
      BY <1>4, <2>1, <2>4, <2>5 DEF me
  <1>9. CASE KeepRepaired
    <2>1. /\ run' = [run EXCEPT !.next = @ - 1] /\ run.at = "repair" /\ run.next > 0
          /\ run \in RunRecords /\ file \in 0 .. N
      BY <1>9 DEF KeepRepaired, file, IndInv, Types, RunIsSound
    <2>2. run.next - 1 \in 0 .. N + 1 /\ run.next - 1 \in 0 .. N /\ file \in Files
      BY <2>1, ConstantsAssumption DEF file, Files
    <2>3. /\ run' \in RunRecords /\ run'.at = "repair" /\ run'.of = run.of
          /\ run'.next = run.next - 1
      BY <2>1, <2>2 DEF RunRecords
    <2>4. \A g \in Files : g > run.next - 1 => g > file \/ g = file
      BY <2>1, ConstantsAssumption DEF Files, file
    <2>5. /\ dest[file] # me \/ expects[me][file] = "absent"
          /\ file \notin touched /\ expects[me][file] # "absent" => dest[file] = expects[me][file]
          /\ file \notin touched /\ expects[me][file] = "absent" => dest[file] \in {"absent", me}
      BY <1>2, <1>9, <2>2 DEF KeepRepaired, IndInv, BytesAreKnown
    <2>6. \A g \in Files : g > run'.next =>
             /\ dest[g] # me \/ expects[me][g] = "absent"
             /\ g \notin touched /\ expects[me][g] # "absent" => dest[g] = expects[me][g]
             /\ g \notin touched /\ expects[me][g] = "absent" => dest[g] \in {"absent", me}
      BY <2>1, <2>3, <2>4, <2>5 DEF IndInv, RunIsSound
    <2>7. /\ marker = me /\ Phase(me) \notin {"none", "committed"}
          /\ intent[me] \in {"open", "failed"}
      BY <2>1 DEF IndInv, RunIsSound
    <2>8. RunIsSound'
      BY <1>1, <1>2, <2>2, <2>3, <2>6, <2>7 DEF RunIsSound, Publishing,
         NoOtherActive, Phase, me, file, store, files
    <2>9. \A i \in Installs : InHand(i)' => marker' = i
      BY <2>3 DEF InHand
    <2> QED
      BY <1>4, <2>3, <2>8, <2>9 DEF me
  <1>10. CASE LeaveForeign
    <2>1. /\ run' = [run EXCEPT !.placed = @ \ {Latest}, !.verdict = "blocked"]
          /\ run.at = "rollback" /\ run \in RunRecords
      BY <1>10 DEF LeaveForeign, IndInv, Types
    <2>2. /\ run' \in RunRecords /\ run'.at = "rollback" /\ run'.of = run.of
          /\ run'.placed \subseteq run.placed
          /\ run'.recovery = run.recovery /\ run'.retried = run.retried
      BY <2>1 DEF RunRecords, Verdicts
    <2>3. /\ marker = me /\ intent[me] = "open" /\ Phase(me) \in {"preparing", "publishing"}
          /\ ~Recovering /\ \A g \in run.placed : backup[me][g] = expects[me][g]
      BY <2>1 DEF IndInv, RunIsSound, Publishing
    <2>4. RunIsSound'
      BY <1>1, <1>2, <2>2, <2>3 DEF RunIsSound, Publishing,
         NoOtherActive, Phase, me, Recovering, store, files
    <2>5. \A i \in Installs : InHand(i)' => marker' = i
      BY <2>2 DEF InHand
    <2> QED
      BY <1>4, <2>2, <2>4, <2>5 DEF me
  <1> QED
    BY <1>5, <1>6, <1>7, <1>8, <1>9, <1>10 DEF RepairRefused, KernelKilled

(* The worker looks at the request, prepares it, and answers it.             *)
LEMMA WorkerStep ==
  ASSUME IndInv, Refuse \/ WriteResult \/ Prepare \/ WritePlan \/ (Startup /\ UNCHANGED marker)
  PROVE  IndInv'
  <1>1. /\ UNCHANGED <<packet, marker, intent, journal, files, expects, touched, faults>>
        /\ checked' \in BOOLEAN
    BY DEF Refuse, WriteResult, Prepare, WritePlan, Startup, queue, store, world, IndInv, Types
  <1>2. ASSUME run' \in RunRecords, run'.at # "idle" => run'.of \in Installs,
               staged' \in [Installs -> BOOLEAN], plan' \in [Installs -> BOOLEAN],
               \A i \in Installs : (plan[i] => plan'[i]) /\ (staged[i] => staged'[i]),
               result' \in [Installs -> {"none", "error", "succeeded", "failed"}],
               ResultsRepeatLedger', RunIsSound',
               \A i \in Installs : InHand(i)' => InHand(i) \/ HandIsSound(i)
        PROVE  IndInv'
    <2>1. Types'
      BY <1>1, <1>2 DEF IndInv, Types, files
    <2> QED
      BY <1>1, <1>2, <2>1, SameFilesStep DEF files
  <1>3. UNCHANGED result => ResultsRepeatLedger'
    BY <1>1 DEF IndInv, RecordsAgree, ResultsRepeatLedger, Recovered
  <1>4. /\ staged \in [Installs -> BOOLEAN] /\ plan \in [Installs -> BOOLEAN]
        /\ result \in [Installs -> {"none", "error", "succeeded", "failed"}]
        /\ run \in RunRecords /\ (run.at # "idle" => me \in Installs /\ expects[me] # None)
    BY DEF IndInv, Types, RunIsSound, me
  <1>5. CASE Refuse
    <2>1. run.at \in {"lookup", "clear"} /\ Leave("reply", "error")
      BY <1>5 DEF Refuse, Reply
    <2>2. /\ run' \in RunRecords /\ run'.at = "reply" /\ run'.of = run.of
          /\ run'.verdict = "error"
      BY <1>4, <2>1, LeaveFacts DEF IndInv, Steps, Verdicts, me
    <2>3. RunIsSound' /\ \A i \in Installs : InHand(i)' => marker' = i
      BY <1>1, <1>4, <2>1, <2>2, AtRest DEF me
    <2>4. /\ UNCHANGED <<plan, result>>
          /\ staged' = staged \/ staged' = [staged EXCEPT ![me] = TRUE]
      BY <1>5 DEF Refuse, queue
    <2>5. staged' \in [Installs -> BOOLEAN] /\ \A i \in Installs : staged[i] => staged'[i]
      BY <1>4, <2>4
    <2>6. \A i \in Installs : InHand(i)' => InHand(i)
      BY <1>1, <2>3 DEF InHand
    <2>7. run'.of \in Installs
      BY <1>4, <2>1, <2>2 DEF me
    <2> QED
      BY <1>2, <1>3, <1>4, <2>2, <2>3, <2>4, <2>5, <2>6, <2>7
  <1>6. CASE WriteResult
    <2>1. run.at = "reply" /\ run' = Idle /\ UNCHANGED <<staged, plan>> /\ me \in Installs
      BY <1>4, <1>6 DEF WriteResult, store
    <2>2. run' \in RunRecords /\ run'.at = "idle"
      BY <2>1, IdleType
    <2>3. RunIsSound' /\ \A i \in Installs : InHand(i)' => marker' = i
      BY <2>2, AtRest
    <2>4. \A i \in Installs : InHand(i)' => InHand(i)
      BY <1>1, <2>3 DEF InHand
    <2>5. result' = result \/ result' = [result EXCEPT ![me] = run.verdict]
      BY <1>6 DEF WriteResult
    <2>6. run.verdict \in {"error", "succeeded", "failed"}
          /\ (run.verdict # "error" => intent[me] = run.verdict)
      BY <2>1 DEF IndInv, RunIsSound
    <2>7. result' \in [Installs -> {"none", "error", "succeeded", "failed"}]
      BY <1>4, <2>5, <2>6
    <2>8. ResultsRepeatLedger'
      BY <1>1, <1>4, <2>1, <2>5, <2>6 DEF IndInv, RecordsAgree, ResultsRepeatLedger, Recovered
    <2> QED
      BY <1>2, <1>4, <2>1, <2>2, <2>3, <2>4, <2>7, <2>8
  <1>7. CASE Prepare
    <2>1. /\ run.at = "lookup" /\ Visible(me) = "none" /\ CanStage /\ Go("plan")
          /\ staged' = [staged EXCEPT ![me] = TRUE] /\ UNCHANGED <<plan, result>>
          /\ me \in Installs /\ expects[me] # None
      BY <1>4, <1>7 DEF Prepare, queue
    <2>2. /\ run' \in RunRecords /\ run'.at = "plan" /\ run'.of = run.of
          /\ run'.recovery = run.recovery /\ run'.retried = run.retried
          /\ run'.placed = run.placed
      BY <2>1, GoFacts DEF IndInv, Steps, me
    <2>3. intent[me] = "none"
      BY <2>1 DEF CanStage, IndInv, RecordsAgree
    <2>4. Phase(me) = "none" /\ ~Lost(me)
      BY <2>1, <2>3 DEF IndInv, RecordsAgree, Lost
    <2>5. HandIsSound(me)
      <3>1. dest = expects[me]
        BY <2>1 DEF CanStage
      <3>2. \A j \in Installs, g \in Files : Lost(j) => expects[me][g] # j
        BY <3>1 DEF IndInv, RecordsAgree
      <3>3. Matches(me)
        BY <3>1 DEF Matches
      <3>4. Uniform(expects[me])
        <4>1. CASE marker = None
          BY <3>1, <4>1 DEF IndInv, FilesAreSound
        <4>2. CASE marker = me
          BY <2>1, <4>2 DEF IndInv, FilesAreSound, InHand, HandIsSound
        <4> QED
          BY <2>1, <4>1, <4>2 DEF CanStage, NoOtherActive
      <3> QED
        BY <3>2, <3>3, <3>4 DEF HandIsSound
    <2>6. ~Recovering /\ run.placed = {}
      BY <2>1 DEF IndInv, RunIsSound
    <2>7. RunIsSound'
      BY <1>1, <1>4, <2>1, <2>2, <2>3, <2>6 DEF RunIsSound, Publishing, NoOtherActive, CanStage,
         Recovering, me
    <2>8. \A i \in Installs : InHand(i)' => InHand(i) \/ HandIsSound(i)
      BY <1>1, <2>2, <2>5 DEF InHand, me
    <2>9. staged' \in [Installs -> BOOLEAN] /\ \A i \in Installs : staged[i] => staged'[i]
      BY <1>4, <2>1
    <2> QED
      BY <1>2, <1>3, <1>4, <2>1, <2>2, <2>7, <2>8, <2>9 DEF me
  <1>8. CASE WritePlan
    <2>1. /\ run.at = "plan" /\ Go("mark") /\ me \in Installs /\ expects[me] # None
          /\ plan' = [plan EXCEPT ![me] = TRUE] /\ UNCHANGED <<staged, result>>
      BY <1>4, <1>8 DEF WritePlan, queue
    <2>2. /\ run' \in RunRecords /\ run'.at = "mark" /\ run'.of = run.of
          /\ run'.recovery = run.recovery /\ run'.retried = run.retried
          /\ run'.placed = run.placed
      BY <2>1, GoFacts DEF IndInv, Steps, me
    <2>3. plan' \in [Installs -> BOOLEAN] /\ plan'[me] /\ \A i \in Installs : plan[i] => plan'[i]
      BY <1>4, <2>1
    <2>4. NoOtherActive /\ intent[me] = "none" /\ staged[me] /\ ~Recovering /\ run.placed = {}
      BY <2>1 DEF IndInv, RunIsSound
    <2>5. RunIsSound'
      BY <1>1, <1>4, <2>1, <2>2, <2>3, <2>4 DEF RunIsSound, Publishing, NoOtherActive,
         Recovering, me
    <2>6. \A i \in Installs : InHand(i)' => InHand(i)
      BY <1>1, <2>1, <2>2 DEF InHand, me
    <2> QED
      BY <1>2, <1>3, <1>4, <2>1, <2>2, <2>3, <2>5, <2>6 DEF me
  <1>9. CASE Startup /\ UNCHANGED marker
    <2>1. /\ run.at = "idle" /\ UNCHANGED <<result, staged, plan>>
          /\ \/ run' = run
             \/ marker # None /\ run' = [Idle EXCEPT !.at = "lookup", !.of = marker, !.startup = TRUE]
      BY <1>9 DEF Startup, queue
    <2>2. /\ run' \in RunRecords
          /\ \/ run'.at = "idle"
             \/ /\ run'.at = "lookup" /\ run'.of \in Installs /\ expects[run'.of] # None
                /\ ~run'.recovery /\ ~run'.retried /\ run'.placed = {}
      <3>1. CASE run' = run
        BY <1>4, <2>1, <3>1
      <3>2. CASE marker # None /\ run' = [Idle EXCEPT !.at = "lookup", !.of = marker, !.startup = TRUE]
        <4>1. marker \in Installs /\ expects[marker] # None
          BY <3>2 DEF IndInv, Types, RecordsAgree
        <4> QED
          BY <3>2, <4>1, IdleType DEF RunRecords, Steps
      <3> QED
        BY <2>1, <3>1, <3>2
    <2>3. RunIsSound' /\ \A i \in Installs : InHand(i)' => marker' = i
      BY <1>1, <2>2, AtRest
    <2>4. \A i \in Installs : InHand(i)' => InHand(i)
      BY <1>1, <2>3 DEF InHand
    <2> QED
      BY <1>2, <1>3, <1>4, <2>1, <2>2, <2>3, <2>4
  <1> QED
    BY <1>5, <1>6, <1>7, <1>8, <1>9

----------------------------------------------------------------------------
(* An installation that left no trace, or that is settled, leaves the files  *)
(* of one generation.                                                        *)
LEMMA Resting ==
  ASSUME IndInv, marker \in Installs,
         Phase(marker) = "none" \/ intent[marker] \in {"succeeded", "failed"}
  PROVE  Uniform(dest)
  <1>1. HandIsSound(marker) /\ ActiveIsSound(marker)
    BY DEF IndInv, FilesAreSound, InHand
  <1>2. CASE intent[marker] = "succeeded"
    <2>1. Phase(marker) = "committed"
      BY <1>2 DEF IndInv, RecordsAgree, Won
    <2> QED
      BY <1>1, <2>1 DEF ActiveIsSound, Uniform
  <1>3. CASE Phase(marker) = "none" \/ intent[marker] = "failed"
    <2>1. Matches(marker) /\ Uniform(expects[marker])
      BY <1>1, <1>3 DEF HandIsSound, Lost
    <2> QED
      BY <2>1 DEF Matches, Uniform
  <1> QED
    BY <1>2, <1>3

(* The marker is withdrawn from an installation that is over.                *)
LEMMA MarkerClearedStep ==
  ASSUME IndInv, Types', RunIsSound',
         marker \in Installs => Phase(marker) = "none" \/ intent[marker] \in {"succeeded", "failed"},
         marker' = None,
         UNCHANGED <<queue, staged, plan, intent, journal, files, expects, touched>>,
         \A i \in Installs : ~InHand(i)'
  PROVE  IndInv'
  <1>1. BytesAreKnown'
    BY DEF IndInv, BytesAreKnown, Phase, files
  <1>2. RecordsAgree'
    BY ConstantsAssumption
       DEF IndInv, RecordsAgree, Phase, Won, Lost, ResultsRepeatLedger, Recovered, queue, files
  <1>3. Uniform(dest)'
    <2>1. Uniform(dest)
      BY Resting DEF IndInv, FilesAreSound, Types
    <2> QED
      BY <2>1 DEF Uniform, files
  <1>4. FilesAreSound'
    BY <1>3, ConstantsAssumption DEF FilesAreSound
  <1> QED
    BY <1>1, <1>2, <1>4 DEF IndInv

LEMMA MarkerStep ==
  ASSUME IndInv, \/ (Startup /\ marker' # marker) \/ ReplayTerminal \/ CancelStaged
                 \/ WriteMarker \/ ClearMarker
  PROVE  IndInv'
  <1>1. /\ UNCHANGED <<queue, staged, plan, intent, journal, files, expects, touched, faults>>
        /\ checked' \in BOOLEAN
    BY DEF ReplayTerminal, CancelStaged, WriteMarker, ClearMarker, Startup, world, IndInv, Types
  <1>2. ASSUME run' \in RunRecords, run'.at # "idle" => run'.of \in Installs,
               marker' \in Installs \cup {None}
        PROVE  Types'
    BY <1>1, <1>2 DEF IndInv, Types, queue, files
  <1>3. run \in RunRecords /\ (run.at # "idle" => me \in Installs /\ expects[me] # None)
    BY DEF IndInv, Types, RunIsSound, me
  <1>4. CASE Startup /\ marker' # marker
    <2>1. /\ run.at = "idle" /\ run' = run /\ marker' = None /\ marker # None
          /\ Phase(marker) = "none"
      BY <1>4 DEF Startup, Phase
    <2>2. RunIsSound' /\ \A i \in Installs : InHand(i)' => marker' = i
      BY <2>1, AtRest
    <2>3. Types'
      BY <1>2, <1>3, <2>1
    <2> QED
      BY <1>1, <2>1, <2>2, <2>3, MarkerClearedStep, ConstantsAssumption
  <1>5. CASE ReplayTerminal
    <2>1. /\ run.at = "lookup" /\ Visible(me) \in {"succeeded", "failed"}
          /\ Leave("reply", Visible(me)) /\ marker' = IF marker = me THEN None ELSE marker
      BY <1>5 DEF ReplayTerminal, Reply
    <2>2. intent[me] = Visible(me)
      BY <2>1 DEF Visible
    <2>3. /\ run' \in RunRecords /\ run'.at = "reply" /\ run'.of = run.of
          /\ run'.verdict = Visible(me)
      BY <1>3, <2>1, LeaveFacts DEF IndInv, Steps, Verdicts, me
    <2>4. RunIsSound'
      BY <1>1, <1>3, <2>1, <2>2, <2>3 DEF RunIsSound, Publishing, me
    <2>5. \A i \in Installs : InHand(i)' => marker' = i
      BY <2>3 DEF InHand
    <2>6. marker \in Installs \cup {None}
      BY DEF IndInv, Types
    <2>7. Types'
      BY <1>2, <1>3, <2>1, <2>3, <2>6 DEF me
    <2>8. CASE marker = me
      BY <1>1, <2>1, <2>2, <2>4, <2>5, <2>7, <2>8, MarkerClearedStep, ConstantsAssumption
    <2>9. CASE marker # me
      <3>1. marker' = marker /\ \A i \in Installs : InHand(i)' => InHand(i)
        BY <2>1, <2>5, <2>9 DEF InHand
      <3>2. ResultsRepeatLedger'
        BY <1>1 DEF IndInv, RecordsAgree, ResultsRepeatLedger, Recovered, queue
      <3> QED
        BY <1>1, <2>4, <2>7, <3>1, <3>2, SameFilesStep DEF queue, files
    <2> QED
      BY <2>8, <2>9
  <1>6. CASE CancelStaged
    <2>1. run.at = "admit" /\ Phase(me) = "none" /\ marker' = None /\ Leave("reply", "error")
      BY <1>6 DEF CancelStaged, Reply, Phase
    <2>2. /\ run' \in RunRecords /\ run'.at = "reply" /\ run'.of = run.of
          /\ run'.verdict = "error" /\ marker = me
      BY <1>3, <2>1, LeaveFacts DEF IndInv, Steps, Verdicts, me, RunIsSound
    <2>3. RunIsSound' /\ \A i \in Installs : InHand(i)' => marker' = i
      BY <1>1, <1>3, <2>1, <2>2, AtRest DEF me
    <2>4. Types'
      BY <1>2, <1>3, <2>1, <2>2 DEF me
    <2> QED
      BY <1>1, <2>1, <2>2, <2>3, <2>4, MarkerClearedStep, ConstantsAssumption
  <1>7. CASE ClearMarker
    <2>1. run.at = "clear" /\ NoOtherActive /\ marker' = None /\ Go("reply")
      BY <1>7 DEF ClearMarker
    <2>2. /\ run' \in RunRecords /\ run'.at = "reply" /\ run'.of = run.of
          /\ run'.verdict = run.verdict
      BY <1>3, <2>1, GoFacts DEF IndInv, Steps, me
    <2>3. run.verdict \in {"succeeded", "failed"} /\ intent[me] = run.verdict
      BY <2>1 DEF IndInv, RunIsSound
    <2>4. RunIsSound'
      BY <1>1, <1>3, <2>1, <2>2, <2>3 DEF RunIsSound, Publishing, me
    <2>5. \A i \in Installs : InHand(i)' => marker' = i
      BY <2>2 DEF InHand
    <2>6. Types'
      BY <1>2, <1>3, <2>1, <2>2 DEF me
    <2> QED
      BY <1>1, <2>1, <2>3, <2>4, <2>5, <2>6, MarkerClearedStep, ConstantsAssumption
         DEF NoOtherActive
  <1>8. CASE WriteMarker
    <2>1. /\ run.at = "mark" /\ marker' = me /\ Go("admit") /\ me \in Installs
          /\ expects[me] # None /\ NoOtherActive /\ InHand(me)
      BY <1>3, <1>8 DEF WriteMarker, InHand, IndInv, RunIsSound
    <2>2. /\ run' \in RunRecords /\ run'.at = "admit" /\ run'.of = run.of
          /\ run'.recovery = run.recovery /\ run'.retried = run.retried
          /\ run'.placed = run.placed
      BY <2>1, GoFacts DEF IndInv, Steps, me
    <2>3. staged[me] /\ plan[me] /\ ~Recovering /\ intent[me] = "none" /\ run.placed = {}
      BY <2>1 DEF IndInv, RunIsSound
    <2>4. Phase(me) = "none"
      BY <2>1, <2>3 DEF IndInv, RecordsAgree
    <2>5. RunIsSound'
      BY <1>1, <2>1, <2>2, <2>3 DEF RunIsSound, Publishing, NoOtherActive, Recovering, me
    <2>6. Types'
      BY <1>2, <2>1, <2>2 DEF me
    <2>7. BytesAreKnown'
      BY <1>1 DEF IndInv, BytesAreKnown, Phase, files
    <2>8. RecordsAgree'
      BY <1>1, <2>1, ConstantsAssumption DEF IndInv, RecordsAgree, NoOtherActive, Phase, Won, Lost,
         ResultsRepeatLedger, Recovered, queue, files
    <2>9. FilesAreSound'
      <3>1. \A i \in Installs : (InHand(i)' => i = me) /\ (marker' = i => i = me)
        BY <2>1, <2>2 DEF InHand, me
      <3>2. HandIsSound(me)
        BY <2>1 DEF IndInv, FilesAreSound
      <3>3. HandIsSound(me)'
        BY <1>1, <2>2, <3>2 DEF HandIsSound, Uniform, Matches, Phase, Lost, files, me
      <3>4. ActiveIsSound(me)'
        BY <1>1, <2>2, <2>4, <3>2 DEF HandIsSound, ActiveIsSound, Restorable, Matches, Phase,
           files, me
      <3>5. marker' # None /\ me' = me
        BY <2>1, <2>2, ConstantsAssumption DEF me
      <3> QED
        BY <3>1, <3>3, <3>4, <3>5 DEF FilesAreSound
    <2> QED
      BY <2>5, <2>6, <2>7, <2>8, <2>9 DEF IndInv
  <1> QED
    BY <1>4, <1>5, <1>6, <1>7, <1>8

----------------------------------------------------------------------------
(* The ledger entry of one installation moves on.                            *)
LEMMA IntentStep ==
  ASSUME IndInv, Types', RunIsSound', NEW i \in Installs, NEW x \in Intents,
         intent' = [intent EXCEPT ![i] = x],
         UNCHANGED <<queue, staged, plan, marker, journal, files, expects, touched>>,
         plan[i] /\ staged[i],
         Phase(i) # "none" =>
            x \notin {"none", "admitting"} /\ (marker = i \/ x \in {"succeeded", "failed"}),
         Won(i)' => Phase(i) = "committed",
         Lost(i)' /\ ~Lost(i) =>
            /\ Phase(i) \in {"none", "rolled_back"} /\ \A g \in Files : dest[g] # i
            /\ marker = i => Matches(i)
            /\ \A j \in Installs : InHand(j) => j = i,
         \A j \in Installs : InHand(j)' => InHand(j),
         result[i] \in {"succeeded", "failed"} => Recovered(i)' = result[i]
  PROVE  IndInv'
  <1>1. BytesAreKnown'
    BY DEF IndInv, BytesAreKnown, Phase, files
  <1>2. /\ intent'[i] = x /\ \A j \in Installs : j # i => intent'[j] = intent[j]
        /\ intent \in [Installs -> Intents]
    BY DEF IndInv, Types
  <1>3. \A j \in Installs : (Phase(j)' = Phase(j)) /\ (Matches(j)' <=> Matches(j))
    BY DEF Phase, Matches, files
  <1>4. \A j \in Installs : j # i => (Lost(j)' <=> Lost(j)) /\ (Won(j)' <=> Won(j))
    BY <1>2 DEF Lost, Won
  <1>5. RecordsAgree'
    <2>1. ASSUME NEW j \in Installs
          PROVE  (/\ packet[j] \/ marker = j => expects[j] # None
                  /\ intent[j] # "none" => plan[j] /\ staged[j]
                  /\ Phase(j) # "none" => /\ expects[j] # None
                                          /\ intent[j] \notin {"none", "admitting"}
                                          /\ marker = j \/ intent[j] \in {"succeeded", "failed"}
                  /\ Won(j) => Phase(j) = "committed"
                  /\ Lost(j) => /\ Phase(j) \in {"none", "rolled_back"}
                                /\ \A g \in Files : dest[g] # j)'
      <3>1. CASE j = i
        BY <1>2, <1>3, <3>1 DEF IndInv, RecordsAgree, queue, files
      <3>2. CASE j # i
        BY <1>2, <1>3, <1>4, <3>2 DEF IndInv, RecordsAgree, queue, files
      <3> QED
        BY <3>1, <3>2
    <2>2. ResultsRepeatLedger'
      BY <1>2 DEF IndInv, RecordsAgree, ResultsRepeatLedger, Recovered, queue
    <2> QED
      BY <2>1, <2>2 DEF RecordsAgree
  <1>6. FilesAreSound'
    <2>1. (marker = None => Uniform(dest))'
      BY DEF IndInv, FilesAreSound, Uniform, files
    <2>2. ASSUME NEW j \in Installs, InHand(j)' PROVE HandIsSound(j)'
      <3>1. HandIsSound(j) /\ InHand(j)
        BY <2>2 DEF IndInv, FilesAreSound
      <3>2. Uniform(expects[j])'
        BY <3>1 DEF HandIsSound, Uniform
      <3>3. \A k \in Installs, g \in Files : Lost(k)' => expects[j][g] # k
        <4>1. CASE Lost(i)' /\ ~Lost(i)
          <5>1. j = i
            BY <3>1, <4>1
          <5>2. expects[j] # None => \A g \in Files : expects[j][g] # j
            BY DEF IndInv, BytesAreKnown
          <5>3. expects[j] # None
            BY <3>1 DEF InHand, IndInv, RecordsAgree, RunIsSound, me
          <5> QED
            BY <1>4, <3>1, <5>1, <5>2, <5>3 DEF HandIsSound
        <4>2. CASE Lost(i)' => Lost(i)
          BY <1>4, <3>1, <4>2 DEF HandIsSound
        <4> QED
          BY <4>1, <4>2
      <3>4. Phase(j) = "none" \/ Lost(j)' => Matches(j)
        <4>1. CASE j = i /\ Lost(i)' /\ ~Lost(i)
          BY <3>1, <4>1 DEF HandIsSound, IndInv, RecordsAgree, Won, Lost
        <4>2. CASE Lost(j)' => Lost(j)
          BY <3>1, <4>2 DEF HandIsSound
        <4> QED
          BY <1>4, <4>1, <4>2
      <3> QED
        BY <1>3, <3>2, <3>3, <3>4 DEF HandIsSound
    <2>3. ASSUME NEW j \in Installs, marker' = j PROVE ActiveIsSound(j)'
      BY <2>3 DEF IndInv, FilesAreSound, ActiveIsSound, Restorable, Phase, files
    <2> QED
      BY <2>1, <2>2, <2>3 DEF FilesAreSound
  <1> QED
    BY <1>1, <1>5, <1>6 DEF IndInv

(* Completing a journaled entry keeps what it says.                          *)
LEMMA RecoveredStep ==
  ASSUME IndInv, Types', RunIsSound', NEW i \in Installs, intent[i] # "none",
         intent' = [intent EXCEPT ![i] = Recovered(i)],
         UNCHANGED <<queue, staged, plan, marker, journal, files, expects, touched>>,
         \A j \in Installs : InHand(j)' => InHand(j)
  PROVE  IndInv'
  <1>1. intent[i] \in Intents /\ intent'[i] = Recovered(i)
    BY DEF IndInv, Types
  <1>2. Recovered(i) \in Intents /\ Recovered(i)' = Recovered(i)
    BY <1>1 DEF Recovered, Intents
  <1>3. (Won(i)' => Won(i)) /\ (Lost(i)' => Lost(i))
    BY <1>1 DEF Recovered, Won, Lost, Intents
  <1>4. plan[i] /\ staged[i]
    BY DEF IndInv, RecordsAgree
  <1>5. Phase(i) # "none" => /\ Recovered(i) \notin {"none", "admitting"}
                             /\ marker = i \/ Recovered(i) \in {"succeeded", "failed"}
    BY <1>1 DEF IndInv, RecordsAgree, Recovered, Intents
  <1>6. result[i] \in {"succeeded", "failed"} => Recovered(i)' = result[i]
    BY <1>2 DEF IndInv, RecordsAgree, ResultsRepeatLedger
  <1>7. Won(i)' => Phase(i) = "committed"
    BY <1>3 DEF IndInv, RecordsAgree
  <1> QED
    BY <1>2, <1>3, <1>4, <1>5, <1>6, <1>7, IntentStep

LEMMA IntentsStep ==
  ASSUME IndInv, \/ RecoverOpen \/ Admit \/ Admitted \/ Settle \/ Settled
                 \/ \E i \in Installs : AcceptAnother(i)
  PROVE  IndInv'
  <1>1. /\ UNCHANGED <<queue, staged, plan, marker, journal, files, checked, world>>
        /\ \A i \in Installs : InHand(i)' => marker' = i \/ run'.at \in {"plan", "mark"}
    BY DEF RecoverOpen, Admit, Admitted, Settle, Settled, AcceptAnother, InHand
  <1>2. UNCHANGED <<expects, touched, faults>>
    BY <1>1 DEF world
  <1>3. ASSUME run' \in RunRecords, run'.at \notin {"idle", "plan", "mark"}, run'.of = me,
               me \in Installs, intent' \in [Installs -> Intents]
        PROVE  Types' /\ \A j \in Installs : InHand(j)' => InHand(j)
    BY <1>1, <1>2, <1>3 DEF IndInv, Types, InHand, queue, files
  <1>4. /\ run \in RunRecords /\ (run.at # "idle" => me \in Installs /\ expects[me] # None)
        /\ intent \in [Installs -> Intents]
    BY DEF IndInv, Types, RunIsSound, me
  <1>5. \A i \in Installs : Recovered(i) \in Intents
    BY <1>4 DEF Recovered, Intents
  <1>6. CASE RecoverOpen
    <2>1. /\ run.at = "lookup" /\ Visible(me) = "open" /\ NoOtherActive /\ me \in Installs
          /\ intent' = [intent EXCEPT ![me] = Recovered(me)]
          /\ run' = [run EXCEPT !.at = "kernel", !.recovery = TRUE] /\ expects[me] # None
      BY <1>4, <1>6 DEF RecoverOpen
    <2>2. /\ run' \in RunRecords /\ run'.at = "kernel" /\ run'.of = me /\ run'.recovery
          /\ run'.placed = {}
      <3>1. run.placed = {}
        BY <2>1 DEF IndInv, RunIsSound
      <3> QED
        BY <1>4, <2>1, <3>1 DEF RunRecords, Steps, KernelSteps, me
    <2>3. intent[me] \in {"open", "succeeding", "failing"}
      BY <2>1 DEF Visible
    <2>4. intent' \in [Installs -> Intents] /\ intent'[me] \in {"open", "succeeded", "failed"}
      BY <1>4, <1>5, <2>1, <2>3 DEF Recovered
    <2>5. Phase(me) # "none" => marker = me
      BY <2>1, <2>3 DEF IndInv, RecordsAgree
    <2>6. RunIsSound'
      BY <1>1, <1>2, <2>1, <2>2, <2>4, <2>5 DEF RunIsSound, Publishing, NoOtherActive, Recovering,
         Phase, me
    <2> QED
      BY <1>1, <1>2, <1>3, <2>1, <2>2, <2>3, <2>4, <2>6, RecoveredStep
  <1>7. CASE Admit
    <2>1. /\ run.at = "admit" /\ Go("admitting") /\ me \in Installs /\ expects[me] # None
          /\ intent' = [intent EXCEPT ![me] = "admitting"]
      BY <1>4, <1>7 DEF Admit
    <2>2. /\ run' \in RunRecords /\ run'.at = "admitting" /\ run'.of = run.of
          /\ run'.recovery = run.recovery /\ run'.retried = run.retried
          /\ run'.placed = run.placed
      BY <2>1, GoFacts DEF IndInv, Steps, me
    <2>3. intent' \in [Installs -> Intents] /\ intent'[me] = "admitting" /\ "admitting" \in Intents
      BY <1>4, <2>1 DEF Intents
    <2>4. /\ marker = me /\ intent[me] = "none" /\ staged[me] /\ plan[me] /\ ~Recovering
          /\ NoOtherActive /\ run.placed = {}
      BY <2>1 DEF IndInv, RunIsSound
    <2>5. RunIsSound'
      BY <1>1, <1>2, <2>1, <2>2, <2>3, <2>4 DEF RunIsSound, Publishing, NoOtherActive, Recovering,
         Phase, me
    <2>6. Types' /\ \A j \in Installs : InHand(j)' => InHand(j)
      BY <1>3, <2>1, <2>2, <2>3 DEF me
    <2>7. /\ ~Won(me)' /\ ~Lost(me)' /\ Phase(me) = "none"
          /\ result[me] \notin {"succeeded", "failed"}
      BY <2>1, <2>2, <2>3, <2>4 DEF Won, Lost, IndInv, RecordsAgree, ResultsRepeatLedger,
         Recovered, me
    <2> QED
      <3> PICK i \in Installs : i = me
        BY <2>1
      <3>1. /\ intent' = [intent EXCEPT ![i] = "admitting"]
            /\ plan[i] /\ staged[i] /\ Phase(i) = "none"
            /\ intent'[i] = "admitting" /\ result[i] \notin {"succeeded", "failed"}
        BY <2>1, <2>3, <2>4, <2>7
      <3>2. ~Lost(i)' /\ ~Won(i)'
        BY <3>1 DEF Lost, Won
      <3> QED
        BY <1>1, <1>2, <2>3, <2>5, <2>6, <3>1, <3>2, IntentStep
  <1>8. CASE Admitted
    <2>1. /\ run.at = "admitting" /\ Go("kernel") /\ me \in Installs /\ expects[me] # None
          /\ intent' = [intent EXCEPT ![me] = Recovered(me)]
      BY <1>4, <1>8 DEF Admitted
    <2>2. /\ run' \in RunRecords /\ run'.at = "kernel" /\ run'.of = run.of
          /\ run'.recovery = run.recovery /\ run'.retried = run.retried
          /\ run'.placed = run.placed
      BY <2>1, GoFacts DEF IndInv, Steps, KernelSteps, me
    <2>3. marker = me /\ intent[me] = "admitting" /\ ~Recovering /\ run.placed = {}
      BY <2>1 DEF IndInv, RunIsSound
    <2>4. intent' \in [Installs -> Intents] /\ intent'[me] = "open" /\ Phase(me) = "none"
      BY <1>4, <1>5, <2>1, <2>3 DEF Recovered, IndInv, RecordsAgree
    <2>5. RunIsSound'
      BY <1>1, <1>2, <2>1, <2>2, <2>3, <2>4 DEF RunIsSound, Publishing, NoOtherActive, Recovering,
         Phase, me
    <2> QED
      BY <1>1, <1>2, <1>3, <2>1, <2>2, <2>3, <2>4, <2>5, RecoveredStep DEF me
  <1>9. CASE Settled
    <2>1. /\ run.at = "settling" /\ Go("clear") /\ me \in Installs /\ expects[me] # None
          /\ intent' = [intent EXCEPT ![me] = Recovered(me)]
      BY <1>4, <1>9 DEF Settled
    <2>2. /\ run' \in RunRecords /\ run'.at = "clear" /\ run'.of = run.of
          /\ run'.verdict = run.verdict
      BY <2>1, GoFacts DEF IndInv, Steps, me
    <2>3. /\ NoOtherActive /\ run.verdict \in {"succeeded", "failed"}
          /\ intent[me] = IF run.verdict = "succeeded" THEN "succeeding" ELSE "failing"
      BY <2>1 DEF IndInv, RunIsSound
    <2>4. intent' \in [Installs -> Intents] /\ intent'[me] = run.verdict
      BY <1>4, <1>5, <2>1, <2>3 DEF Recovered
    <2>5. RunIsSound'
      BY <1>1, <1>2, <2>1, <2>2, <2>3, <2>4 DEF RunIsSound, Publishing, NoOtherActive, Recovering,
         Phase, me
    <2> QED
      BY <1>1, <1>2, <1>3, <2>1, <2>2, <2>3, <2>4, <2>5, RecoveredStep DEF me
  <1>10. CASE \E i \in Installs : AcceptAnother(i)
    <2> PICK i \in Installs : AcceptAnother(i)
      BY <1>10
    <2>1. /\ run.at = "idle" /\ run' = run /\ intent[i] # Recovered(i)
          /\ intent' = [intent EXCEPT ![i] = Recovered(i)]
      BY DEF AcceptAnother
    <2>2. intent[i] # "none"
      BY <2>1 DEF Recovered
    <2>3. intent' \in [Installs -> Intents]
      BY <1>4, <1>5, <2>1
    <2>4. Types'
      BY <1>1, <1>2, <2>1, <2>3 DEF IndInv, Types, queue, files
    <2>5. RunIsSound' /\ \A j \in Installs : InHand(j)' => marker' = j
      BY <2>1, AtRest
    <2>6. \A j \in Installs : InHand(j)' => InHand(j)
      BY <1>1, <2>5 DEF InHand
    <2> QED
      BY <1>1, <1>2, <2>1, <2>2, <2>4, <2>5, <2>6, RecoveredStep
  <1>11. CASE Settle
    <2>1. /\ run.at = "settle" /\ me \in Installs /\ expects[me] # None
          /\ NoOtherActive /\ intent[me] \in {"open", "succeeded", "failed"}
          /\ Phase(me) # "none" => marker = me
          /\ run.verdict \in {"succeeded", "failed"}
          /\ run.verdict = "succeeded" => Phase(me) = "committed"
          /\ run.verdict = "failed" =>
                /\ Phase(me) \in {"none", "rolled_back"} /\ \A g \in Files : dest[g] # me
                /\ marker = me => Matches(me)
      BY <1>4, <1>11 DEF Settle, IndInv, RunIsSound
    <2>2. Recovered(me) = intent[me]
      BY <2>1 DEF Recovered
    <2>3. CASE /\ Recovered(me) = "open" /\ Go("settling")
               /\ intent' = [intent EXCEPT ![me] =
                                IF run.verdict = "succeeded" THEN "succeeding" ELSE "failing"]
      <3> PICK i \in Installs : i = me
        BY <2>1
      <3> DEFINE x == IF run.verdict = "succeeded" THEN "succeeding" ELSE "failing"
      <3>1. /\ run' \in RunRecords /\ run'.at = "settling" /\ run'.of = run.of
            /\ run'.verdict = run.verdict
        BY <2>1, <2>3, GoFacts DEF IndInv, Steps, me
      <3>2. x \in Intents /\ intent' \in [Installs -> Intents] /\ intent'[i] = x
        BY <1>4, <2>1, <2>3 DEF Intents
      <3>3. RunIsSound'
        BY <1>1, <1>2, <2>1, <3>1, <3>2 DEF RunIsSound, Publishing, NoOtherActive, Recovering,
           Phase, me
      <3>4. Types' /\ \A j \in Installs : InHand(j)' => InHand(j)
        BY <1>3, <2>1, <3>1, <3>2 DEF me
      <3>5. /\ intent' = [intent EXCEPT ![i] = x]
            /\ x \in {"succeeding", "failing"}
            /\ plan[i] /\ staged[i] /\ (Phase(i) # "none" => marker = i)
            /\ x = "succeeding" => Phase(i) = "committed"
            /\ x = "failing" => /\ Phase(i) \in {"none", "rolled_back"}
                                /\ \A g \in Files : dest[g] # i
                                /\ marker = i => Matches(i)
        BY <2>1, <2>2, <2>3 DEF IndInv, RecordsAgree
      <3>6. (Won(i)' => x = "succeeding") /\ (Lost(i)' => x = "failing")
        BY <3>2 DEF Won, Lost
      <3>7. \A j \in Installs : InHand(j) => j = i
        BY <2>1, ConstantsAssumption DEF InHand, NoOtherActive
      <3>8. result[i] \notin {"succeeded", "failed"}
        BY <2>3 DEF IndInv, RecordsAgree, ResultsRepeatLedger
      <3> HIDE DEF x
      <3> QED
        BY <1>1, <1>2, <3>2, <3>3, <3>4, <3>5, <3>6, <3>7, <3>8, IntentStep
    <2>4. CASE /\ Recovered(me) = run.verdict /\ Go("clear")
               /\ intent' = [intent EXCEPT ![me] = Recovered(me)]
      <3>1. /\ run' \in RunRecords /\ run'.at = "clear" /\ run'.of = run.of
            /\ run'.verdict = run.verdict
        BY <2>1, <2>4, GoFacts DEF IndInv, Steps, me
      <3>2. intent' \in [Installs -> Intents] /\ intent'[me] = run.verdict
        BY <1>4, <1>5, <2>1, <2>4
      <3>3. RunIsSound'
        BY <1>1, <1>2, <2>1, <3>1, <3>2 DEF RunIsSound, Publishing, NoOtherActive, Recovering,
           Phase, me
      <3> QED
        BY <1>1, <1>2, <1>3, <2>1, <2>4, <3>1, <3>2, <3>3, RecoveredStep DEF me
    <2>5. CASE Leave("reply", "error") /\ UNCHANGED intent
      <3>1. /\ run' \in RunRecords /\ run'.at = "reply" /\ run'.of = run.of
            /\ run'.verdict = "error"
        BY <2>1, <2>5, LeaveFacts DEF IndInv, Steps, Verdicts, me
      <3>2. RunIsSound' /\ \A i \in Installs : InHand(i)' => marker' = i
        BY <1>2, <2>1, <3>1, AtRest DEF me
      <3>3. Types' /\ \A j \in Installs : InHand(j)' => InHand(j)
        BY <1>3, <1>4, <2>1, <2>5, <3>1 DEF me
      <3>4. ResultsRepeatLedger'
        BY <1>1, <2>5 DEF IndInv, RecordsAgree, ResultsRepeatLedger, Recovered, queue
      <3> QED
        BY <1>1, <1>2, <2>5, <3>2, <3>3, <3>4, SameFilesStep DEF queue, files
    <2> QED
      BY <1>11, <2>3, <2>4, <2>5 DEF Settle, Reply
  <1> QED
    BY <1>6, <1>7, <1>8, <1>9, <1>10, <1>11

----------------------------------------------------------------------------
(* The journal of the active installation moves on.                          *)
LEMMA JournalStep ==
  ASSUME IndInv, Types', RunIsSound', NEW i \in Installs,
         marker = i, intent[i] \in {"open", "failed"}, Phase(i) # "committed",
         \A j \in Installs : j # i => Phase(j)' = Phase(j),
         Phase(i)' # "none",
         Phase(i)' = "committed" => \A g \in Files : dest[g] = i,
         intent[i] = "failed" => Phase(i)' = "rolled_back",
         UNCHANGED <<queue, store, files, expects, touched>>,
         \A j \in Installs : InHand(j)' => InHand(j)
  PROVE  IndInv'
  <1>1. BytesAreKnown'
    BY DEF IndInv, BytesAreKnown, files
  <1>2. \A j \in Installs : (Lost(j)' <=> Lost(j)) /\ (Won(j)' <=> Won(j))
    BY DEF Lost, Won, store
  <1>3. ~Won(i) /\ (Lost(i) => intent[i] = "failed") /\ expects[i] # None
    BY DEF Won, Lost, IndInv, RecordsAgree
  <1>4. RecordsAgree'
    <2>1. ASSUME NEW j \in Installs
          PROVE  (/\ packet[j] \/ marker = j => expects[j] # None
                  /\ intent[j] # "none" => plan[j] /\ staged[j]
                  /\ Phase(j) # "none" => /\ expects[j] # None
                                          /\ intent[j] \notin {"none", "admitting"}
                                          /\ marker = j \/ intent[j] \in {"succeeded", "failed"}
                  /\ Won(j) => Phase(j) = "committed"
                  /\ Lost(j) => /\ Phase(j) \in {"none", "rolled_back"}
                                /\ \A g \in Files : dest[g] # j)'
      <3>1. CASE j = i
        BY <1>2, <1>3, <3>1 DEF IndInv, RecordsAgree, queue, store, files
      <3>2. CASE j # i
        BY <1>2, <3>2 DEF IndInv, RecordsAgree, queue, store, files
      <3> QED
        BY <3>1, <3>2
    <2>2. ResultsRepeatLedger'
      BY DEF IndInv, RecordsAgree, ResultsRepeatLedger, Recovered, queue, store
    <2> QED
      BY <2>1, <2>2 DEF RecordsAgree
  <1>5. FilesAreSound'
    <2>1. (marker = None => Uniform(dest))'
      BY DEF IndInv, FilesAreSound, Uniform, store, files
    <2>2. ASSUME NEW j \in Installs, InHand(j)' PROVE HandIsSound(j)'
      <3>1. HandIsSound(j)
        BY <2>2 DEF IndInv, FilesAreSound
      <3>2. Matches(j)' <=> Matches(j)
        BY DEF Matches, files
      <3>3. Uniform(expects[j])' <=> Uniform(expects[j])
        BY DEF Uniform
      <3>4. Phase(j)' = "none" => Phase(j) = "none"
        BY DEF Phase
      <3> QED
        BY <1>2, <3>1, <3>2, <3>3, <3>4 DEF HandIsSound
    <2>3. ActiveIsSound(i)'
      <3>1. Restorable(i)
        BY DEF IndInv, FilesAreSound, ActiveIsSound
      <3>2. Restorable(i)'
        BY <3>1 DEF Restorable, files
      <3> QED
        BY <3>2 DEF ActiveIsSound, files
    <2> QED
      BY <2>1, <2>2, <2>3 DEF FilesAreSound, store
  <1> QED
    BY <1>1, <1>4, <1>5 DEF IndInv

(* Recording something in the journal of the run                             *)
LEMMA RecordFacts ==
  ASSUME IndInv, me \in Installs, NEW p \in Phases, NEW d \in 0 .. N, Record(p, d)
  PROVE  /\ journal' \in [Installs -> [phase : Phases, done : 0 .. N]]
         /\ journal'[me].phase = p
         /\ \A j \in Installs : j # me => journal'[j] = journal[j]
  <1>1. journal \in [Installs -> [phase : Phases, done : 0 .. N]]
    BY DEF IndInv, Types
  <1>2. journal' = [journal EXCEPT ![me] = [phase |-> p, done |-> d]]
    BY DEF Record
  <1> QED
    BY <1>1, <1>2

LEMMA JournalsStep ==
  ASSUME IndInv, KernelStart \/ Frontier \/ Complete \/ Commit \/ RolledBack \/ Repaired
  PROVE  IndInv'
  <1>1. /\ UNCHANGED <<queue, store, files, checked, expects, touched, faults>>
        /\ run.at \in KernelSteps
    BY DEF KernelStart, Frontier, Complete, Commit, RolledBack, Repaired, world, KernelSteps
  <1>2. /\ me \in Installs /\ expects[me] # None /\ NoOtherActive /\ run \in RunRecords
        /\ Phase(me) # "none" => marker = me
    BY <1>1, InKernel DEF IndInv, Types
  <1>3. PICK i \in Installs : i = me
    BY <1>2
  <1>4. journal[i] \in [phase : Phases, done : 0 .. N] /\ journal[i].done \in 0 .. N
    BY <1>3 DEF IndInv, Types
  <1>5. marker = i
    BY <1>2, <1>3
       DEF KernelStart, Frontier, Complete, Commit, RolledBack, Repaired, IndInv, RunIsSound,
           Publishing
  <1>6. intent[i] \in {"open", "failed"} /\ Phase(i) # "committed"
    BY <1>3 DEF KernelStart, Frontier, Complete, Commit, RolledBack, Repaired, IndInv, RunIsSound,
                Publishing, Phase, Recovering, me
  <1>7. run.at # "repair" => intent[i] = "open"
    BY <1>1, <1>3
       DEF KernelStart, Frontier, Complete, Commit, RolledBack, Repaired, IndInv, RunIsSound,
           Publishing
  <1>8. ASSUME NEW p \in Phases \ {"none"}, NEW d \in 0 .. N, Record(p, d),
               run' \in RunRecords, run'.at \notin {"idle", "plan", "mark"}, run'.of = me,
               RunIsSound', p = "committed" => AllNew,
               run.at = "repair" => p = "rolled_back"
        PROVE  IndInv'
    <2>1. /\ journal' \in [Installs -> [phase : Phases, done : 0 .. N]]
          /\ Phase(i)' = p /\ \A j \in Installs : j # i => Phase(j)' = Phase(j)
      BY <1>2, <1>3, <1>8, RecordFacts DEF Phase
    <2>2. Types'
      BY <1>1, <1>2, <1>8, <2>1 DEF IndInv, Types, queue, store, files, me
    <2>3. \A j \in Installs : InHand(j)' => InHand(j)
      BY <1>1, <1>8 DEF InHand, store
    <2>4. p = "committed" => \A g \in Files : dest[g] = i
      BY <1>3, <1>8 DEF AllNew
    <2> QED
      BY <1>1, <1>5, <1>6, <1>7, <1>8, <2>1, <2>2, <2>3, <2>4, JournalStep
  <1>9. CASE KernelStart
    <2>1. /\ run.at = "kernel" /\ ~Recovering /\ Record("preparing", 0)
          /\ run' = [run EXCEPT !.at = "frontier", !.next = 1]
      BY <1>9 DEF KernelStart
    <2>2. 1 \in 0 .. N + 1 /\ 1 \in Files /\ 0 \in 0 .. N /\ "frontier" \in Steps
          /\ "preparing" \in Phases \ {"none"}
      BY ConstantsAssumption DEF Files, Steps, KernelSteps, Phases
    <2>3. /\ run' \in RunRecords /\ run'.at = "frontier" /\ run'.of = run.of /\ run'.next = 1
          /\ run'.recovery = run.recovery /\ run'.retried = run.retried
          /\ run'.placed = run.placed
      BY <1>2, <2>1, <2>2 DEF RunRecords
    <2>4. run.placed = {} /\ intent[me] = "open"
      BY <1>3, <1>7, <2>1 DEF IndInv, RunIsSound
    <2>5. journal'[me].phase = "preparing"
      BY <1>2, <2>1, <2>2, RecordFacts
    <2>6. RunIsSound'
      BY <1>1, <1>2, <1>3, <1>5, <2>1, <2>2, <2>3, <2>4, <2>5
         DEF RunIsSound, Publishing, NoOtherActive, Recovering, Phase, me, file, store, files
    <2> QED
      BY <1>8, <2>1, <2>2, <2>3, <2>6 DEF me
  <1>10. CASE Frontier
    <2>1. run.at = "frontier" /\ Record("publishing", file - 1) /\ Go("vacate")
      BY <1>10 DEF Frontier
    <2>2. /\ intent[me] = "open" /\ ~Recovering /\ file \in Files
          /\ \A g \in run.placed : backup[me][g] = expects[me][g]
          /\ \A g \in run.placed : g < file
      BY <2>1 DEF IndInv, RunIsSound, Publishing
    <2>3. file - 1 \in 0 .. N /\ "publishing" \in Phases \ {"none"} /\ "vacate" \in Steps
      BY <2>2, ConstantsAssumption DEF Files, Phases, Steps, KernelSteps
    <2>4. /\ run' \in RunRecords /\ run'.at = "vacate" /\ run'.of = run.of /\ run'.next = run.next
          /\ run'.recovery = run.recovery /\ run'.retried = run.retried
          /\ run'.placed = run.placed
      BY <1>2, <2>1, <2>3, GoFacts DEF IndInv, me
    <2>5. journal'[me].phase = "publishing"
      BY <1>2, <2>1, <2>3, RecordFacts
    <2>6. RunIsSound'
      BY <1>1, <1>2, <1>3, <1>5, <2>2, <2>4, <2>5
         DEF RunIsSound, Publishing, NoOtherActive, Recovering, Phase, me, file, store, files
    <2> QED
      BY <1>8, <2>1, <2>3, <2>4, <2>6 DEF me
  <1>11. CASE Complete
    <2>1. /\ run.at = "complete" /\ Record("publishing", file)
          /\ run' = [run EXCEPT !.at = IF file = N THEN "verify" ELSE "frontier", !.next = @ + 1]
      BY <1>11 DEF Complete
    <2>2. /\ intent[me] = "open" /\ ~Recovering /\ file \in Files /\ run.next \in Files
          /\ \A g \in run.placed : backup[me][g] = expects[me][g]
          /\ \A g \in run.placed : g <= file
          /\ run.placed \subseteq Files
      BY <1>2, <2>1 DEF IndInv, RunIsSound, Publishing, file, RunRecords
    <2>3. /\ file \in 0 .. N /\ run.next + 1 \in 0 .. N + 1
          /\ file # N => run.next + 1 \in Files
          /\ \A g \in run.placed : g < run.next + 1
      BY <2>2, ConstantsAssumption DEF Files, file
    <2>4. "publishing" \in Phases \ {"none"} /\ {"verify", "frontier"} \subseteq Steps
      BY DEF Phases, Steps, KernelSteps
    <2>5. /\ run' \in RunRecords /\ run'.at = (IF file = N THEN "verify" ELSE "frontier")
          /\ run'.of = run.of /\ run'.next = run.next + 1
          /\ run'.recovery = run.recovery /\ run'.retried = run.retried
          /\ run'.placed = run.placed
      BY <1>2, <2>1, <2>3, <2>4 DEF RunRecords
    <2>6. journal'[me].phase = "publishing"
      BY <1>2, <2>1, <2>3, <2>4, RecordFacts
    <2>7. RunIsSound'
      BY <1>1, <1>2, <1>3, <1>5, <2>2, <2>3, <2>5, <2>6
         DEF RunIsSound, Publishing, NoOtherActive, Recovering, Phase, me, file, store, files
    <2> QED
      BY <1>8, <2>1, <2>3, <2>4, <2>5, <2>7 DEF me
  <1>12. CASE Commit
    <2>1. /\ run.at = "verify" /\ AllNew /\ Record("committed", N) /\ Leave("settle", "succeeded")
      BY <1>12 DEF Commit, Report
    <2>2. N \in 0 .. N /\ "committed" \in Phases \ {"none"} /\ "settle" \in Steps
          /\ "succeeded" \in Verdicts
      BY ConstantsAssumption DEF Phases, Steps, Verdicts
    <2>3. /\ run' \in RunRecords /\ run'.at = "settle" /\ run'.of = run.of
          /\ run'.verdict = "succeeded"
      BY <1>2, <2>1, <2>2, LeaveFacts DEF IndInv, me
    <2>4. journal'[me].phase = "committed" /\ intent[me] = "open"
      BY <1>2, <1>3, <1>7, <2>1, <2>2, RecordFacts
    <2>5. RunIsSound'
      BY <1>1, <1>2, <1>3, <1>5, <2>3, <2>4
         DEF RunIsSound, Publishing, NoOtherActive, Phase, me, store, files
    <2> QED
      BY <1>8, <2>1, <2>2, <2>3, <2>5 DEF me
  <1>13. ASSUME NEW p \in {"rolled_back", "blocked"}, Record(p, journal[me].done),
                KernelFailed, run.at = "repair" => p = "rolled_back"
         PROVE  IndInv'
    <2>1. /\ p \in Phases \ {"none"} /\ journal[me].done \in 0 .. N
          /\ UNCHANGED <<marker, intent, expects>>
      BY <1>1, <1>3, <1>4 DEF Phases, store
    <2>2. /\ run' \in RunRecords /\ run'.of = me /\ run'.at # "idle"
          /\ RunIsSound' /\ \A j \in Installs : InHand(j)' => marker' = j
      BY <1>1, <1>3, <1>5, <1>13, <2>1, KernelFailedStep
    <2>3. run'.at \notin {"plan", "mark"}
      BY <1>2, <1>13, KernelFailedFacts DEF IndInv, me
    <2> QED
      BY <1>8, <1>13, <2>1, <2>2, <2>3
  <1>14. CASE RolledBack
    BY <1>13, <1>14 DEF RolledBack
  <1>15. CASE Repaired /\ ~KernelFailed
    <2>1. /\ run.at = "repair" /\ file = 0 /\ Record("rolled_back", journal[me].done)
          /\ \A g \in Files : expects[me][g] = "absent" => dest[g] = "absent"
          /\ Leave("settle", "failed")
      BY <1>15 DEF Repaired, Report
    <2>2. "rolled_back" \in Phases \ {"none"} /\ "settle" \in Steps /\ "failed" \in Verdicts
      BY DEF Phases, Steps, Verdicts
    <2>3. /\ run' \in RunRecords /\ run'.at = "settle" /\ run'.of = run.of
          /\ run'.verdict = "failed"
      BY <1>2, <2>1, <2>2, LeaveFacts DEF IndInv, me
    <2>4. journal'[me].phase = "rolled_back" /\ intent[me] \in {"open", "failed"}
      BY <1>2, <1>3, <1>4, <1>6, <2>1, <2>2, RecordFacts
    <2>5. \A g \in Files : g > file
      BY <2>1, ConstantsAssumption DEF Files
    <2>6. \A g \in Files : /\ dest[g] # me \/ expects[me][g] = "absent"
                           /\ g \notin touched /\ expects[me][g] # "absent" => dest[g] = expects[me][g]
      BY <2>1, <2>5 DEF IndInv, RunIsSound
    <2>7. \A g \in Files : dest[g] # me
      BY <1>2, <2>1, <2>6, ConstantsAssumption
    <2>8. Matches(me)
      BY <2>1, <2>6 DEF Matches
    <2>9. RunIsSound'
      BY <1>1, <1>2, <1>3, <1>5, <2>3, <2>4, <2>7, <2>8
         DEF RunIsSound, Publishing, NoOtherActive, Phase, Matches, me, store, files
    <2> QED
      BY <1>3, <1>4, <1>8, <2>1, <2>2, <2>3, <2>9 DEF me
  <1>16. CASE Repaired /\ KernelFailed
    BY <1>13, <1>16 DEF Repaired
  <1> QED
    BY <1>9, <1>10, <1>11, <1>12, <1>14, <1>15, <1>16

----------------------------------------------------------------------------
(* One file of the active installation is moved.                             *)
LEMMA FileStep ==
  ASSUME IndInv, Types', RunIsSound', NEW i \in Installs, NEW f \in Files,
         marker = i, Phase(i) \notin {"none", "committed"},
         UNCHANGED <<queue, store, journal, expects, touched>>,
         \A g \in Files : g # f => dest'[g] = dest[g],
         \A x \in Installs, g \in Files : x # i \/ g # f => backup'[x][g] = backup[x][g],
         dest'[f] \in {"absent", i, expects[i][f]},
         backup'[i][f] \in {"absent", expects[i][f]},
         \/ dest'[f] = expects[i][f]
         \/ dest'[f] \in {"absent", i} /\ backup'[i][f] = expects[i][f],
         Lost(i) => dest'[f] = expects[i][f],
         \A j \in Installs : InHand(j)' => InHand(j)
  PROVE  IndInv'
  <1>1. /\ expects[i] # None /\ HandIsSound(i) /\ Restorable(i)
        /\ \A g \in Files : expects[i][g] # i
    BY DEF IndInv, RecordsAgree, BytesAreKnown, FilesAreSound, InHand, ActiveIsSound
  <1>2. \A j \in Installs : /\ Phase(j)' = Phase(j) /\ Recovered(j)' = Recovered(j)
                            /\ (Lost(j)' <=> Lost(j)) /\ (Won(j)' <=> Won(j))
    BY DEF Phase, Lost, Won, Recovered, store
  <1>3. i # "absent"
    BY ConstantsAssumption
  <1>4. BytesAreKnown'
    <2>1. ASSUME NEW j \in Installs, NEW g \in Files, dest'[g] = j PROVE Phase(j) # "none"
      <3>1. CASE g = f
        <4>1. j # "absent"
          BY ConstantsAssumption
        <4> QED
          BY <1>1, <2>1, <3>1, <4>1 DEF IndInv, BytesAreKnown
      <3>2. CASE g # f
        BY <2>1, <3>2 DEF IndInv, BytesAreKnown
      <3> QED
        BY <3>1, <3>2
    <2>2. ASSUME NEW x \in Installs, NEW g \in Files, backup'[x][g] # "absent"
          PROVE  expects[x] # None /\ backup'[x][g] = expects[x][g]
      <3>1. CASE x = i /\ g = f
        BY <1>1, <2>2, <3>1
      <3>2. CASE x # i \/ g # f
        BY <2>2, <3>2 DEF IndInv, BytesAreKnown
      <3> QED
        BY <3>1, <3>2
    <2> QED
      BY <1>2, <2>1, <2>2 DEF IndInv, BytesAreKnown
  <1>5. \A j \in Installs, g \in Files : Lost(j) => dest'[g] # j
    <2> SUFFICES ASSUME NEW j \in Installs, NEW g \in Files, Lost(j) PROVE dest'[g] # j
      OBVIOUS
    <2>1. CASE g # f
      BY <2>1 DEF IndInv, RecordsAgree
    <2>2. CASE g = f
      <3>1. j # "absent" /\ expects[i][f] # j
        BY <1>1, ConstantsAssumption DEF HandIsSound
      <3> QED
        BY <2>2, <3>1
    <2> QED
      BY <2>1, <2>2
  <1>6. RecordsAgree'
    BY <1>2, <1>5 DEF IndInv, RecordsAgree, ResultsRepeatLedger, queue, store
  <1>7. FilesAreSound'
    <2>1. \A j \in Installs : InHand(j) => j = i
      BY ConstantsAssumption DEF InHand, IndInv, RunIsSound, NoOtherActive
    <2>2. Phase(i) = "none" \/ Lost(i) => Matches(i)'
      <3>1. ASSUME Lost(i) PROVE \A g \in Files \ touched : dest'[g] = expects[i][g]
        BY <1>1, <3>1 DEF HandIsSound, Matches
      <3> QED
        BY <3>1 DEF Matches
    <2>3. HandIsSound(i)'
      <3>1. Uniform(expects[i])' <=> Uniform(expects[i])
        BY DEF Uniform
      <3> QED
        BY <1>1, <1>2, <2>2, <3>1 DEF HandIsSound
    <2>4. Restorable(i)'
      <3>1. \A g \in Files \ touched :
              \/ dest'[g] = expects[i][g]
              \/ dest'[g] \in {"absent", i} /\ backup'[i][g] = expects[i][g]
        BY <1>1 DEF Restorable
      <3> QED
        BY <3>1 DEF Restorable
    <2>5. ActiveIsSound(i)'
      BY <1>2, <2>4 DEF ActiveIsSound
    <2>6. marker' = i /\ i # None
      BY ConstantsAssumption DEF store
    <2> QED
      BY <2>1, <2>3, <2>5, <2>6 DEF FilesAreSound
  <1> QED
    BY <1>4, <1>6, <1>7 DEF IndInv

LEMMA NotLess == \A x, y \in Nat : <<y, x>> \notin OpToRel(<, Nat) => x <= y
  BY DEF OpToRel

(* The file that is rolled back next is one of the published ones.           *)
LEMMA LatestIsPlaced ==
  ASSUME Types, run.placed # {} PROVE Latest \in run.placed /\ Latest \in Files
  <1> DEFINE left == {N - x : x \in run.placed}
  <1>1. run.placed \subseteq Files
    BY DEF Types, RunRecords
  <1>2. left \subseteq Nat /\ left # {}
    BY <1>1, ConstantsAssumption DEF Files
  <1> HIDE DEF left
  <1>3. PICK m \in left : \A y \in left : <<y, m>> \notin OpToRel(<, Nat)
    BY <1>2, WFMin, NatLessThanWellFounded
  <1>4. \A y \in left : m <= y
    BY <1>2, <1>3, NotLess, Zenon
  <1>5. PICK x \in run.placed : m = N - x
    BY <1>3 DEF left
  <1>6. ASSUME NEW y \in run.placed PROVE x >= y
    <2>1. N - y \in left
      BY DEF left
    <2>2. N - x <= N - y
      BY <1>4, <1>5, <2>1
    <2>3. x \in Nat /\ y \in Nat
      BY <1>1, ConstantsAssumption DEF Files
    <2> QED
      BY <2>2, <2>3, ConstantsAssumption
  <1>7. Latest \in run.placed
    BY <1>6 DEF Latest, Max
  <1> QED
    BY <1>1, <1>7

(* What the file steps of one run have in common                             *)
LEMMA FilesStep ==
  ASSUME IndInv, me \in Installs, NEW f \in Files, NEW d \in Contents, NEW b \in Contents,
         marker = me, Phase(me) \notin {"none", "committed"},
         UNCHANGED <<queue, store, journal, checked, expects, touched>>,
         faults' \in 0 .. MaxFaults,
         dest' = [dest EXCEPT ![f] = d],
         backup' = [backup EXCEPT ![me][f] = b],
         d \in {"absent", me, expects[me][f]}, b \in {"absent", expects[me][f]},
         d = expects[me][f] \/ (d \in {"absent", me} /\ b = expects[me][f]),
         Lost(me) => d = expects[me][f],
         run' \in RunRecords, run'.at \notin {"idle", "plan", "mark"}, run'.of = run.of,
         RunIsSound'
  PROVE  IndInv'
  <1>1. PICK i \in Installs : i = me
    OBVIOUS
  <1>2. dest \in [Files -> Contents] /\ backup \in [Installs -> [Files -> Contents]]
    BY DEF IndInv, Types
  <1>3. /\ dest' \in [Files -> Contents] /\ dest'[f] = d
        /\ \A g \in Files : g # f => dest'[g] = dest[g]
    BY <1>2
  <1>4. /\ backup' \in [Installs -> [Files -> Contents]] /\ backup'[i][f] = b
        /\ \A x \in Installs, g \in Files : x # i \/ g # f => backup'[x][g] = backup[x][g]
    BY <1>1, <1>2
  <1>5. Types'
    <2>1. run'.of \in Installs
      BY DEF me
    <2> QED
      BY <1>3, <1>4, <2>1 DEF IndInv, Types, queue, store
  <1>6. \A j \in Installs : InHand(j)' => InHand(j)
    BY DEF InHand, store
  <1> QED
    BY <1>1, <1>3, <1>4, <1>5, <1>6, FileStep

(* The run is in the publication, and its intent is open.                    *)
LEMMA InPublication ==
  ASSUME IndInv, run.at \in Publishing
  PROVE  /\ me \in Installs /\ expects[me] # None /\ run \in RunRecords /\ NoOtherActive
         /\ expects[me] \in [Files -> Contents] /\ marker = me
         /\ intent[me] = "open" /\ ~Lost(me) /\ ~Recovering
         /\ Phase(me) \in {"preparing", "publishing"}
         /\ \A g \in run.placed : backup[me][g] = expects[me][g]
         /\ run.placed \subseteq Files
         /\ dest \in [Files -> Contents] /\ backup \in [Installs -> [Files -> Contents]]
  <1>1. me \in Installs /\ run \in RunRecords /\ expects[me] # None
    BY DEF IndInv, Types, RunIsSound, Publishing, me
  <1>2. /\ expects[me] \in [Files -> Contents] /\ run.placed \subseteq Files
        /\ dest \in [Files -> Contents] /\ backup \in [Installs -> [Files -> Contents]]
    BY <1>1 DEF IndInv, Types, RunRecords
  <1>3. /\ marker = me /\ intent[me] = "open" /\ ~Recovering
        /\ Phase(me) \in {"preparing", "publishing"} /\ NoOtherActive
        /\ \A g \in run.placed : backup[me][g] = expects[me][g]
    BY DEF IndInv, RunIsSound, Publishing
  <1> QED
    BY <1>1, <1>2, <1>3 DEF Lost

LEMMA PublicationStep ==
  ASSUME IndInv, Vacate \/ Publish \/ Unpublish \/ PutBack
  PROVE  IndInv'
  <1>1. /\ UNCHANGED <<queue, store, journal, checked, expects, touched, faults>>
        /\ run.at \in Publishing
    BY DEF Vacate, Publish, Unpublish, PutBack, world, Publishing
  <1>2. /\ me \in Installs /\ expects[me] # None /\ run \in RunRecords /\ NoOtherActive
        /\ expects[me] \in [Files -> Contents] /\ marker = me
        /\ intent[me] = "open" /\ ~Lost(me) /\ ~Recovering
        /\ Phase(me) \in {"preparing", "publishing"}
        /\ \A g \in run.placed : backup[me][g] = expects[me][g]
        /\ run.placed \subseteq Files
        /\ dest \in [Files -> Contents] /\ backup \in [Installs -> [Files -> Contents]]
    BY <1>1, InPublication
  <1>3. me \in Contents /\ "absent" \in Contents /\ faults' \in 0 .. MaxFaults
    BY <1>1, <1>2 DEF Contents, IndInv, Types
  <1>4. /\ Phase(me) \notin {"none", "committed"}
        /\ UNCHANGED <<queue, store, journal, checked, expects, touched>>
    BY <1>1, <1>2
  <1>5. CASE Vacate
    <2>1. /\ run.at = "vacate" /\ CanVacate /\ Go("publish")
          /\ backup' = [backup EXCEPT ![me][file] = dest[file]]
          /\ dest' = [dest EXCEPT ![file] = "absent"]
      BY <1>5 DEF Vacate
    <2>2. /\ file \in Files /\ dest[file] = expects[me][file]
          /\ \A g \in run.placed : g < file
      BY <2>1 DEF IndInv, RunIsSound, CanVacate
    <2>3. /\ run' \in RunRecords /\ run'.at = "publish" /\ run'.of = run.of
          /\ run'.recovery = run.recovery /\ run'.retried = run.retried
          /\ run'.next = run.next /\ run'.placed = run.placed
      BY <1>2, <2>1, GoFacts DEF IndInv, Steps, KernelSteps, me
    <2>4. /\ backup'[me][file] = expects[me][file]
          /\ \A g \in run.placed : backup'[me][g] = expects[me][g]
      BY <1>2, <2>1, <2>2
    <2>5. RunIsSound'
      BY <1>1, <1>2, <2>2, <2>3, <2>4
         DEF RunIsSound, Publishing, NoOtherActive, Recovering, Phase, me, file, store
    <2>6. dest[file] \in Contents
      BY <1>2, <2>2
    <2> QED
      BY <1>2, <1>3, <1>4, <2>1, <2>2, <2>3, <2>5, <2>6, FilesStep
  <1>6. CASE Publish
    <2>1. /\ run.at = "publish" /\ dest[file] = "absent" /\ UNCHANGED backup
          /\ dest' = [dest EXCEPT ![file] = me]
          /\ run' = [run EXCEPT !.at = "complete", !.placed = @ \cup {file}]
      BY <1>6 DEF Publish
    <2>2. /\ file \in Files /\ backup[me][file] = expects[me][file]
          /\ \A g \in run.placed : g < file
      BY <2>1 DEF IndInv, RunIsSound
    <2>3. /\ run' \in RunRecords /\ run'.at = "complete" /\ run'.of = run.of
          /\ run'.recovery = run.recovery /\ run'.retried = run.retried
          /\ run'.next = run.next /\ run'.placed = run.placed \cup {file}
      BY <1>2, <2>1, <2>2 DEF RunRecords, Steps, KernelSteps
    <2>4. \A g \in run'.placed : g <= file
      BY <1>2, <2>2, <2>3, ConstantsAssumption DEF Files
    <2>5. \A g \in run'.placed : backup'[me][g] = expects[me][g]
      BY <1>2, <2>1, <2>2, <2>3
    <2>6. RunIsSound'
      BY <1>1, <1>2, <2>1, <2>2, <2>3, <2>4, <2>5
         DEF RunIsSound, Publishing, NoOtherActive, Recovering, Phase, me, file, store
    <2>7. /\ backup' = [backup EXCEPT ![me][file] = backup[me][file]]
          /\ backup[me][file] \in Contents
      BY <1>2, <2>1, <2>2
    <2> QED
      BY <1>2, <1>3, <1>4, <2>1, <2>2, <2>3, <2>6, <2>7, FilesStep
  <1>7. CASE Unpublish
    <2>1. /\ run.at = "rollback" /\ run.placed # {} /\ dest[Latest] = me
          /\ dest' = [dest EXCEPT ![Latest] = "absent"] /\ UNCHANGED <<backup, run>>
      BY <1>7 DEF Unpublish
    <2>2. Latest \in run.placed /\ Latest \in Files
      BY <2>1, LatestIsPlaced DEF IndInv
    <2>3. RunIsSound'
      BY <1>1, <1>2, <2>1 DEF RunIsSound, Publishing, NoOtherActive, Recovering, Phase, me, store
    <2>4. /\ backup' = [backup EXCEPT ![me][Latest] = backup[me][Latest]]
          /\ backup[me][Latest] \in Contents /\ backup[me][Latest] = expects[me][Latest]
      BY <1>2, <2>1, <2>2
    <2>5. run' \in RunRecords /\ run'.at \notin {"idle", "plan", "mark"} /\ run'.of = run.of
      BY <1>2, <2>1
    <2> QED
      BY <1>2, <1>3, <1>4, <2>1, <2>2, <2>3, <2>4, <2>5, FilesStep
  <1>8. CASE PutBack
    <2>1. /\ run.at = "rollback" /\ run.placed # {} /\ dest[Latest] = "absent"
          /\ dest' = [dest EXCEPT ![Latest] = backup[me][Latest]]
          /\ backup' = [backup EXCEPT ![me][Latest] = "absent"]
          /\ run' = [run EXCEPT !.placed = @ \ {Latest}]
      BY <1>8 DEF PutBack
    <2>2. Latest \in run.placed /\ Latest \in Files
      BY <2>1, LatestIsPlaced DEF IndInv
    <2>3. /\ run' \in RunRecords /\ run'.at = "rollback" /\ run'.of = run.of
          /\ run'.recovery = run.recovery /\ run'.retried = run.retried
          /\ run'.placed = run.placed \ {Latest}
      BY <1>2, <2>1 DEF RunRecords
    <2>4. \A g \in run'.placed : backup'[me][g] = expects[me][g]
      BY <1>2, <2>1, <2>2, <2>3
    <2>5. RunIsSound'
      BY <1>1, <1>2, <2>3, <2>4
         DEF RunIsSound, Publishing, NoOtherActive, Recovering, Phase, me, store
    <2>6. backup[me][Latest] \in Contents /\ backup[me][Latest] = expects[me][Latest]
      BY <1>2, <2>2
    <2> QED
      BY <1>2, <1>3, <1>4, <2>1, <2>2, <2>3, <2>5, <2>6, FilesStep
  <1> QED
    BY <1>5, <1>6, <1>7, <1>8

(* The publication throws, or its child is told to.                          *)
LEMMA ThrowStep ==
  ASSUME IndInv, Throw \/ KernelThrows
  PROVE  IndInv'
  <1>1. /\ Catch /\ UNCHANGED <<expects, touched>>
        /\ run.at \in {"frontier", "vacate", "publish", "complete", "verify"}
    BY DEF Throw, KernelThrows, Refused, Fault, world
  <1>2. UNCHANGED <<queue, store, journal, checked, expects, touched>> /\ Go("rollback")
    BY <1>1 DEF Catch
  <1>3. /\ me \in Installs /\ expects[me] # None /\ run \in RunRecords /\ NoOtherActive
        /\ expects[me] \in [Files -> Contents] /\ marker = me
        /\ intent[me] = "open" /\ ~Lost(me) /\ ~Recovering
        /\ Phase(me) \in {"preparing", "publishing"}
        /\ \A g \in run.placed : backup[me][g] = expects[me][g]
        /\ run.placed \subseteq Files
        /\ dest \in [Files -> Contents] /\ backup \in [Installs -> [Files -> Contents]]
    BY <1>1, InPublication DEF Publishing
  <1>4. faults' \in 0 .. MaxFaults
    <2>1. faults' = faults \/ (faults < MaxFaults /\ faults' = faults + 1)
      BY DEF Throw, KernelThrows, Fault, world
    <2>2. faults \in 0 .. MaxFaults
      BY DEF IndInv, Types
    <2> QED
      BY <2>1, <2>2, ConstantsAssumption
  <1>5. /\ run' \in RunRecords /\ run'.at = "rollback" /\ run'.of = run.of
        /\ run'.recovery = run.recovery /\ run'.retried = run.retried
        /\ run'.next = run.next /\ run'.placed = run.placed
    BY <1>2, <1>3, GoFacts DEF IndInv, Steps, KernelSteps, me
  <1>6. ASSUME \A g \in run.placed : backup'[me][g] = expects[me][g] PROVE RunIsSound'
    BY <1>2, <1>3, <1>5, <1>6
       DEF RunIsSound, Publishing, NoOtherActive, Recovering, Phase, me, store
  <1>7. CASE run.at = "publish" /\ dest[file] = "absent"
    <2>1. /\ dest' = [dest EXCEPT ![file] = backup[me][file]]
          /\ backup' = [backup EXCEPT ![me][file] = "absent"]
      BY <1>1, <1>7 DEF Catch
    <2>2. /\ file \in Files /\ backup[me][file] = expects[me][file]
          /\ \A g \in run.placed : g < file
      BY <1>7 DEF IndInv, RunIsSound
    <2>3. file \notin run.placed
      BY <2>2, ConstantsAssumption DEF Files
    <2>4. \A g \in run.placed : backup'[me][g] = expects[me][g]
      BY <1>3, <2>1, <2>3
    <2>5. /\ backup[me][file] \in Contents /\ "absent" \in Contents /\ RunIsSound'
          /\ Phase(me) \notin {"none", "committed"}
      BY <1>3, <1>6, <2>2, <2>4 DEF Contents
    <2> QED
      BY <1>2, <1>3, <1>4, <1>5, <2>1, <2>2, <2>5, FilesStep
  <1>8. CASE UNCHANGED files
    <2>1. RunIsSound'
      BY <1>3, <1>6, <1>8 DEF files
    <2>2. run'.of \in Installs
      BY <1>3, <1>5 DEF me
    <2>3. Types'
      BY <1>2, <1>4, <1>5, <1>8, <2>2 DEF IndInv, Types, queue, store, files
    <2>4. \A i \in Installs : InHand(i)' => InHand(i)
      BY <1>2, <1>5 DEF InHand, store
    <2>5. ResultsRepeatLedger'
      BY <1>2 DEF IndInv, RecordsAgree, ResultsRepeatLedger, Recovered, queue, store
    <2> QED
      BY <1>2, <1>8, <2>1, <2>3, <2>4, <2>5, SameFilesStep DEF queue, store, files
  <1> QED
    BY <1>1, <1>7, <1>8 DEF Catch

(* The backup is installed over the publication or over nothing.             *)
LEMMA RepairStep ==
  ASSUME IndInv, Displace \/ Restore
  PROVE  IndInv'
  <1>1. /\ UNCHANGED <<queue, store, journal, backup, checked, expects, touched, faults>>
        /\ run.at = "repair" /\ file > 0 /\ CanRestore
    BY DEF Displace, Restore, world
  <1>2. me \in Installs /\ expects[me] # None /\ NoOtherActive
    BY <1>1, InKernel DEF KernelSteps
  <1>3. /\ run \in RunRecords /\ expects[me] \in [Files -> Contents]
        /\ dest \in [Files -> Contents] /\ backup \in [Installs -> [Files -> Contents]]
        /\ faults' \in 0 .. MaxFaults
    BY <1>1, <1>2 DEF IndInv, Types
  <1>4. /\ marker = me /\ Phase(me) \notin {"none", "committed"}
        /\ intent[me] \in {"open", "failed"} /\ file \in 0 .. N
        /\ \A g \in Files : g > file =>
              /\ dest[g] # me \/ expects[me][g] = "absent"
              /\ g \notin touched /\ expects[me][g] # "absent" => dest[g] = expects[me][g]
              /\ g \notin touched /\ expects[me][g] = "absent" => dest[g] \in {"absent", me}
    BY <1>1 DEF IndInv, RunIsSound
  <1>5. file \in Files /\ run.next \in Files /\ ~(file > file)
    BY <1>1, <1>4, ConstantsAssumption DEF Files, file
  <1>6. /\ expects[me][file] # "absent" /\ backup[me][file] = expects[me][file]
        /\ backup[me][file] \in Contents /\ expects[me][file] # me
        /\ backup' = [backup EXCEPT ![me][file] = backup[me][file]]
    BY <1>1, <1>2, <1>3, <1>5 DEF CanRestore, IndInv, BytesAreKnown
  <1>7. CASE Displace
    <2>1. dest[file] = me /\ dest' = [dest EXCEPT ![file] = "absent"] /\ UNCHANGED run
      BY <1>7 DEF Displace
    <2>2. ~Lost(me) /\ "absent" \in Contents
      BY <1>2, <1>5, <2>1 DEF IndInv, RecordsAgree, Contents
    <2>3. \A g \in Files : g > file => dest'[g] = dest[g]
      BY <1>3, <1>5, <2>1
    <2>4. RunIsSound'
      BY <1>1, <1>2, <1>4, <2>1, <2>3
         DEF RunIsSound, Publishing, NoOtherActive, Recovering, Phase, me, file, store
    <2>5. run' \in RunRecords /\ run'.at \notin {"idle", "plan", "mark"} /\ run'.of = run.of
      BY <1>1, <1>3, <2>1
    <2> QED
      BY <1>1, <1>2, <1>3, <1>4, <1>5, <1>6, <2>1, <2>2, <2>4, <2>5, FilesStep
  <1>8. CASE Restore
    <2>1. /\ dest[file] = "absent" /\ dest' = [dest EXCEPT ![file] = backup[me][file]]
          /\ run' = [run EXCEPT !.next = @ - 1]
      BY <1>8 DEF Restore
    <2>2. run.next - 1 \in 0 .. N + 1 /\ run.next - 1 \in 0 .. N
      BY <1>5, ConstantsAssumption DEF Files
    <2>3. /\ run' \in RunRecords /\ run'.at = "repair" /\ run'.of = run.of
          /\ run'.next = run.next - 1
      BY <1>1, <1>3, <2>1, <2>2 DEF RunRecords
    <2>4. \A g \in Files : g > run.next - 1 => g > file \/ g = file
      BY <1>5, ConstantsAssumption DEF Files, file
    <2>5. /\ dest'[file] = expects[me][file]
          /\ \A g \in Files : g > file => dest'[g] = dest[g]
      BY <1>3, <1>5, <1>6, <2>1
    <2>6. \A g \in Files : g > run'.next =>
             /\ dest'[g] # me \/ expects[me][g] = "absent"
             /\ g \notin touched /\ expects[me][g] # "absent" => dest'[g] = expects[me][g]
             /\ g \notin touched /\ expects[me][g] = "absent" => dest'[g] \in {"absent", me}
      BY <1>4, <1>6, <2>3, <2>4, <2>5
    <2>7. RunIsSound'
      BY <1>1, <1>2, <1>4, <2>2, <2>3, <2>6
         DEF RunIsSound, Publishing, NoOtherActive, Recovering, Phase, me, file, store
    <2> QED
      BY <1>1, <1>2, <1>3, <1>4, <1>5, <1>6, <2>1, <2>3, <2>7, FilesStep
  <1> QED
    BY <1>7, <1>8

----------------------------------------------------------------------------
(* A bundle is packaged against the files as they are.                       *)
LEMMA SubmitStep ==
  ASSUME IndInv, NEW i \in Installs, Submit(i)
  PROVE  IndInv'
  <1>1. /\ expects[i] = None /\ expects' = [expects EXCEPT ![i] = dest]
        /\ packet' = [packet EXCEPT ![i] = TRUE]
        /\ UNCHANGED <<result, staged, plan, marker, intent, journal, dest, backup, checked, run,
                       touched, faults>>
    BY DEF Submit, store, files
  <1>2. /\ dest \in [Files -> Contents] /\ packet \in [Installs -> BOOLEAN]
        /\ expects \in [Installs -> [Files -> Contents] \cup {None}]
    BY DEF IndInv, Types
  <1>3. /\ expects'[i] = dest /\ dest # None
        /\ \A x \in Installs : x # i => expects'[x] = expects[x] /\ packet'[x] = packet[x]
    BY <1>1, <1>2, NoneAssumption
  <1>4. /\ marker # i /\ Phase(i) = "none"
        /\ (run.at # "idle" => me # i) /\ ~InHand(i)
    BY <1>1 DEF IndInv, RecordsAgree, RunIsSound, InHand
  <1>5. Types'
    <2>1. /\ packet' \in [Installs -> BOOLEAN]
          /\ expects' \in [Installs -> [Files -> Contents] \cup {None}]
      BY <1>1, <1>2
    <2> QED
      BY <1>1, <2>1 DEF IndInv, Types
  <1>6. BytesAreKnown'
    <2>1. \A j \in Installs, g \in Files : dest[g] = j => Phase(j) # "none"
      BY DEF IndInv, BytesAreKnown
    <2>2. \A x \in Installs : expects'[x] # None =>
             /\ \A g \in Files : expects'[x][g] # x
             /\ \A j \in Installs, g \in Files : expects'[x][g] = j => Phase(j) # "none"
      BY <1>3, <1>4, <2>1 DEF IndInv, BytesAreKnown
    <2>3. \A x \in Installs, g \in Files : backup[x][g] # "absent" =>
             expects'[x] # None /\ backup[x][g] = expects'[x][g]
      BY <1>1, <1>3 DEF IndInv, BytesAreKnown
    <2> QED
      BY <1>1, <2>1, <2>2, <2>3 DEF BytesAreKnown, Phase
  <1>7. RecordsAgree'
    BY <1>1, <1>3 DEF IndInv, RecordsAgree, ResultsRepeatLedger, Recovered, Phase, Won, Lost
  <1>8. FilesAreSound'
    <2>1. Uniform(dest)' <=> Uniform(dest)
      BY <1>1 DEF Uniform
    <2>2. ASSUME NEW j \in Installs, InHand(j)' PROVE HandIsSound(j)'
      <3>1. InHand(j) /\ j # i
        BY <1>1, <1>4, <2>2 DEF InHand, me
      <3>2. HandIsSound(j) /\ expects'[j] = expects[j]
        BY <1>3, <3>1 DEF IndInv, FilesAreSound
      <3> QED
        BY <1>1, <3>2 DEF HandIsSound, Uniform, Matches, Phase, Lost
    <2>3. ASSUME NEW j \in Installs, marker' = j PROVE ActiveIsSound(j)'
      <3>1. marker = j /\ j # i
        BY <1>1, <1>4, <2>3
      <3>2. ActiveIsSound(j) /\ expects'[j] = expects[j]
        BY <1>3, <3>1 DEF IndInv, FilesAreSound
      <3> QED
        BY <1>1, <3>2 DEF ActiveIsSound, Restorable, Phase
    <2> QED
      BY <1>1, <2>1, <2>2, <2>3 DEF IndInv, FilesAreSound
  <1>9. RunIsSound'
    <2>1. CASE run.at = "idle"
      BY <1>1, <2>1 DEF RunIsSound, Publishing
    <2>2. CASE run.at # "idle"
      <3>1. me \in Installs /\ me' = me /\ expects'[me] = expects[me] /\ expects[me] # None
        BY <1>1, <1>3, <1>4, <2>2 DEF IndInv, Types, RunIsSound, me
      <3>2. /\ Recovering' = Recovering /\ NoOtherActive' = NoOtherActive /\ file' = file
            /\ Phase(me)' = Phase(me) /\ (Matches(me)' <=> Matches(me))
        BY <1>1, <3>1 DEF Recovering, NoOtherActive, file, Phase, Matches, me
      <3> QED
        BY <1>1, <3>1, <3>2 DEF IndInv, RunIsSound
    <2> QED
      BY <2>1, <2>2
  <1> QED
    BY <1>5, <1>6, <1>7, <1>8, <1>9 DEF IndInv

(* Another program writes a file, which is no bundle's from then on.         *)
LEMMA ForeignStep ==
  ASSUME IndInv, NEW f \in Files, WriteForeign(f)
  PROVE  IndInv'
  <1>1. /\ dest' = [dest EXCEPT ![f] = "other"] /\ touched' = touched \cup {f}
        /\ UNCHANGED <<packet, result, staged, plan, marker, intent, journal, backup, checked,
                       run, expects, faults>>
    BY DEF WriteForeign, queue, store
  <1>2. dest \in [Files -> Contents] /\ "other" \in Contents /\ "other" \notin Installs
    BY ConstantsAssumption DEF IndInv, Types, Contents
  <1>3. /\ dest' \in [Files -> Contents] /\ dest'[f] = "other"
        /\ \A g \in Files : g # f => dest'[g] = dest[g]
    BY <1>1, <1>2
  <1>4. /\ Files \ touched' \subseteq Files \ touched
        /\ \A g \in Files \ touched' : dest'[g] = dest[g]
    BY <1>1, <1>3
  <1>5. \A j \in Installs, g \in Files : dest'[g] = j => dest[g] = j
    BY <1>2, <1>3
  <1>6. Types'
    BY <1>1, <1>3 DEF IndInv, Types
  <1>7. BytesAreKnown'
    BY <1>1, <1>5 DEF IndInv, BytesAreKnown, Phase
  <1>8. RecordsAgree'
    BY <1>1, <1>5 DEF IndInv, RecordsAgree, ResultsRepeatLedger, Recovered, Phase, Won, Lost
  <1>9. \A j \in Installs : Matches(j) => Matches(j)'
    BY <1>1, <1>4 DEF Matches
  <1>10. FilesAreSound'
    <2>1. Uniform(dest) => Uniform(dest)'
      BY <1>4 DEF Uniform
    <2>2. ASSUME NEW j \in Installs, InHand(j)' PROVE HandIsSound(j)'
      <3>1. HandIsSound(j)
        BY <1>1, <2>2 DEF IndInv, FilesAreSound, InHand, me
      <3>2. Uniform(expects[j]) => Uniform(expects[j])'
        BY <1>1, <1>4 DEF Uniform
      <3> QED
        BY <1>1, <1>9, <3>1, <3>2 DEF HandIsSound, Phase, Lost
    <2>3. ASSUME NEW j \in Installs, marker' = j PROVE ActiveIsSound(j)'
      <3>1. ActiveIsSound(j)
        BY <1>1, <2>3 DEF IndInv, FilesAreSound
      <3> QED
        BY <1>1, <1>4, <3>1 DEF ActiveIsSound, Restorable, Phase
    <2> QED
      BY <1>1, <2>1, <2>2, <2>3 DEF IndInv, FilesAreSound
  <1>11. RunIsSound'
    <2>1. CASE run.at = "idle"
      BY <1>1, <2>1 DEF RunIsSound, Publishing
    <2>2. CASE run.at # "idle"
      <3>1. me \in Installs /\ me' = me
        BY <1>1, <2>2 DEF IndInv, Types, me
      <3>2. /\ Recovering' = Recovering /\ NoOtherActive' = NoOtherActive /\ file' = file
            /\ Phase(me)' = Phase(me) /\ (Matches(me) => Matches(me)')
        BY <1>1, <1>9, <3>1 DEF Recovering, NoOtherActive, file, Phase, me
      <3>3. \A g \in Files : /\ dest[g] # me => dest'[g] # me
                             /\ g \notin touched' => g \notin touched /\ dest'[g] = dest[g]
        BY <1>1, <1>3, <1>5, <3>1
      <3>4. run.at = "repair" =>
               \A g \in Files : g > file =>
                 /\ dest'[g] # me \/ expects[me][g] = "absent"
                 /\ g \notin touched' /\ expects[me][g] # "absent" => dest'[g] = expects[me][g]
                 /\ g \notin touched' /\ expects[me][g] = "absent" => dest'[g] \in {"absent", me}
        BY <3>3 DEF IndInv, RunIsSound
      <3>5. run.at = "settle" /\ run.verdict = "failed" =>
               /\ \A g \in Files : dest'[g] # me
               /\ marker = me => Matches(me)'
        BY <3>2, <3>3 DEF IndInv, RunIsSound
      <3> QED
        BY <1>1, <3>1, <3>2, <3>4, <3>5 DEF IndInv, RunIsSound
    <2> QED
      BY <2>1, <2>2
  <1> QED
    BY <1>6, <1>7, <1>8, <1>10, <1>11 DEF IndInv

----------------------------------------------------------------------------
LEMMA StutterStep == IndInv /\ UNCHANGED vars => IndInv'
  <1> SUFFICES ASSUME IndInv, UNCHANGED vars PROVE IndInv'
    OBVIOUS
  <1>1. UNCHANGED <<packet, result, staged, plan, marker, intent, journal, dest, backup, checked,
                    run, expects, touched, faults>>
    BY DEF vars, queue, store, files, world
  <1>2. Types'
    BY <1>1 DEF IndInv, Types
  <1>3. RunIsSound'
    BY <1>1 DEF IndInv, RunIsSound, Publishing, NoOtherActive, Recovering, Phase, Matches, me, file
  <1>4. \A i \in Installs : InHand(i)' => InHand(i)
    BY <1>1 DEF InHand, me
  <1>5. ResultsRepeatLedger'
    BY <1>1 DEF IndInv, RecordsAgree, ResultsRepeatLedger, Recovered
  <1> QED
    BY <1>1, <1>2, <1>3, <1>4, <1>5, SameFilesStep

LEMMA NextIndInv == IndInv /\ [Next]_vars => IndInv'
  <1> SUFFICES ASSUME IndInv, [Next]_vars PROVE IndInv'
    OBVIOUS
  <1>1. CASE Worker
    <2>1. CASE Startup
      BY <2>1, WorkerStep, MarkerStep
    <2>2. CASE \E i \in Installs : Take(i) \/ Consume(i)
      BY <2>2, RestStep
    <2>3. CASE ReplayTerminal \/ WriteMarker \/ ClearMarker
      BY <2>3, MarkerStep
    <2>4. CASE RecoverOpen \/ Admit \/ Admitted \/ Settle \/ Settled
      BY <2>4, IntentsStep
    <2>5. CASE Refuse \/ WriteResult \/ Prepare \/ WritePlan
      BY <2>5, WorkerStep
    <2>6. CASE \/ KernelNotStarted \/ KernelRecommit \/ KernelRepair \/ KeepRepaired
               \/ LeaveForeign \/ RepairRefused
      BY <2>6, KernelAnswerStep
    <2>7. CASE KernelStart \/ Frontier \/ Complete \/ Commit \/ RolledBack \/ Repaired
      BY <2>7, JournalsStep
    <2>8. CASE Vacate \/ Publish \/ Unpublish \/ PutBack
      BY <2>8, PublicationStep
    <2>9. CASE Throw
      BY <2>9, ThrowStep
    <2>10. CASE Displace \/ Restore
      BY <2>10, RepairStep
    <2> QED
      BY <1>1, <2>1, <2>2, <2>3, <2>4, <2>5, <2>6, <2>7, <2>8, <2>9, <2>10 DEF Worker
  <1>2. CASE CancelStaged
    BY <1>2, MarkerStep
  <1>3. CASE Crash \/ Fail
    BY <1>3, RestStep
  <1>4. CASE KernelThrows
    BY <1>4, ThrowStep
  <1>5. CASE KernelKilled
    BY <1>5, KernelAnswerStep
  <1>6. CASE \E i \in Installs : Submit(i) \/ AcceptAnother(i)
    BY <1>6, SubmitStep, IntentsStep
  <1>7. CASE \E g \in Files : WriteForeign(g)
    BY <1>7, ForeignStep
  <1>8. CASE UNCHANGED vars
    BY <1>8, StutterStep
  <1> QED
    BY <1>1, <1>2, <1>3, <1>4, <1>5, <1>6, <1>7, <1>8 DEF Next

(* The inductive invariant holds in every reachable state.                   *)
THEOREM Invariance == Spec => []IndInv
  BY InitIndInv, NextIndInv, PTL DEF Spec

(* Every variable keeps its type: the ledger entries, the journals, the run. *)
THEOREM TypeCorrect == Spec => []TypeOK
  <1>1. IndInv => TypeOK
    BY DEF IndInv, Types, TypeOK, RunRecords
  <1> QED
    BY <1>1, Invariance, PTL

(* Whatever dies and whenever: with no installation marked active, the files *)
(* that were left alone are all of one generation.                           *)
THEOREM GenerationSafe == Spec => []NoMixedGeneration
  <1>1. IndInv => NoMixedGeneration
    BY DEF IndInv, FilesAreSound, Uniform, NoMixedGeneration
  <1> QED
    BY <1>1, Invariance, PTL

(* A publication that stopped half-way is the marked one.                    *)
THEOREM MarkersSafe == Spec => []HalfInstallIsMarked
  <1>1. IndInv => HalfInstallIsMarked
    BY DEF IndInv, RecordsAgree, Phase, Won, Lost, HalfInstallIsMarked, Finished
  <1> QED
    BY <1>1, Invariance, PTL

(* The bytes the active installation found are in place or in its backup.    *)
THEOREM OldBytesSafe == Spec => []OldBytesAreKept
  <1>1. IndInv => OldBytesAreKept
    <2> SUFFICES ASSUME IndInv, marker # None, journal[marker].phase # "committed",
                        NEW g \in Files \ touched
                 PROVE  \/ expects[marker][g] = "absent"
                        \/ expects[marker][g] \in {dest[g], backup[marker][g]}
      BY DEF OldBytesAreKept
    <2>1. Restorable(marker)
      BY DEF IndInv, Types, FilesAreSound, ActiveIsSound, Phase
    <2> QED
      BY <2>1 DEF Restorable
  <1> QED
    BY <1>1, Invariance, PTL

(* The ledger settles what happened to the files.                            *)
THEOREM SettlementsSafe == Spec => []SettledAsDone
  <1>1. IndInv => SettledAsDone
    BY DEF IndInv, RecordsAgree, Phase, Won, Lost, SettledAsDone
  <1> QED
    BY <1>1, Invariance, PTL

(* A result repeats the ledger, by whichever process it was written.         *)
THEOREM ResultsSafe == Spec => []ResultsRepeatLedger
  <1>1. IndInv => ResultsRepeatLedger
    BY DEF IndInv, RecordsAgree
  <1> QED
    BY <1>1, Invariance, PTL

(* No step of the publication or of a recovery touches a file that another   *)
(* program put there.                                                        *)
THEOREM ForeignFilesSafe == Spec => ForeignFilesSurvive
  <1>1. ASSUME IndInv, [Next]_vars
        PROVE  \A g \in Files : dest'[g] # dest[g] /\ touched' = touched =>
                  dest[g] \in {"absent", run.of, expects[run.of][g]}
    <2> SUFFICES ASSUME NEW g \in Files, dest'[g] # dest[g], touched' = touched
                 PROVE  dest[g] \in {"absent", run.of, expects[run.of][g]}
      OBVIOUS
    <2>1. dest \in [Files -> Contents]
      BY <1>1 DEF IndInv, Types
    <2>2. \/ Vacate \/ Publish \/ Throw \/ KernelThrows \/ Unpublish \/ PutBack
          \/ Displace \/ Restore \/ \E f \in Files : WriteForeign(f)
      <3>1. CASE Worker
        BY <3>1 DEF Worker, Startup, Take, Consume, ReplayTerminal, RecoverOpen, Prepare, WritePlan,
           WriteMarker, Admit, Admitted, KernelStart, KernelNotStarted, KernelRecommit,
           KernelRepair, Frontier, Complete, Commit, LeaveForeign, RolledBack, KeepRepaired,
           RepairRefused, Repaired, Settle, Settled, ClearMarker, WriteResult, Refuse, files
      <3>2. CASE CancelStaged \/ Crash \/ Fail \/ KernelKilled \/ UNCHANGED vars
        BY <3>2 DEF CancelStaged, Crash, Fail, KernelKilled, vars, files
      <3>3. CASE \E i \in Installs : Submit(i) \/ AcceptAnother(i)
        BY <3>3 DEF Submit, AcceptAnother, files
      <3> QED
        BY <1>1, <3>1, <3>2, <3>3 DEF Next
    <2>3. CASE Vacate
      BY <2>1, <2>3 DEF Vacate, CanVacate, me
    <2>4. CASE Publish
      BY <2>1, <2>4 DEF Publish
    <2>5. CASE Throw \/ KernelThrows
      BY <2>1, <2>5 DEF Throw, KernelThrows, Catch, files
    <2>6. CASE Unpublish \/ PutBack
      BY <2>1, <2>6 DEF Unpublish, PutBack, me
    <2>7. CASE Displace \/ Restore
      BY <2>1, <2>7 DEF Displace, Restore, me
    <2>8. CASE \E f \in Files : WriteForeign(f)
      BY <2>8 DEF WriteForeign
    <2> QED
      BY <2>2, <2>3, <2>4, <2>5, <2>6, <2>7, <2>8
  <1> QED
    BY <1>1, Invariance, PTL DEF Spec, ForeignFilesSurvive
=============================================================================
