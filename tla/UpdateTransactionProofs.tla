----------------------- MODULE UpdateTransactionProofs -----------------------
(* Proofs about UpdateTransaction for every set of requests, candidates and  *)
(* workers and any number of deaths and errors: what worker, script and      *)
(* records know of each other, that outside an active update the             *)
(* installation is whole, and that active.json is true when it is written.   *)
(* All of it as long as no worker has taken the mutex beside a script that   *)
(* outlived its worker: nothing keeps the two apart.                         *)
EXTENDS UpdateTransaction, TLAPS

Inside(w) == proc[w].pc \notin {"idle", "waiting"}

(* Where a script may be at each step                                        *)
AtIsSound(at, pc) ==
    /\ pc \in {"move", "publish", "done", "restore", "refill"} => at \in 1 .. 4
    /\ pc = "next" => at \in 1 .. 5
    /\ pc \in {"undo", "repair"} => at \in 0 .. 4

(* What a worker has established                                             *)
WorkerIsSound(w) ==
    LET r == proc[w].request IN
    /\ proc[w].pc # "idle" => r \in Requests /\ request[r] # None
    /\ Inside(w) => mutex = w
    /\ proc[w].pc = "locked" => IF proc[w].recovery THEN ActiveIs(r)
                                ELSE TupleMatches /\ file["receipt"] = request[r]
    /\ Inside(w) /\ proc[w].pc # "locked" => ActiveIs(r)
    /\ proc[w].pc \in {"cancel", "staging"} => journal[r] = NoJournal
    /\ proc[w].pc \in {"running", "repairing"} => plan[r].receipt = request[r]
    /\ proc[w].pc \in {"installed", "closing"} => TupleMatches /\ file["receipt"] = r

(* What a script has established, with its worker or alone.  The journal is  *)
(* on disk before the script touches a file, and nobody but its worker is    *)
(* inside.                                                                   *)
ScriptIsSound(w) ==
    LET r == script[w].request IN
    /\ script[w].pc # "off" => proc[w].pc \in {"idle", "running", "repairing"}
    /\ script[w].pc = "ended" => proc[w].pc # "idle"
    /\ script[w].pc \notin {"off", "ended"} =>
          /\ r \in Requests /\ request[r] # None
          /\ ActiveIs(r) /\ plan[r].receipt = request[r]
          /\ proc[w].pc # "idle" => proc[w].request = r
          /\ \A v \in Workers : v # w => ~Inside(v) /\ script[v].pc = "off"
    /\ script[w].pc \notin {"off", "start", "ended"} => journal[r] # NoJournal
    /\ AtIsSound(script[w].at, script[w].pc)

(* A request rises above the receipt it was prepared for, and the plan and   *)
(* the backup of its transaction are those of that receipt.                  *)
RequestIsSound(r) ==
    /\ request[r] # None => VersionOf(request[r]) < Candidate[r]
    /\ journal[r] # NoJournal => txn[r] /\ plan[r].receipt = request[r]
    /\ backup[r]["receipt"] \in {None, request[r]}

(* During an active update the receipt is one of its two, and while there is *)
(* no journal nothing was touched.                                           *)
ActiveIsSound ==
    LET r == active.request IN
    /\ file["receipt"] \in Receipts \cup {None}
    /\ active.status = "active" =>
          /\ r \in Requests /\ request[r] # None
          /\ file["receipt"] \in {request[r], r, None}
          /\ journal[r] = NoJournal => TupleMatches /\ file["receipt"] = request[r]

IndInv ==
    /\ TypeOK /\ ~overlap
    /\ \A w \in Workers : WorkerIsSound(w) /\ ScriptIsSound(w)
    /\ \A r \in Requests : RequestIsSound(r)
    /\ ActiveIsSound
    /\ SettledIsWhole

----------------------------------------------------------------------------
LEMMA RolesFacts ==
  /\ Len(Roles) = 4 /\ Steps = 1 .. 4
  /\ \A i \in 1 .. 4 : Roles[i] \in Slots \cup {"worker"}
  <1>1. Len(Roles) = 4
    BY DEF Roles
  <1>2. Roles[1] = "skill" /\ Roles[2] = "worker" /\ Roles[3] = "cli" /\ Roles[4] = "receipt"
    BY DEF Roles
  <1>3. \A i \in 1 .. 4 : i = 1 \/ i = 2 \/ i = 3 \/ i = 4
    OBVIOUS
  <1> QED
    BY <1>1, <1>2, <1>3 DEF Steps, Slots

LEMMA ConstantFacts ==
  /\ None \notin Receipts /\ None \notin Versions /\ 0 \notin Requests /\ None \notin Requests
  /\ Versions \subseteq Nat /\ 0 \in Versions /\ 0 \in Receipts
  /\ \A receipt \in Receipts : VersionOf(receipt) \in Versions
  /\ \A r \in Requests : /\ Candidate[r] \in Nat \ {0} /\ Candidate[r] \in Versions
                         /\ VersionOf(r) = Candidate[r]
                         /\ r \in Receipts /\ r \in Contents /\ r # 0
  /\ Versions \subseteq Contents /\ Receipts \subseteq Contents /\ None \in Contents
  /\ MaxFaults \in Nat /\ MaxChoices \in Nat /\ None \notin Workers
  BY ConstantsAssumption DEF Versions, Receipts, VersionOf, Contents

LEMMA NoRecords ==
  /\ NoScript \in Scripts /\ NoScript.pc = "off" /\ IdleProc \in Procs /\ IdleProc.pc = "idle"
  /\ NoJournal \in Journals /\ NoJournal.phase = None
  BY RolesFacts, ConstantFacts
     DEF NoScript, Scripts, IdleProc, Procs, NoJournal, Journals, Phases, Steps

LEMMA InitIndInv == Init => IndInv
  <1> SUFFICES ASSUME Init PROVE IndInv
    OBVIOUS
  <1>1. TypeOK /\ ~overlap
    <2>1. /\ [tuple |-> 0, receipt |-> 0] \in Plans
          /\ [request |-> None, status |-> None] \in
                [request : Requests \cup {None},
                 status : {None, "active", "recovered_old", "committed"}]
          /\ 0 \in Contents /\ {0} \subseteq Versions
      BY ConstantFacts DEF Plans
    <2>2. ~overlap /\ overlap \in BOOLEAN
      BY DEF Init
    <2>3. /\ file \in [Slots -> Contents] /\ exe \subseteq Versions
          /\ request \in [Requests -> Receipts \cup {None}]
          /\ backup \in [Requests -> [Slots -> Contents]]
      BY <2>1, ConstantFacts DEF Init
    <2>4. /\ txn \in [Requests -> BOOLEAN] /\ plan \in [Requests -> Plans]
          /\ journal \in [Requests -> Journals] /\ proc \in [Workers -> Procs]
          /\ script \in [Workers -> Scripts]
      BY <2>1, NoRecords DEF Init
    <2>5. floor \in Versions /\ mutex = None /\ consent \in BOOLEAN
          /\ faults \in 0 .. MaxFaults /\ choices \in 0 .. MaxChoices
      BY ConstantFacts DEF Init
    <2> QED
      BY <2>1, <2>2, <2>3, <2>4, <2>5 DEF Init, TypeOK
  <1>2. TupleMatches
    BY ConstantFacts DEF Init, TupleMatches, Slots, VersionOf
  <1>3. \A w \in Workers : WorkerIsSound(w) /\ ScriptIsSound(w)
    BY NoRecords DEF Init, WorkerIsSound, ScriptIsSound, Inside, AtIsSound
  <1>4. \A r \in Requests : RequestIsSound(r)
    BY DEF Init, RequestIsSound, Slots
  <1>5. file["receipt"] = 0 /\ active.status # "active"
    BY NoneAssumption DEF Init, Slots
  <1>6. ActiveIsSound /\ SettledIsWhole
    BY <1>2, <1>5, ConstantFacts DEF ActiveIsSound, SettledIsWhole
  <1> QED
    BY <1>1, <1>3, <1>4, <1>6 DEF IndInv

----------------------------------------------------------------------------
(* The script after a step                                                   *)
ScriptPcs == {"off", "start", "next", "move", "publish", "done", "check", "commit",
              "clean", "undo", "restore", "repair", "refill", "ended"}

(* The script of w after a step that keeps its request, and what is left.    *)
ScriptIs(w, pc, at) ==
    /\ script' \in [Workers -> Scripts]
    /\ script'[w].pc = pc /\ script'[w].at = at /\ script'[w].request = script[w].request
    /\ \A v \in Workers : v # w => script'[v] = script[v]

LEMMA StepToFacts ==
  ASSUME TypeOK, NEW w \in Workers, NEW pc \in ScriptPcs, NEW at \in 0 .. 5, StepTo(w, pc, at)
  PROVE  ScriptIs(w, pc, at)
  <1> DEFINE x == [script[w] EXCEPT !.pc = pc]
             y == [x EXCEPT !.at = at]
  <1>1. script \in [Workers -> Scripts] /\ script[w] \in Scripts
    BY DEF TypeOK
  <1>2. at \in 0 .. Len(Roles) + 1
    BY RolesFacts
  <1>3. x \in Scripts /\ x.pc = pc /\ x.request = script[w].request
    BY <1>1 DEF Scripts, ScriptPcs
  <1>4. y \in Scripts /\ y.pc = pc /\ y.at = at /\ y.request = script[w].request
    BY <1>2, <1>3 DEF Scripts
  <1>5. script' = [script EXCEPT ![w] = y]
    BY <1>1 DEF StepTo
  <1> QED
    BY <1>1, <1>4, <1>5 DEF ScriptIs

LEMMA StepFacts ==
  ASSUME TypeOK, NEW w \in Workers, NEW pc \in ScriptPcs, Step(w, pc)
  PROVE  ScriptIs(w, pc, script[w].at)
  <1> DEFINE x == [script[w] EXCEPT !.pc = pc]
  <1>1. script \in [Workers -> Scripts] /\ script[w] \in Scripts
    BY DEF TypeOK
  <1>2. x \in Scripts /\ x.pc = pc /\ x.at = script[w].at /\ x.request = script[w].request
    BY <1>1 DEF Scripts, ScriptPcs
  <1>3. script' = [script EXCEPT ![w] = x]
    BY <1>1 DEF Step
  <1> QED
    BY <1>1, <1>2, <1>3 DEF ScriptIs

LEMMA ExitFacts ==
  ASSUME IndInv, NEW w \in Workers, NEW ok \in BOOLEAN, Exit(w, ok), script[w].pc # "off"
  PROVE  /\ script' \in [Workers -> Scripts]
         /\ script'[w].pc = IF proc[w].pc = "idle" THEN "off" ELSE "ended"
         /\ \A v \in Workers : v # w => script'[v] = script[v]
  <1> DEFINE over == [NoScript EXCEPT !.pc = "ended", !.ok = ok]
  <1>1. proc[w].pc \in {"idle", "running", "repairing"}
    BY DEF IndInv, ScriptIsSound
  <1>2. over \in Scripts /\ over.pc = "ended"
    BY NoRecords DEF Scripts, NoScript
  <1>3. script \in [Workers -> Scripts]
    BY DEF IndInv, TypeOK
  <1>4. script' = [script EXCEPT ![w] = IF proc[w].pc = "idle" THEN NoScript ELSE over]
    BY <1>1 DEF Exit
  <1> HIDE DEF over
  <1> QED
    BY <1>2, <1>3, <1>4, NoRecords

(* A running script works for the active update, and only its own worker is  *)
(* inside, if anybody is.                                                    *)
LEMMA InScript ==
  ASSUME IndInv, NEW w \in Workers, script[w].pc \notin {"off", "ended"}
  PROVE  LET r == script[w].request IN
         /\ r \in Requests /\ request[r] # None
         /\ ActiveIs(r) /\ plan[r].receipt = request[r]
         /\ proc[w].pc \in {"idle", "running", "repairing"}
         /\ \A v \in Workers : v # w => ~Inside(v) /\ script[v].pc = "off"
  BY DEF IndInv, ScriptIsSound

(* A step of a running script keeps the invariant when it touches a file     *)
(* only under a journal on disk, the receipt stays one of the two, and the   *)
(* backups are those of the receipt that the request was prepared for.       *)
ScriptGoesOn(w, r) ==
    /\ script' \in [Workers -> Scripts]
    /\ \A v \in Workers : v # w => script'[v] = script[v]
    /\ script'[w].pc = "ended" => proc[w].pc # "idle"
    /\ script'[w].pc \notin {"off", "ended"} =>
          /\ script'[w].request = r
          /\ AtIsSound(script'[w].at, script'[w].pc)
          /\ script'[w].pc # "start"
          /\ journal'[r] # NoJournal

JournalGrows(r) ==
    /\ journal' \in [Requests -> Journals]
    /\ \A q \in Requests : q # r => journal'[q] = journal[q]
    /\ UNCHANGED journal \/ (txn[r] /\ journal'[r] # NoJournal)

FilesAreCovered(r) ==
    /\ file' \in [Slots -> Contents] /\ exe' \subseteq Versions
    /\ UNCHANGED <<file, exe>> \/ ( /\ journal'[r] # NoJournal
                                    /\ file'["receipt"] \in {request[r], r, None})
    /\ backup' \in [Requests -> [Slots -> Contents]]
    /\ \A q \in Requests : q # r => backup'[q] = backup[q]
    /\ backup'[r]["receipt"] \in {None, request[r]}

BoundsAreKept ==
    faults' \in 0 .. MaxFaults /\ choices' \in 0 .. MaxChoices /\ UNCHANGED overlap

LEMMA ScriptStep ==
  ASSUME IndInv, NEW w \in Workers, NEW r \in Requests, script[w].request = r,
         script[w].pc \notin {"off", "ended"},
         UNCHANGED <<records, txn, plan, mutex, proc>>,
         ScriptGoesOn(w, r), JournalGrows(r), FilesAreCovered(r), BoundsAreKept
  PROVE  IndInv'
  <1>1. /\ request[r] # None /\ ActiveIs(r) /\ plan[r].receipt = request[r]
        /\ proc[w].pc \in {"idle", "running", "repairing"}
        /\ \A v \in Workers : v # w => ~Inside(v) /\ script[v].pc = "off"
    BY InScript
  <1>2. /\ UNCHANGED <<request, consent, active, floor, txn, plan, mutex, proc, overlap>>
        /\ active.request = r /\ active.status = "active"
    BY <1>1 DEF records, ActiveIs, BoundsAreKept
  <1>3. TypeOK' /\ ~overlap'
    BY <1>2 DEF IndInv, TypeOK, ScriptGoesOn, JournalGrows, FilesAreCovered, BoundsAreKept
  <1>4. ASSUME NEW v \in Workers, v # w
        PROVE  WorkerIsSound(v)' /\ ScriptIsSound(v)'
    <2>1. /\ WorkerIsSound(v) /\ ScriptIsSound(v)
          /\ proc[v].pc \in {"idle", "waiting"} /\ script[v].pc = "off"
      BY <1>1, <1>4 DEF IndInv, Inside
    <2>2. proc'[v] = proc[v] /\ script'[v] = script[v]
      BY <1>2, <1>4 DEF ScriptGoesOn
    <2> QED
      BY <1>2, <2>1, <2>2 DEF WorkerIsSound, ScriptIsSound, Inside, AtIsSound
  <1>5. WorkerIsSound(w)' /\ ScriptIsSound(w)'
    <2>1. WorkerIsSound(w) /\ ScriptIsSound(w)
      BY DEF IndInv
    <2>2. proc[w].pc # "idle" => proc[w].request = r
      BY <2>1 DEF ScriptIsSound
    <2>3. WorkerIsSound(w)'
      BY <1>1, <1>2, <2>1 DEF WorkerIsSound, Inside, ActiveIs
    <2>4. \A v \in Workers : v # w => ~Inside(v)' /\ script'[v].pc = "off"
      BY <1>1, <1>2 DEF Inside, ScriptGoesOn
    <2>5. ScriptIsSound(w)'
      BY <1>1, <1>2, <2>2, <2>4 DEF ScriptIsSound, AtIsSound, ScriptGoesOn, ActiveIs
    <2> QED
      BY <2>3, <2>5
  <1>6. ASSUME NEW q \in Requests
        PROVE  RequestIsSound(q)'
    <2>1. RequestIsSound(q)
      BY DEF IndInv
    <2>2. request[q]' = request[q]
      BY <1>2
    <2>3. CASE q = r
      BY <1>1, <1>2, <2>1, <2>2, <2>3
         DEF RequestIsSound, JournalGrows, FilesAreCovered, VersionOf
    <2>4. CASE q # r
      BY <1>1, <1>2, <2>1, <2>2, <2>4
         DEF RequestIsSound, JournalGrows, FilesAreCovered, VersionOf
    <2> QED
      BY <2>3, <2>4
  <1>7. ActiveIsSound'
    <2>1. ActiveIsSound
      BY DEF IndInv
    <2>2. request[r] \in Receipts
      BY <1>1 DEF IndInv, TypeOK
    <2>3. CASE UNCHANGED <<file, exe>>
      <3>1. TupleMatches' = TupleMatches
        BY <2>3 DEF TupleMatches, VersionOf
      <3> QED
        BY <1>2, <2>1, <2>3, <3>1 DEF ActiveIsSound, JournalGrows
    <2>4. CASE journal'[r] # NoJournal /\ file'["receipt"] \in {request[r], r, None}
      <3>1. file'["receipt"] \in Receipts \cup {None}
        BY <2>2, <2>4, ConstantFacts
      <3> QED
        BY <1>1, <1>2, <2>4, <3>1 DEF ActiveIsSound
    <2> QED
      BY <2>3, <2>4 DEF FilesAreCovered
  <1>8. SettledIsWhole'
    BY <1>2 DEF SettledIsWhole
  <1> QED
    BY <1>3, <1>4, <1>5, <1>6, <1>7, <1>8 DEF IndInv

----------------------------------------------------------------------------
(* What the steps of the script do to files, backups and journals            *)
LEMMA FileUpdate ==
  ASSUME TypeOK, NEW s \in Slots \cup {"worker"}, NEW x \in Contents,
         file' = [file EXCEPT ![s] = x]
  PROVE  /\ file' \in [Slots -> Contents]
         /\ file'["receipt"] = IF s = "receipt" THEN x ELSE file["receipt"]
  BY DEF TypeOK, Slots

LEMMA BackupUpdate ==
  ASSUME TypeOK, NEW r \in Requests, NEW s \in Slots \cup {"worker"}, NEW x \in Contents,
         backup' = [backup EXCEPT ![r][s] = x]
  PROVE  /\ backup' \in [Requests -> [Slots -> Contents]]
         /\ \A q \in Requests : q # r => backup'[q] = backup[q]
         /\ backup'[r]["receipt"] = IF s = "receipt" THEN x ELSE backup[r]["receipt"]
  <1> DEFINE b == [backup[r] EXCEPT ![s] = x]
  <1>1. backup \in [Requests -> [Slots -> Contents]] /\ backup[r] \in [Slots -> Contents]
    BY DEF TypeOK
  <1>2. b \in [Slots -> Contents]
    BY <1>1
  <1>3. b["receipt"] = IF s = "receipt" THEN x ELSE backup[r]["receipt"]
    BY <1>1 DEF Slots
  <1>4. backup' = [backup EXCEPT ![r] = b]
    OBVIOUS
  <1> QED
    BY <1>1, <1>2, <1>3, <1>4

LEMMA JournalUpdate ==
  ASSUME TypeOK, NEW r \in Requests, NEW record \in Journals, record # NoJournal,
         Journal(r, record)
  PROVE  JournalGrows(r) /\ journal'[r] # NoJournal
  BY DEF TypeOK, Journal, JournalGrows

LEMMA JournalStays ==
  ASSUME TypeOK, NEW r \in Requests, UNCHANGED journal
  PROVE  JournalGrows(r) /\ journal'[r] = journal[r]
  BY DEF TypeOK, JournalGrows

LEMMA FilesStay ==
  ASSUME IndInv, NEW r \in Requests, UNCHANGED installation
  PROVE  FilesAreCovered(r)
  <1>1. RequestIsSound(r) /\ TypeOK
    BY DEF IndInv
  <1> QED
    BY <1>1 DEF RequestIsSound, TypeOK, installation, FilesAreCovered

LEMMA BoundsStay ==
  ASSUME IndInv, UNCHANGED bounds \/ Fault
  PROVE  BoundsAreKept
  <1>1. /\ faults \in 0 .. MaxFaults /\ choices \in 0 .. MaxChoices
        /\ MaxFaults \in Nat /\ MaxChoices \in Nat
    BY ConstantFacts DEF IndInv, TypeOK
  <1> QED
    BY <1>1 DEF bounds, Fault, BoundsAreKept

LEMMA SlotBytes ==
  ASSUME TypeOK, NEW r \in Requests, NEW s \in Slots \cup {"worker"}
  PROVE  /\ NewBytes(r, s) \in Contents /\ NewBytes(r, "receipt") = r
         /\ OldBytes(r, s) \in Contents /\ OldBytes(r, "receipt") = plan[r].receipt
  <1>1. plan[r].tuple \in Receipts /\ plan[r].receipt \in Receipts
    BY DEF TypeOK, Plans
  <1>2. VersionOf(plan[r].tuple) \in Contents /\ plan[r].receipt \in Contents
    BY <1>1, ConstantFacts
  <1> QED
    BY <1>2, ConstantFacts DEF NewBytes, OldBytes

(* What a running script may rely on.                                        *)
LEMMA RunFacts ==
  ASSUME IndInv, NEW w \in Workers, script[w].pc \notin {"off", "ended"}
  PROVE  LET r == script[w].request IN
         /\ TypeOK /\ r \in Requests /\ plan[r].receipt = request[r]
         /\ script[w].pc # "start" =>
              journal[r] # NoJournal /\ txn[r] /\ file["receipt"] \in {request[r], r, None}
         /\ backup[r]["receipt"] \in {None, request[r]}
         /\ AtIsSound(script[w].at, script[w].pc)
         /\ script[w].at \in 0 .. 5 /\ script[w].mine \subseteq 1 .. 4
  <1> DEFINE r == script[w].request
  <1>1. r \in Requests /\ ActiveIs(r) /\ plan[r].receipt = request[r]
    BY InScript
  <1>2. TypeOK /\ ScriptIsSound(w) /\ RequestIsSound(r) /\ ActiveIsSound
    BY <1>1 DEF IndInv
  <1>3. script[w].at \in 0 .. 5 /\ script[w].mine \subseteq 1 .. 4
    BY <1>2, RolesFacts DEF TypeOK, Scripts
  <1>4. file["receipt"] \in {request[r], r, None}
    BY <1>1, <1>2 DEF ActiveIsSound, ActiveIs
  <1>5. script[w].pc # "start" => journal[r] # NoJournal
    BY <1>1, <1>2 DEF ScriptIsSound
  <1>6. journal[r] # NoJournal => txn[r]
    BY <1>2 DEF RequestIsSound
  <1>7. backup[r]["receipt"] \in {None, request[r]} /\ AtIsSound(script[w].at, script[w].pc)
    BY <1>2 DEF RequestIsSound, ScriptIsSound
  <1> QED
    BY <1>1, <1>2, <1>3, <1>4, <1>5, <1>6, <1>7

LEMMA GoesOnTo ==
  ASSUME NEW w \in Workers, NEW pc \in ScriptPcs \ {"off", "start", "ended"}, NEW at,
         ScriptIs(w, pc, at), AtIsSound(at, pc), journal'[script[w].request] # NoJournal
  PROVE  ScriptGoesOn(w, script[w].request)
  BY DEF ScriptIs, ScriptGoesOn

LEMMA GoesOnToEnd ==
  ASSUME IndInv, NEW w \in Workers, NEW ok \in BOOLEAN, Exit(w, ok), script[w].pc # "off"
  PROVE  ScriptGoesOn(w, script[w].request)
  BY ExitFacts DEF ScriptGoesOn

----------------------------------------------------------------------------
(* The steps of the script                                                   *)
LEMMA JournalRecords ==
  ASSUME NEW phase \in {"preparing", "publishing", "verifying", "committed", "rolled_back",
                        "blocked"},
         NEW n \in 0 .. 4, NEW d \in 0 .. 4
  PROVE  Record(phase, n, d) \in Journals /\ Record(phase, n, d) # NoJournal
  BY RolesFacts, NoneAssumption DEF Record, Journals, Phases, NoJournal

(* Steps that only write the journal, or nothing at all, and go on.          *)
LEMMA QuietStep ==
  ASSUME IndInv, NEW w \in Workers, script[w].pc \notin {"off", "ended"},
         UNCHANGED <<installation, records, txn, plan, mutex, proc>>,
         JournalGrows(script[w].request), ScriptGoesOn(w, script[w].request),
         UNCHANGED bounds \/ Fault
  PROVE  IndInv'
  <1> DEFINE r == script[w].request
  <1>1. r \in Requests
    BY RunFacts
  <1>2. FilesAreCovered(r) /\ BoundsAreKept
    BY <1>1, FilesStay, BoundsStay
  <1> QED
    BY <1>1, <1>2, ScriptStep

LEMMA BeginStep ==
  ASSUME IndInv, NEW w \in Workers, Begin(w)
  PROVE  IndInv'
  <1> DEFINE r == script[w].request
             record == Record("preparing", 0, 0)
  <1>1. script[w].pc = "start" /\ Journal(r, record) /\ StepTo(w, "next", 1)
    BY DEF Begin, Running
  <1>2. r \in Requests /\ TypeOK
    BY <1>1, RunFacts
  <1>3. record \in Journals /\ record # NoJournal
    BY JournalRecords
  <1>4. JournalGrows(r) /\ journal'[r] # NoJournal
    BY <1>1, <1>2, <1>3, JournalUpdate
  <1>5. ScriptIs(w, "next", 1)
    BY <1>1, <1>2, StepToFacts DEF ScriptPcs
  <1>6. ScriptGoesOn(w, r)
    BY <1>4, <1>5, GoesOnTo DEF ScriptPcs, AtIsSound
  <1> QED
    BY <1>1, <1>4, <1>6, QuietStep DEF Begin

LEMMA BeginAgainStep ==
  ASSUME IndInv, NEW w \in Workers, BeginAgain(w)
  PROVE  IndInv'
  <1> DEFINE r == script[w].request
  <1>1. script[w].pc = "start" /\ UNCHANGED journal
    BY DEF BeginAgain, Running
  <1>2. r \in Requests /\ TypeOK
    BY <1>1, RunFacts
  <1>3. JournalGrows(r) /\ journal'[r] = journal[r]
    BY <1>1, <1>2, JournalStays
  <1>4. CASE Exit(w, FALSE) \/ Exit(w, AllNew(r))
    <2>1. PICK ok \in BOOLEAN : Exit(w, ok)
      BY <1>4 DEF AllNew
    <2>2. ScriptGoesOn(w, r)
      BY <1>1, <2>1, GoesOnToEnd
    <2> QED
      BY <1>1, <1>3, <2>2, QuietStep DEF BeginAgain
  <1>5. CASE StepTo(w, "repair", Len(Roles)) /\ txn[r]
    <2>1. StepTo(w, "repair", 4)
      BY <1>5, RolesFacts
    <2>2. ScriptIs(w, "repair", 4)
      BY <1>2, <2>1, StepToFacts DEF ScriptPcs
    <2>3. journal'[r] # NoJournal
      BY <1>3, <1>5 DEF BeginAgain
    <2>4. ScriptGoesOn(w, r)
      BY <2>2, <2>3, GoesOnTo DEF ScriptPcs, AtIsSound
    <2> QED
      BY <1>1, <1>3, <2>4, QuietStep DEF BeginAgain
  <1> QED
    BY <1>4, <1>5 DEF BeginAgain

(* A script that writes a proper journal and goes on.                        *)
LEMMA AnnouncedStep ==
  ASSUME IndInv, NEW w \in Workers, script[w].pc \notin {"off", "start", "ended"},
         NEW record \in Journals, record # NoJournal, Journal(script[w].request, record),
         NEW pc \in ScriptPcs \ {"off", "start", "ended"}, NEW at, ScriptIs(w, pc, at),
         AtIsSound(at, pc),
         UNCHANGED <<installation, records, txn, plan, mutex, proc, bounds>>
  PROVE  IndInv'
  <1> DEFINE r == script[w].request
  <1>1. r \in Requests /\ TypeOK
    BY RunFacts
  <1>2. JournalGrows(r) /\ journal'[r] # NoJournal
    BY <1>1, JournalUpdate
  <1>3. ScriptGoesOn(w, r)
    BY <1>2, GoesOnTo
  <1> QED
    BY <1>2, <1>3, QuietStep

LEMMA AnnounceRoleStep ==
  ASSUME IndInv, NEW w \in Workers, AnnounceRole(w)
  PROVE  IndInv'
  <1> DEFINE i == script[w].at
             record == Record("publishing", i, i - 1)
  <1>1. script[w].pc = "next" /\ Journal(script[w].request, record) /\ i <= Len(Roles)
    BY DEF AnnounceRole, Running
  <1>2. TypeOK /\ i \in 1 .. 4
    BY <1>1, RunFacts, RolesFacts DEF AtIsSound
  <1>3. record \in Journals /\ record # NoJournal
    <2>1. i \in 0 .. 4 /\ i - 1 \in 0 .. 4
      BY <1>2
    <2> QED
      BY <2>1, JournalRecords
  <1>4. CASE StepTo(w, "next", i + 1)
    <2>1. ScriptIs(w, "next", i + 1)
      BY <1>2, <1>4, StepToFacts DEF ScriptPcs
    <2>2. AtIsSound(i + 1, "next")
      BY <1>2 DEF AtIsSound
    <2> QED
      BY <1>1, <1>3, <2>1, <2>2, AnnouncedStep DEF AnnounceRole, ScriptPcs
  <1>5. ASSUME NEW pc \in {"publish", "move"}, Step(w, pc)
        PROVE  IndInv'
    <2>1. ScriptIs(w, pc, i)
      BY <1>2, <1>5, StepFacts DEF ScriptPcs
    <2>2. AtIsSound(i, pc)
      BY <1>2 DEF AtIsSound
    <2> QED
      BY <1>1, <1>3, <2>1, <2>2, AnnouncedStep DEF AnnounceRole, ScriptPcs
  <1> QED
    BY <1>4, <1>5 DEF AnnounceRole

LEMMA CompleteRoleStep ==
  ASSUME IndInv, NEW w \in Workers, CompleteRole(w)
  PROVE  IndInv'
  <1> DEFINE i == script[w].at
             record == Record("publishing", i, i)
  <1>1. /\ script[w].pc = "done" /\ Journal(script[w].request, record)
        /\ StepTo(w, "next", i + 1)
    BY DEF CompleteRole, Running
  <1>2. TypeOK /\ i \in 1 .. 4
    BY <1>1, RunFacts DEF AtIsSound
  <1>3. record \in Journals /\ record # NoJournal
    BY <1>2, JournalRecords
  <1>4. ScriptIs(w, "next", i + 1)
    BY <1>1, <1>2, StepToFacts DEF ScriptPcs
  <1>5. AtIsSound(i + 1, "next")
    BY <1>2 DEF AtIsSound
  <1> QED
    BY <1>1, <1>3, <1>4, <1>5, AnnouncedStep DEF CompleteRole, ScriptPcs

LEMMA VerifyAndCommitSteps ==
  ASSUME IndInv, NEW w \in Workers, AnnounceVerify(w) \/ CommitJournal(w)
  PROVE  IndInv'
  <1>1. TypeOK
    BY DEF IndInv
  <1>2. CASE AnnounceVerify(w)
    <2> DEFINE record == Record("verifying", 0, 4)
    <2>1. script[w].pc = "next" /\ Journal(script[w].request, record) /\ Step(w, "check")
      BY <1>2, RolesFacts DEF AnnounceVerify, Running
    <2>2. record \in Journals /\ record # NoJournal
      BY JournalRecords
    <2>3. ScriptIs(w, "check", script[w].at) /\ AtIsSound(script[w].at, "check")
      BY <1>1, <2>1, StepFacts DEF ScriptPcs, AtIsSound
    <2> QED
      BY <1>2, <2>1, <2>2, <2>3, AnnouncedStep DEF AnnounceVerify, ScriptPcs
  <1>3. CASE CommitJournal(w)
    <2> DEFINE record == Record("committed", 0, 4)
    <2>1. script[w].pc = "commit" /\ Journal(script[w].request, record) /\ Step(w, "clean")
      BY <1>3, RolesFacts DEF CommitJournal, Running
    <2>2. record \in Journals /\ record # NoJournal
      BY JournalRecords
    <2>3. ScriptIs(w, "clean", script[w].at) /\ AtIsSound(script[w].at, "clean")
      BY <1>1, <2>1, StepFacts DEF ScriptPcs, AtIsSound
    <2> QED
      BY <1>3, <2>1, <2>2, <2>3, AnnouncedStep DEF CommitJournal, ScriptPcs
  <1> QED
    BY <1>2, <1>3

(* Steps that touch a file, with the journal as it is.                       *)
LEMMA TouchingStep ==
  ASSUME IndInv, NEW w \in Workers, script[w].pc \notin {"off", "start", "ended"},
         UNCHANGED <<records, txn, plan, journal, mutex, proc>>,
         file' \in [Slots -> Contents], exe' \subseteq Versions,
         file'["receipt"] \in {request[script[w].request], script[w].request, None},
         backup' \in [Requests -> [Slots -> Contents]],
         \A q \in Requests : q # script[w].request => backup'[q] = backup[q],
         backup'[script[w].request]["receipt"] \in {None, request[script[w].request]},
         ScriptGoesOn(w, script[w].request), UNCHANGED bounds \/ Fault
  PROVE  IndInv'
  <1> DEFINE r == script[w].request
  <1>1. r \in Requests /\ TypeOK /\ journal[r] # NoJournal
    BY RunFacts
  <1>2. JournalGrows(r) /\ journal'[r] # NoJournal
    BY <1>1, JournalStays
  <1>3. FilesAreCovered(r)
    BY <1>1, <1>2 DEF FilesAreCovered
  <1>4. BoundsAreKept
    BY BoundsStay
  <1> QED
    BY <1>1, <1>2, <1>3, <1>4, ScriptStep

(* A step after which the journal is as it was and the script is at pc.      *)
LEMMA StaysCovered ==
  ASSUME IndInv, NEW w \in Workers, script[w].pc \notin {"off", "start", "ended"},
         UNCHANGED journal, NEW pc \in ScriptPcs \ {"off", "start", "ended"}, NEW at,
         ScriptIs(w, pc, at), AtIsSound(at, pc)
  PROVE  ScriptGoesOn(w, script[w].request) /\ JournalGrows(script[w].request)
  <1>1. script[w].request \in Requests /\ TypeOK /\ journal[script[w].request] # NoJournal
    BY RunFacts
  <1>2. JournalGrows(script[w].request) /\ journal'[script[w].request] # NoJournal
    BY <1>1, JournalStays
  <1> QED
    BY <1>2, GoesOnTo

LEMMA SlotFacts ==
  ASSUME IndInv, NEW w \in Workers, script[w].pc \notin {"off", "start", "ended"},
         script[w].at \in 1 .. 4
  PROVE  LET r == script[w].request  s == Slot(w) IN
         /\ s \in Slots \cup {"worker"}
         /\ NewBytes(r, s) \in Contents /\ NewBytes(r, "receipt") = r
         /\ OldBytes(r, s) \in Contents /\ OldBytes(r, "receipt") = request[r]
         /\ s \in Slots => file[s] \in Contents /\ backup[r][s] \in Contents
  <1> DEFINE r == script[w].request
             s == Slot(w)
  <1>1. r \in Requests /\ TypeOK /\ plan[r].receipt = request[r]
    BY RunFacts
  <1>2. s \in Slots \cup {"worker"}
    BY RolesFacts DEF Slot
  <1>3. s \in Slots => file[s] \in Contents /\ backup[r][s] \in Contents
    BY <1>1 DEF TypeOK
  <1> QED
    BY <1>1, <1>2, <1>3, SlotBytes

LEMMA MoveAsideStep ==
  ASSUME IndInv, NEW w \in Workers, MoveAside(w)
  PROVE  IndInv'
  <1> DEFINE r == script[w].request
             s == Slot(w)
  <1>1. /\ script[w].pc = "move" /\ file[s] = OldBytes(r, s)
        /\ backup' = [backup EXCEPT ![r][s] = file[s]]
        /\ file' = [file EXCEPT ![s] = None]
        /\ Step(w, "publish") /\ UNCHANGED journal /\ UNCHANGED exe
    BY DEF MoveAside, Running
  <1>2. /\ TypeOK /\ r \in Requests /\ script[w].at \in 1 .. 4
        /\ file["receipt"] \in {request[r], r, None}
        /\ backup[r]["receipt"] \in {None, request[r]}
    BY <1>1, RunFacts DEF AtIsSound
  <1>3. /\ s \in Slots \cup {"worker"} /\ OldBytes(r, s) \in Contents
        /\ OldBytes(r, "receipt") = request[r]
    BY <1>1, <1>2, SlotFacts
  <1>4. /\ file' \in [Slots -> Contents]
        /\ file'["receipt"] = IF s = "receipt" THEN None ELSE file["receipt"]
    BY <1>1, <1>2, <1>3, ConstantFacts, FileUpdate
  <1>5. file[s] \in Contents
    BY <1>1, <1>3
  <1>6. /\ backup' \in [Requests -> [Slots -> Contents]]
        /\ \A q \in Requests : q # r => backup'[q] = backup[q]
        /\ backup'[r]["receipt"] = IF s = "receipt" THEN file[s] ELSE backup[r]["receipt"]
    BY <1>1, <1>2, <1>3, <1>5, BackupUpdate
  <1>7. ScriptIs(w, "publish", script[w].at) /\ AtIsSound(script[w].at, "publish")
    BY <1>1, <1>2, StepFacts DEF ScriptPcs, AtIsSound
  <1>8. ScriptGoesOn(w, r)
    BY <1>1, <1>7, StaysCovered DEF ScriptPcs
  <1>9. exe' \subseteq Versions
    BY <1>1, <1>2 DEF TypeOK
  <1>10. file'["receipt"] \in {request[r], r, None}
    BY <1>2, <1>4
  <1>11. backup'[r]["receipt"] \in {None, request[r]}
    BY <1>1, <1>2, <1>3, <1>6
  <1> QED
    BY <1>1, <1>4, <1>6, <1>8, <1>9, <1>10, <1>11, TouchingStep DEF MoveAside

(* A step that puts something into the slot at hand and leaves the backups.  *)
LEMMA FillingStep ==
  ASSUME IndInv, NEW w \in Workers, script[w].pc \notin {"off", "start", "ended"},
         script[w].at \in 1 .. 4,
         NEW x \in {None, NewBytes(script[w].request, Slot(w)),
                    OldBytes(script[w].request, Slot(w))},
         file' = [file EXCEPT ![Slot(w)] = x], exe' \subseteq Versions,
         UNCHANGED <<backup, records, txn, plan, journal, mutex, proc>>,
         ScriptGoesOn(w, script[w].request), UNCHANGED bounds \/ Fault
  PROVE  IndInv'
  <1> DEFINE r == script[w].request
             s == Slot(w)
  <1>1. /\ TypeOK /\ r \in Requests /\ file["receipt"] \in {request[r], r, None}
        /\ backup[r]["receipt"] \in {None, request[r]}
    BY RunFacts
  <1>2. /\ s \in Slots \cup {"worker"} /\ x \in Contents
        /\ s = "receipt" => x \in {request[r], r, None}
    BY SlotFacts, ConstantFacts
  <1>3. /\ file' \in [Slots -> Contents]
        /\ file'["receipt"] = IF s = "receipt" THEN x ELSE file["receipt"]
    BY <1>1, <1>2, FileUpdate
  <1>4. file'["receipt"] \in {request[r], r, None}
    BY <1>1, <1>2, <1>3
  <1>5. backup' \in [Requests -> [Slots -> Contents]]
    BY <1>1 DEF TypeOK
  <1> QED
    BY <1>1, <1>3, <1>4, <1>5, TouchingStep

(* A step that leaves the files of the slots and the backups.                *)
LEMMA ExeStep ==
  ASSUME IndInv, NEW w \in Workers, script[w].pc \notin {"off", "start", "ended"},
         exe' \subseteq Versions,
         UNCHANGED <<file, backup, records, txn, plan, journal, mutex, proc, bounds>>,
         ScriptGoesOn(w, script[w].request)
  PROVE  IndInv'
  <1>1. /\ TypeOK /\ file["receipt"] \in {request[script[w].request], script[w].request, None}
        /\ backup[script[w].request]["receipt"] \in {None, request[script[w].request]}
    BY RunFacts
  <1>2. file \in [Slots -> Contents] /\ backup \in [Requests -> [Slots -> Contents]]
    BY <1>1 DEF TypeOK
  <1> QED
    BY <1>1, <1>2, TouchingStep

LEMMA PublishRoleStep ==
  ASSUME IndInv, NEW w \in Workers, PublishRole(w)
  PROVE  IndInv'
  <1> DEFINE r == script[w].request
             y == [script[w] EXCEPT !.pc = "done", !.mine = @ \cup {script[w].at}]
  <1>1. /\ script[w].pc = "publish" /\ UNCHANGED journal
        /\ script' = [script EXCEPT ![w].pc = "done", ![w].mine = @ \cup {script[w].at}]
    BY DEF PublishRole, Running
  <1>2. /\ TypeOK /\ r \in Requests /\ script[w].at \in 1 .. 4 /\ script[w].mine \subseteq 1 .. 4
        /\ script \in [Workers -> Scripts] /\ script[w] \in Scripts
    BY <1>1, RunFacts DEF AtIsSound, TypeOK
  <1>3. y \in Scripts /\ y.pc = "done" /\ y.at = script[w].at /\ y.request = r
    BY <1>2, RolesFacts DEF Scripts
  <1>4. script' = [script EXCEPT ![w] = y]
    BY <1>1, <1>2
  <1>5. ScriptIs(w, "done", script[w].at)
    BY <1>2, <1>3, <1>4 DEF ScriptIs
  <1>6. AtIsSound(script[w].at, "done")
    BY <1>2 DEF AtIsSound
  <1>7. ScriptGoesOn(w, r)
    BY <1>1, <1>5, <1>6, StaysCovered DEF ScriptPcs
  <1>8. Candidate[r] \in Versions /\ exe \subseteq Versions
    BY <1>2, ConstantFacts DEF TypeOK
  <1>9. CASE Slot(w) = "worker"
    BY <1>1, <1>7, <1>8, <1>9, ExeStep DEF PublishRole
  <1>10. CASE Slot(w) # "worker"
    BY <1>1, <1>2, <1>7, <1>8, <1>10, FillingStep DEF PublishRole
  <1> QED
    BY <1>9, <1>10

LEMMA CheckInstalledStep ==
  ASSUME IndInv, NEW w \in Workers, CheckInstalled(w)
  PROVE  IndInv'
  <1>1. script[w].pc = "check" /\ UNCHANGED journal /\ Step(w, "commit") /\ TypeOK
    BY DEF CheckInstalled, Running, IndInv
  <1>2. ScriptIs(w, "commit", script[w].at) /\ AtIsSound(script[w].at, "commit")
    BY <1>1, StepFacts DEF ScriptPcs, AtIsSound
  <1>3. ScriptGoesOn(w, script[w].request) /\ JournalGrows(script[w].request)
    BY <1>1, <1>2, StaysCovered DEF ScriptPcs
  <1> QED
    BY <1>1, <1>3, QuietStep DEF CheckInstalled

LEMMA RemoveBackupsStep ==
  ASSUME IndInv, NEW w \in Workers, RemoveBackups(w)
  PROVE  IndInv'
  <1> DEFINE r == script[w].request
             b == [s \in Slots |-> IF file[s] = NewBytes(r, s) THEN None ELSE backup[r][s]]
  <1>1. /\ script[w].pc = "clean" /\ UNCHANGED journal /\ Exit(w, txn[r])
        /\ backup' = [backup EXCEPT ![r] = b]
    BY DEF RemoveBackups, Running
  <1>2. /\ TypeOK /\ r \in Requests /\ file["receipt"] \in {request[r], r, None}
        /\ backup[r]["receipt"] \in {None, request[r]}
    BY <1>1, RunFacts
  <1>3. /\ file \in [Slots -> Contents] /\ backup \in [Requests -> [Slots -> Contents]]
        /\ exe \subseteq Versions /\ txn[r] \in BOOLEAN
    BY <1>2 DEF TypeOK
  <1>4. b \in [Slots -> Contents] /\ b["receipt"] \in {None, request[r]}
    BY <1>2, <1>3, ConstantFacts DEF Slots
  <1>5. /\ backup' \in [Requests -> [Slots -> Contents]]
        /\ \A q \in Requests : q # r => backup'[q] = backup[q]
        /\ backup'[r]["receipt"] \in {None, request[r]}
    BY <1>1, <1>2, <1>3, <1>4
  <1>6. ScriptGoesOn(w, r)
    BY <1>1, <1>3, GoesOnToEnd
  <1> QED
    BY <1>1, <1>2, <1>3, <1>5, <1>6, TouchingStep DEF RemoveBackups

(* A step that only moves the script on.                                     *)
LEMMA MovingStep ==
  ASSUME IndInv, NEW w \in Workers, script[w].pc \notin {"off", "start", "ended"},
         NEW pc \in ScriptPcs \ {"off", "start", "ended"}, NEW at,
         ScriptIs(w, pc, at), AtIsSound(at, pc), UNCHANGED bounds \/ Fault,
         UNCHANGED <<installation, records, txn, plan, journal, mutex, proc>>
  PROVE  IndInv'
  <1>1. ScriptGoesOn(w, script[w].request) /\ JournalGrows(script[w].request)
    BY StaysCovered
  <1> QED
    BY <1>1, QuietStep

LEMMA ThrowStep ==
  ASSUME IndInv, NEW w \in Workers, Throw(w)
  PROVE  IndInv'
  <1> DEFINE at == IF script[w].at > Len(Roles) THEN Len(Roles) ELSE script[w].at
             flag == Running(w, "commit")
             y == [script[w] EXCEPT !.pc = "undo", !.flag = flag, !.at = at]
  <1>1. script[w].pc \in {"next", "move", "publish", "done", "check", "commit"}
    BY DEF Throw
  <1>2. /\ TypeOK /\ script[w].at \in 0 .. 5 /\ script[w] \in Scripts
        /\ script \in [Workers -> Scripts]
    BY <1>1, RunFacts DEF TypeOK
  <1>3. at \in 0 .. 4 /\ at \in 0 .. Len(Roles) + 1
    BY <1>2, RolesFacts
  <1>4. script' = [script EXCEPT ![w] = y]
    BY <1>2 DEF Throw
  <1>5. UNCHANGED bounds \/ Fault
    BY DEF Throw
  <1>6. flag \in BOOLEAN
    BY DEF Running
  <1> HIDE DEF at, flag
  <1>7. y \in Scripts /\ y.pc = "undo" /\ y.at = at /\ y.request = script[w].request
    <2>1. [script[w] EXCEPT !.pc = "undo"] \in Scripts
      BY <1>2 DEF Scripts
    <2>2. [script[w] EXCEPT !.pc = "undo", !.flag = flag] \in Scripts
      BY <1>6, <2>1 DEF Scripts
    <2>3. y \in Scripts
      BY <1>3, <2>2 DEF Scripts
    <2>4. y.pc = "undo" /\ y.at = at /\ y.request = script[w].request
      BY <1>2 DEF Scripts
    <2> QED
      BY <2>3, <2>4
  <1>8. ScriptIs(w, "undo", at)
    BY <1>2, <1>4, <1>7 DEF ScriptIs
  <1>9. AtIsSound(at, "undo")
    BY <1>3 DEF AtIsSound
  <1> QED
    BY <1>1, <1>5, <1>8, <1>9, MovingStep DEF Throw, ScriptPcs

(* Back to the role before.                                                  *)
LEMMA BackFacts ==
  ASSUME IndInv, NEW w \in Workers, script[w].pc \notin {"off", "ended"},
         script[w].at \in 1 .. 4, NEW pc \in {"undo", "repair"},
         StepTo(w, pc, script[w].at - 1)
  PROVE  ScriptIs(w, pc, script[w].at - 1) /\ AtIsSound(script[w].at - 1, pc)
  <1>1. TypeOK /\ script[w].at - 1 \in 0 .. 4 /\ script[w].at - 1 \in 0 .. 5
    BY DEF IndInv
  <1>2. ScriptIs(w, pc, script[w].at - 1)
    BY <1>1, StepToFacts DEF ScriptPcs
  <1>3. AtIsSound(script[w].at - 1, pc)
    BY <1>1 DEF AtIsSound
  <1> QED
    BY <1>2, <1>3

LEMMA TakeAwayStep ==
  ASSUME IndInv, NEW w \in Workers, TakeAway(w)
  PROVE  IndInv'
  <1>1. script[w].pc = "undo" /\ script[w].at \in script[w].mine /\ UNCHANGED journal
    BY DEF TakeAway, Running
  <1>2. TypeOK /\ script[w].at \in 1 .. 4 /\ exe \subseteq Versions
    BY <1>1, RunFacts DEF TypeOK
  <1>3. CASE Slot(w) = "worker"
    <2>1. /\ exe' = exe \ {Candidate[script[w].request]}
          /\ StepTo(w, "undo", script[w].at - 1) /\ UNCHANGED file
      BY <1>3 DEF TakeAway
    <2>2. ScriptIs(w, "undo", script[w].at - 1) /\ AtIsSound(script[w].at - 1, "undo")
      BY <1>1, <1>2, <2>1, BackFacts
    <2>3. ScriptGoesOn(w, script[w].request)
      BY <1>1, <2>2, StaysCovered DEF ScriptPcs
    <2> QED
      BY <1>1, <1>2, <2>1, <2>3, ExeStep DEF TakeAway
  <1>4. CASE Slot(w) # "worker"
    <2>1. /\ file' = [file EXCEPT ![Slot(w)] = None]
          /\ Step(w, "restore") /\ UNCHANGED exe
      BY <1>4 DEF TakeAway
    <2>2. ScriptIs(w, "restore", script[w].at) /\ AtIsSound(script[w].at, "restore")
      BY <1>2, <2>1, StepFacts DEF ScriptPcs, AtIsSound
    <2>3. ScriptGoesOn(w, script[w].request)
      BY <1>1, <2>2, StaysCovered DEF ScriptPcs
    <2> QED
      BY <1>1, <1>2, <2>1, <2>3, FillingStep DEF TakeAway
  <1> QED
    BY <1>3, <1>4

LEMMA SkipSteps ==
  ASSUME IndInv, NEW w \in Workers, SkipUndo(w) \/ SkipRepair(w)
  PROVE  IndInv'
  <1>1. PICK pc \in {"undo", "repair"} : /\ script[w].pc = pc /\ script[w].at > 0
                                         /\ StepTo(w, pc, script[w].at - 1)
    BY DEF SkipUndo, SkipRepair, Running
  <1>2. script[w].at \in 1 .. 4
    BY <1>1, RunFacts DEF AtIsSound
  <1>3. ScriptIs(w, pc, script[w].at - 1) /\ AtIsSound(script[w].at - 1, pc)
    BY <1>1, <1>2, BackFacts
  <1>4. /\ UNCHANGED <<installation, records, txn, plan, journal, mutex, proc>>
        /\ UNCHANGED bounds
    BY DEF SkipUndo, SkipRepair
  <1> QED
    BY <1>1, <1>3, <1>4, MovingStep DEF ScriptPcs

LEMMA PutBackStep ==
  ASSUME IndInv, NEW w \in Workers, PutBack(w)
  PROVE  IndInv'
  <1> DEFINE r == script[w].request
             s == Slot(w)
  <1>1. /\ script[w].pc \in {"undo", "restore"} /\ UNCHANGED <<exe, journal, bounds>>
        /\ file' = [file EXCEPT ![s] = backup[r][s]]
        /\ backup' = [backup EXCEPT ![r][s] = None]
        /\ StepTo(w, "undo", script[w].at - 1)
        /\ script[w].pc = "undo" => script[w].at > 0
    BY DEF PutBack, Running
  <1>2. /\ TypeOK /\ r \in Requests /\ script[w].at \in 1 .. 4
        /\ file["receipt"] \in {request[r], r, None}
        /\ backup[r]["receipt"] \in {None, request[r]}
    BY <1>1, RunFacts DEF AtIsSound
  <1>3. /\ file \in [Slots -> Contents] /\ backup \in [Requests -> [Slots -> Contents]]
        /\ exe \subseteq Versions
    BY <1>2 DEF TypeOK
  <1>4. s \in Slots \cup {"worker"}
    BY <1>1, <1>2, SlotFacts
  <1>5. file' \in [Slots -> Contents] /\ file'["receipt"] \in {request[r], r, None}
    <2>1. CASE s = "worker"
      <3>1. "worker" \notin Slots /\ "receipt" \in Slots
        BY DEF Slots
      <3> QED
        BY <1>1, <1>2, <1>3, <2>1, <3>1
    <2>2. CASE s \in Slots
      BY <1>1, <1>2, <1>3, <2>2, FileUpdate
    <2> QED
      BY <1>4, <2>1, <2>2
  <1>6. /\ backup' \in [Requests -> [Slots -> Contents]]
        /\ \A q \in Requests : q # r => backup'[q] = backup[q]
        /\ backup'[r]["receipt"] \in {None, request[r]}
    <2>1. None \in Contents /\ backup' = [backup EXCEPT ![r][s] = None]
      BY <1>1, ConstantFacts
    <2>2. /\ backup' \in [Requests -> [Slots -> Contents]]
          /\ \A q \in Requests : q # r => backup'[q] = backup[q]
          /\ backup'[r]["receipt"] = IF s = "receipt" THEN None ELSE backup[r]["receipt"]
      <3>1. s \in Slots \cup {"worker"} /\ r \in Requests
        BY <1>2, <1>4
      <3> HIDE DEF s, r
      <3> QED
        BY <1>2, <2>1, <3>1, BackupUpdate
    <2> QED
      BY <1>2, <2>2
  <1>7. ScriptIs(w, "undo", script[w].at - 1) /\ AtIsSound(script[w].at - 1, "undo")
    BY <1>1, <1>2, BackFacts
  <1>8. ScriptGoesOn(w, r)
    BY <1>1, <1>7, StaysCovered DEF ScriptPcs
  <1>9. exe' \subseteq Versions
    BY <1>1, <1>3
  <1> QED
    BY <1>1, <1>5, <1>6, <1>8, <1>9, TouchingStep DEF PutBack

LEMMA UndoFailsStep ==
  ASSUME IndInv, NEW w \in Workers, UndoFails(w)
  PROVE  IndInv'
  <1> DEFINE gone == Running(w, "undo") /\ Foreign(w) /\ file[Slot(w)] = None
             pc == IF gone THEN "restore" ELSE "undo"
             at == IF gone THEN script[w].at ELSE script[w].at - 1
             lost == script[w].lost \/ script[w].at \in script[w].mine
             y == [script[w] EXCEPT !.pc = pc, !.at = at, !.lost = lost]
  <1>1. /\ script[w].pc \in {"undo", "restore"} /\ script[w].at > 0
        /\ UNCHANGED <<installation, records, txn, plan, journal, mutex, proc>>
        /\ UNCHANGED bounds \/ Fault
    BY DEF UndoFails
  <1>2. /\ TypeOK /\ script[w].at \in 1 .. 4 /\ script[w] \in Scripts
        /\ script \in [Workers -> Scripts]
    BY <1>1, RunFacts DEF AtIsSound, TypeOK
  <1>3. pc \in {"undo", "restore"} /\ at \in 0 .. 5 /\ (pc = "undo" => at \in 0 .. 4)
        /\ (pc = "restore" => at \in 1 .. 4)
    BY <1>2
  <1>4. lost \in BOOLEAN
    BY <1>2 DEF Scripts
  <1>5. script' = [script EXCEPT ![w] = y]
    BY <1>2 DEF UndoFails
  <1> HIDE DEF pc, at, lost
  <1>6. y \in Scripts /\ y.pc = pc /\ y.at = at /\ y.request = script[w].request
    <2>1. at \in 0 .. Len(Roles) + 1
      BY <1>3, RolesFacts
    <2>2. [script[w] EXCEPT !.pc = pc] \in Scripts
      BY <1>2, <1>3 DEF Scripts
    <2>3. [script[w] EXCEPT !.pc = pc, !.at = at] \in Scripts
      BY <2>1, <2>2 DEF Scripts
    <2>4. y \in Scripts
      BY <1>4, <2>3 DEF Scripts
    <2>5. y.pc = pc /\ y.at = at /\ y.request = script[w].request
      BY <1>2 DEF Scripts
    <2> QED
      BY <2>4, <2>5
  <1>7. ScriptIs(w, pc, at)
    BY <1>2, <1>5, <1>6 DEF ScriptIs
  <1>8. AtIsSound(at, pc) /\ pc \in ScriptPcs \ {"off", "start", "ended"}
    BY <1>3 DEF AtIsSound, ScriptPcs
  <1> QED
    BY <1>1, <1>7, <1>8, MovingStep

(* A script that ends as it writes its last journal.                         *)
LEMMA LastSteps ==
  ASSUME IndInv, NEW w \in Workers, RolledBack(w) \/ RepairDone(w)
  PROVE  IndInv'
  <1> DEFINE r == script[w].request
  <1>1. /\ script[w].pc \in {"undo", "repair"} /\ Exit(w, FALSE)
        /\ UNCHANGED <<installation, records, txn, plan, mutex, proc, bounds>>
    BY DEF RolledBack, RepairDone, Running
  <1>2. /\ TypeOK /\ r \in Requests /\ txn[r] /\ journal[r].done \in 0 .. 4
        /\ script[w].flag \in BOOLEAN
    BY <1>1, RunFacts, RolesFacts DEF TypeOK, Journals, Scripts
  <1>3. PICK phase \in {"blocked", "rolled_back"}, flag \in BOOLEAN :
           Journal(r, [phase |-> phase, next |-> 0, done |-> journal[r].done,
                       committed |-> flag])
    BY <1>2 DEF RolledBack, RepairDone, Record
  <1> DEFINE record == [phase |-> phase, next |-> 0, done |-> journal[r].done,
                        committed |-> flag]
  <1>4. record \in Journals /\ record # NoJournal
    BY <1>2, RolesFacts, NoneAssumption DEF Journals, Phases, NoJournal
  <1>5. JournalGrows(r)
    BY <1>2, <1>3, <1>4, JournalUpdate
  <1>6. ScriptGoesOn(w, r)
    BY <1>1, GoesOnToEnd
  <1> QED
    BY <1>1, <1>5, <1>6, QuietStep

LEMMA RepairRoleStep ==
  ASSUME IndInv, NEW w \in Workers, RepairRole(w)
  PROVE  IndInv'
  <1>1. /\ script[w].pc = "repair" /\ script[w].at > 0 /\ UNCHANGED <<exe, journal>>
        /\ file' = [file EXCEPT ![Slot(w)] = None] /\ Step(w, "refill")
    BY DEF RepairRole, Running
  <1>2. TypeOK /\ script[w].at \in 1 .. 4 /\ exe' \subseteq Versions
    BY <1>1, RunFacts DEF AtIsSound, TypeOK
  <1>3. ScriptIs(w, "refill", script[w].at) /\ AtIsSound(script[w].at, "refill")
    BY <1>1, <1>2, StepFacts DEF ScriptPcs, AtIsSound
  <1>4. ScriptGoesOn(w, script[w].request)
    BY <1>1, <1>3, StaysCovered DEF ScriptPcs
  <1> QED
    BY <1>1, <1>2, <1>4, FillingStep DEF RepairRole

LEMMA RefillStep ==
  ASSUME IndInv, NEW w \in Workers, Refill(w)
  PROVE  IndInv'
  <1>1. /\ script[w].pc = "refill" /\ UNCHANGED <<exe, journal>>
        /\ file' = [file EXCEPT ![Slot(w)] = OldBytes(script[w].request, Slot(w))]
        /\ StepTo(w, "repair", script[w].at - 1)
    BY DEF Refill, Running
  <1>2. TypeOK /\ script[w].at \in 1 .. 4 /\ exe' \subseteq Versions
    BY <1>1, RunFacts DEF AtIsSound, TypeOK
  <1>3. ScriptIs(w, "repair", script[w].at - 1) /\ AtIsSound(script[w].at - 1, "repair")
    BY <1>1, <1>2, BackFacts
  <1>4. ScriptGoesOn(w, script[w].request)
    BY <1>1, <1>3, StaysCovered DEF ScriptPcs
  <1> QED
    BY <1>1, <1>2, <1>4, FillingStep DEF Refill

LEMMA StoppingSteps ==
  ASSUME IndInv, NEW w \in Workers, RepairStops(w) \/ ScriptDies(w)
  PROVE  IndInv'
  <1> DEFINE r == script[w].request
  <1>1. /\ script[w].pc \notin {"off", "ended"} /\ Exit(w, FALSE)
        /\ UNCHANGED bounds \/ Fault
        /\ UNCHANGED <<exe, backup, records, txn, plan, journal, mutex, proc>>
    BY DEF RepairStops, ScriptDies, installation
  <1>2. TypeOK /\ r \in Requests
    BY <1>1, RunFacts
  <1>3. ScriptGoesOn(w, r)
    BY <1>1, GoesOnToEnd
  <1>4. JournalGrows(r)
    BY <1>1, <1>2, JournalStays
  <1>5. CASE UNCHANGED file
    <2>1. UNCHANGED installation
      BY <1>1, <1>5 DEF installation
    <2> QED
      BY <1>1, <1>3, <1>4, <2>1, QuietStep
  <1>6. CASE /\ script[w].pc = "refill"
             /\ file' = [file EXCEPT ![Slot(w)] = NewBytes(r, Slot(w))]
    <2>1. script[w].at \in 1 .. 4 /\ exe' \subseteq Versions
      BY <1>1, <1>2, <1>6, RunFacts DEF AtIsSound, TypeOK
    <2> QED
      BY <1>1, <1>3, <1>6, <2>1, FillingStep
  <1> QED
    BY <1>5, <1>6 DEF RepairStops, ScriptDies, installation, Running

LEMMA ScriptStepsKeep ==
  ASSUME IndInv, NEW w \in Workers, ScriptSteps(w) \/ ScriptDies(w)
  PROVE  IndInv'
  BY BeginStep, BeginAgainStep, AnnounceRoleStep, MoveAsideStep, PublishRoleStep,
     CompleteRoleStep, VerifyAndCommitSteps, CheckInstalledStep, RemoveBackupsStep, ThrowStep,
     TakeAwayStep, SkipSteps, PutBackStep, UndoFailsStep, LastSteps, RepairRoleStep,
     RefillStep, StoppingSteps DEF ScriptSteps

----------------------------------------------------------------------------
(* The steps of the worker                                                   *)
LEMMA Alone ==
  ASSUME IndInv, NEW w \in Workers, Inside(w)
  PROVE  /\ proc[w].request \in Requests /\ request[proc[w].request] # None /\ mutex = w
         /\ \A v \in Workers : v # w => proc[v].pc \in {"idle", "waiting"} /\ script[v].pc = "off"
  <1>1. proc[w].request \in Requests /\ request[proc[w].request] # None /\ mutex = w
    BY DEF IndInv, WorkerIsSound, Inside
  <1>2. ASSUME NEW v \in Workers, v # w
        PROVE  proc[v].pc \in {"idle", "waiting"} /\ script[v].pc = "off"
    <2>1. proc[v].pc \in {"idle", "waiting"}
      BY <1>1, <1>2 DEF IndInv, WorkerIsSound, Inside
    <2>2. script[v].pc \in {"off", "ended"}
      BY <1>2 DEF IndInv, ScriptIsSound
    <2>3. script[v].pc # "ended"
      BY <2>1 DEF IndInv, ScriptIsSound
    <2> QED
      BY <2>1, <2>2, <2>3
  <1> QED
    BY <1>1, <1>2

LEMMA Bystander ==
  ASSUME IndInv, NEW v \in Workers, proc[v].pc \in {"idle", "waiting"}, script[v].pc = "off",
         proc'[v] = proc[v], script'[v] = script[v],
         \A q \in Requests : request[q] # None => request'[q] = request[q]
  PROVE  WorkerIsSound(v)' /\ ScriptIsSound(v)'
  <1>1. WorkerIsSound(v) /\ ScriptIsSound(v)
    BY DEF IndInv
  <1> QED
    BY <1>1 DEF WorkerIsSound, ScriptIsSound, Inside, AtIsSound

LEMMA SameFiles ==
  ASSUME UNCHANGED installation
  PROVE  /\ UNCHANGED <<file, exe, backup>>
         /\ TupleMatches' = TupleMatches
  BY DEF installation, TupleMatches, VersionOf

(* A step of the worker that holds the mutex and goes on.                    *)
LEMMA InsideStep ==
  ASSUME IndInv, NEW w \in Workers, Inside(w), UNCHANGED <<request, overlap>>,
         \A v \in Workers : v # w => proc'[v] = proc[v] /\ script'[v] = script[v],
         TypeOK', WorkerIsSound(w)', ScriptIsSound(w)', \A r \in Requests : RequestIsSound(r)',
         ActiveIsSound', SettledIsWhole'
  PROVE  IndInv'
  <1>1. ASSUME NEW v \in Workers
        PROVE  WorkerIsSound(v)' /\ ScriptIsSound(v)'
    <2>1. CASE v = w
      BY <2>1
    <2>2. CASE v # w
      BY <2>2, Alone, Bystander
    <2> QED
      BY <2>1, <2>2
  <1> QED
    BY <1>1 DEF IndInv

(* No script runs for a worker that neither runs nor repairs, and none is    *)
(* started.                                                                  *)
LEMMA ScriptIsOff ==
  ASSUME IndInv, NEW w \in Workers, Inside(w), proc[w].pc \notin {"running", "repairing"}
  PROVE  script[w].pc = "off" /\ script \in [Workers -> Scripts]
  BY DEF IndInv, ScriptIsSound, TypeOK, Inside

LEMMA OffIsSound ==
  ASSUME NEW w \in Workers, script'[w].pc = "off"
  PROVE  ScriptIsSound(w)'
  BY DEF ScriptIsSound, AtIsSound

LEMMA LaunchedIsSound ==
  ASSUME IndInv, NEW w \in Workers, Inside(w), NEW r \in Requests, ActiveIs(r),
         UNCHANGED <<active, request>>, request[r] # None, plan'[r].receipt = request[r],
         script'[w].pc = "start", script'[w].request = r,
         proc'[w].pc \in {"running", "repairing"}, proc'[w].request = r,
         \A v \in Workers : v # w => proc'[v] = proc[v] /\ script'[v] = script[v]
  PROVE  ScriptIsSound(w)'
  <1>1. \A v \in Workers : v # w => ~Inside(v)' /\ script'[v].pc = "off"
    BY Alone DEF Inside
  <1> QED
    BY <1>1 DEF ScriptIsSound, AtIsSound, ActiveIs

LEMMA GotoFacts ==
  ASSUME TypeOK, NEW w \in Workers, NEW pc, Goto(w, pc),
         pc \in {"apply", "cancel", "staging", "running", "repairing", "installed", "closing"}
  PROVE  /\ proc' \in [Workers -> Procs]
         /\ proc'[w].pc = pc /\ proc'[w].request = proc[w].request
         /\ proc'[w].recovery = proc[w].recovery
         /\ \A v \in Workers : v # w => proc'[v] = proc[v]
  <1>1. proc \in [Workers -> Procs] /\ proc[w] \in Procs
    BY DEF TypeOK
  <1> DEFINE x == [proc[w] EXCEPT !.pc = pc]
  <1>2. /\ x \in Procs /\ x.pc = pc /\ x.request = proc[w].request
        /\ x.recovery = proc[w].recovery
    BY <1>1 DEF Procs
  <1>3. proc' = [proc EXCEPT ![w] = x]
    BY <1>1 DEF Goto
  <1> QED
    BY <1>1, <1>2, <1>3

LEMMA LaunchFacts ==
  ASSUME TypeOK, NEW w \in Workers, Launch(w), proc[w].request \in Requests
  PROVE  /\ script' \in [Workers -> Scripts]
         /\ script'[w].pc = "start" /\ script'[w].request = proc[w].request
         /\ \A v \in Workers : v # w => script'[v] = script[v]
  <1> DEFINE x == [NoScript EXCEPT !.pc = "start", !.request = proc[w].request]
  <1>1. x \in Scripts /\ x.pc = "start" /\ x.request = proc[w].request
    BY NoRecords DEF Scripts, NoScript
  <1>2. script \in [Workers -> Scripts] /\ script' = [script EXCEPT ![w] = x]
    BY DEF TypeOK, Launch
  <1> HIDE DEF x
  <1> QED
    BY <1>1, <1>2

LEMMA QuitFacts ==
  ASSUME TypeOK, NEW w \in Workers, script' = [script EXCEPT ![w] = NoScript]
  PROVE  /\ script' \in [Workers -> Scripts]
         /\ script'[w].pc = "off"
         /\ \A v \in Workers : v # w => script'[v] = script[v]
  BY NoRecords DEF TypeOK

(* Nothing is touched: a request is as sound as it was.                      *)
LEMMA RequestsStay ==
  ASSUME IndInv, UNCHANGED <<request, backup>>,
         \A q \in Requests : \/ journal'[q] = NoJournal
                             \/ journal'[q] = journal[q] /\ txn'[q] = txn[q] /\ plan'[q] = plan[q]
  PROVE  \A q \in Requests : RequestIsSound(q)'
  <1> SUFFICES ASSUME NEW q \in Requests PROVE RequestIsSound(q)'
    OBVIOUS
  <1>1. RequestIsSound(q)
    BY DEF IndInv
  <1> QED
    BY <1>1 DEF RequestIsSound, VersionOf

LEMMA ActiveStays ==
  ASSUME IndInv, UNCHANGED <<installation, request, active>>,
         UNCHANGED overlap,
         active.status = "active" =>
             (journal'[active.request] = NoJournal => journal[active.request] = NoJournal)
  PROVE  ActiveIsSound' /\ SettledIsWhole'
  <1>1. ActiveIsSound /\ SettledIsWhole
    BY DEF IndInv
  <1> QED
    BY <1>1, SameFiles DEF ActiveIsSound, SettledIsWhole

LEMMA IntendStep ==
  ASSUME IndInv, NEW w \in Workers, Intend(w)
  PROVE  IndInv'
  <1> DEFINE r == proc[w].request
  <1>1. /\ proc[w].pc = "locked" /\ Inside(w) /\ Goto(w, "apply")
        /\ active' = IF proc[w].recovery THEN active ELSE [request |-> r, status |-> "active"]
        /\ UNCHANGED <<installation, request, consent, floor, txn, plan, journal, mutex,
                       script, bounds>>
    BY DEF Intend, Inside
  <1>2. TypeOK /\ WorkerIsSound(w) /\ r \in Requests /\ request[r] # None /\ mutex = w
    BY <1>1, Alone DEF IndInv
  <1>3. /\ proc' \in [Workers -> Procs] /\ proc'[w].pc = "apply" /\ proc'[w].request = r
        /\ \A v \in Workers : v # w => proc'[v] = proc[v]
    BY <1>1, <1>2, GotoFacts
  <1>4. UNCHANGED <<file, exe, backup>> /\ TupleMatches' = TupleMatches
    BY <1>1, SameFiles
  <1>5. ActiveIs(r)' /\ active'.request = r /\ active'.status = "active"
    <2>1. CASE proc[w].recovery
      BY <1>1, <1>2, <1>3, <2>1 DEF WorkerIsSound, ActiveIs
    <2>2. CASE ~proc[w].recovery
      BY <1>1, <1>3, <2>2 DEF ActiveIs
    <2> QED
      BY <2>1, <2>2
  <1>6. TypeOK'
    BY <1>1, <1>2, <1>3, <1>4, <1>5 DEF TypeOK, ActiveIs, bounds
  <1>7. WorkerIsSound(w)' /\ ScriptIsSound(w)'
    <2>1. script'[w].pc = "off"
      BY <1>1, ScriptIsOff
    <2>2. WorkerIsSound(w)'
      BY <1>1, <1>2, <1>3, <1>5 DEF WorkerIsSound, Inside
    <2> QED
      BY <2>1, <2>2, OffIsSound
  <1>8. \A q \in Requests : RequestIsSound(q)'
    BY <1>1, <1>4, RequestsStay
  <1>9. ActiveIsSound' /\ SettledIsWhole'
    <2>1. CASE proc[w].recovery
      BY <1>1, <2>1, ActiveStays DEF bounds
    <2>2. CASE ~proc[w].recovery
      <3>1. TupleMatches /\ file["receipt"] = request[r]
        BY <1>1, <1>2, <2>2 DEF WorkerIsSound
      <3>2. file["receipt"] \in Receipts \cup {None}
        BY DEF IndInv, ActiveIsSound
      <3> QED
        BY <1>1, <1>2, <1>4, <1>5, <3>1, <3>2 DEF ActiveIsSound, SettledIsWhole
    <2> QED
      BY <2>1, <2>2
  <1> QED
    BY <1>1, <1>3, <1>6, <1>7, <1>8, <1>9, InsideStep DEF bounds

LEMMA StageStep ==
  ASSUME IndInv, NEW w \in Workers, Stage(w)
  PROVE  IndInv'
  <1> DEFINE r == proc[w].request
  <1>1. /\ proc[w].pc = "apply" /\ Inside(w) /\ Goto(w, "staging") /\ ~txn[r]
        /\ txn' = [txn EXCEPT ![r] = TRUE]
        /\ UNCHANGED <<installation, request, consent, active, floor, plan, journal, mutex,
                       script, bounds>>
    BY DEF Stage, Inside, records
  <1>2. /\ TypeOK /\ WorkerIsSound(w) /\ r \in Requests /\ request[r] # None /\ mutex = w
        /\ RequestIsSound(r)
    BY <1>1, Alone DEF IndInv
  <1>3. /\ proc' \in [Workers -> Procs] /\ proc'[w].pc = "staging" /\ proc'[w].request = r
        /\ \A v \in Workers : v # w => proc'[v] = proc[v]
    BY <1>1, <1>2, GotoFacts
  <1>4. UNCHANGED <<file, exe, backup>> /\ TupleMatches' = TupleMatches
    BY <1>1, SameFiles
  <1>5. journal[r] = NoJournal
    BY <1>1, <1>2 DEF RequestIsSound
  <1>6. TypeOK'
    BY <1>1, <1>2, <1>3, <1>4 DEF TypeOK, bounds
  <1>7. WorkerIsSound(w)' /\ ScriptIsSound(w)'
    <2>1. script'[w].pc = "off"
      BY <1>1, ScriptIsOff
    <2>2. WorkerIsSound(w)'
      BY <1>1, <1>2, <1>3, <1>5 DEF WorkerIsSound, Inside, ActiveIs
    <2> QED
      BY <2>1, <2>2, OffIsSound
  <1>8. \A q \in Requests : RequestIsSound(q)'
    <2>1. \A q \in Requests : q # r => txn'[q] = txn[q]
      BY <1>1, <1>2 DEF TypeOK
    <2> QED
      BY <1>1, <1>4, <1>5, <2>1, RequestsStay
  <1>9. ActiveIsSound' /\ SettledIsWhole'
    BY <1>1, ActiveStays DEF bounds
  <1> QED
    BY <1>1, <1>3, <1>6, <1>7, <1>8, <1>9, InsideStep DEF bounds

LEMMA RunPlanStep ==
  ASSUME IndInv, NEW w \in Workers, RunPlan(w)
  PROVE  IndInv'
  <1> DEFINE r == proc[w].request
             p == [tuple |-> proc[w].seen, receipt |-> file["receipt"]]
  <1>1. /\ proc[w].pc = "staging" /\ Inside(w) /\ Goto(w, "running") /\ Launch(w)
        /\ file["receipt"] # None /\ plan' = [plan EXCEPT ![r] = p]
        /\ UNCHANGED <<installation, request, consent, active, floor, txn, journal, mutex,
                       bounds>>
    BY DEF RunPlan, Inside, records
  <1>2. /\ TypeOK /\ WorkerIsSound(w) /\ r \in Requests /\ request[r] # None /\ mutex = w
        /\ ActiveIsSound
    BY <1>1, Alone DEF IndInv
  <1>3. /\ proc' \in [Workers -> Procs] /\ proc'[w].pc = "running" /\ proc'[w].request = r
        /\ \A v \in Workers : v # w => proc'[v] = proc[v]
    BY <1>1, <1>2, GotoFacts
  <1>4. UNCHANGED <<file, exe, backup>> /\ TupleMatches' = TupleMatches
    BY <1>1, SameFiles
  <1>5. /\ script' \in [Workers -> Scripts]
        /\ script'[w].pc = "start" /\ script'[w].request = r
        /\ \A v \in Workers : v # w => script'[v] = script[v]
    BY <1>1, <1>2, LaunchFacts
  <1>6. ActiveIs(r) /\ journal[r] = NoJournal /\ file["receipt"] = request[r]
    BY <1>1, <1>2 DEF WorkerIsSound, Inside, ActiveIs, ActiveIsSound
  <1>7. p \in Plans
    <2>1. file["receipt"] \in Receipts
      BY <1>1, <1>2 DEF ActiveIsSound
    <2>2. proc[w].seen \in Receipts
      BY <1>2 DEF TypeOK, Procs
    <2> QED
      BY <2>1, <2>2 DEF Plans
  <1>8. /\ plan' \in [Requests -> Plans] /\ plan'[r].receipt = request[r]
        /\ \A q \in Requests : q # r => plan'[q] = plan[q]
    BY <1>1, <1>2, <1>6, <1>7 DEF TypeOK
  <1>9. TypeOK'
    BY <1>1, <1>2, <1>3, <1>4, <1>5, <1>8 DEF TypeOK, bounds
  <1>10. WorkerIsSound(w)' /\ ScriptIsSound(w)'
    <2>1. WorkerIsSound(w)'
      BY <1>1, <1>2, <1>3, <1>6, <1>8 DEF WorkerIsSound, Inside, ActiveIs
    <2> QED
      BY <1>1, <1>2, <1>3, <1>5, <1>6, <1>8, <2>1, LaunchedIsSound
  <1>11. \A q \in Requests : RequestIsSound(q)'
    BY <1>1, <1>4, <1>6, <1>8, RequestsStay
  <1>12. ActiveIsSound' /\ SettledIsWhole'
    BY <1>1, ActiveStays DEF bounds
  <1> QED
    BY <1>1, <1>3, <1>5, <1>9, <1>10, <1>11, <1>12, InsideStep DEF bounds

LEMMA RunRepairStep ==
  ASSUME IndInv, NEW w \in Workers, RunRepair(w)
  PROVE  IndInv'
  <1> DEFINE r == proc[w].request
  <1>1. /\ proc[w].pc = "apply" /\ Inside(w) /\ Goto(w, "repairing") /\ Launch(w)
        /\ journal[r] # NoJournal
        /\ UNCHANGED <<installation, request, consent, active, floor, txn, plan, journal, mutex,
                       bounds>>
    BY DEF RunRepair, Inside, records
  <1>2. /\ TypeOK /\ WorkerIsSound(w) /\ r \in Requests /\ request[r] # None /\ mutex = w
        /\ RequestIsSound(r)
    BY <1>1, Alone DEF IndInv
  <1>3. /\ proc' \in [Workers -> Procs] /\ proc'[w].pc = "repairing" /\ proc'[w].request = r
        /\ \A v \in Workers : v # w => proc'[v] = proc[v]
    BY <1>1, <1>2, GotoFacts
  <1>4. UNCHANGED <<file, exe, backup>> /\ TupleMatches' = TupleMatches
    BY <1>1, SameFiles
  <1>5. /\ script' \in [Workers -> Scripts]
        /\ script'[w].pc = "start" /\ script'[w].request = r
        /\ \A v \in Workers : v # w => script'[v] = script[v]
    BY <1>1, <1>2, LaunchFacts
  <1>6. plan[r].receipt = request[r] /\ ActiveIs(r)
    BY <1>1, <1>2 DEF RequestIsSound, WorkerIsSound
  <1>7. TypeOK'
    BY <1>1, <1>2, <1>3, <1>4, <1>5 DEF TypeOK, bounds
  <1>8. WorkerIsSound(w)' /\ ScriptIsSound(w)'
    <2>1. WorkerIsSound(w)'
      BY <1>1, <1>2, <1>3, <1>6 DEF WorkerIsSound, Inside, ActiveIs
    <2> QED
      BY <1>1, <1>2, <1>3, <1>5, <1>6, <2>1, LaunchedIsSound
  <1>9. \A q \in Requests : RequestIsSound(q)'
    BY <1>1, <1>4, RequestsStay
  <1>10. ActiveIsSound' /\ SettledIsWhole'
    BY <1>1, ActiveStays DEF bounds
  <1> QED
    BY <1>1, <1>3, <1>5, <1>7, <1>8, <1>9, <1>10, InsideStep DEF bounds

(* The version decides the receipt: the request rises above the one it was   *)
(* prepared for.                                                             *)
LEMMA VersionDecides ==
  ASSUME IndInv, NEW r \in Requests, ActiveIs(r), file["receipt"] # None
  PROVE  /\ NewInstalled(r) => TupleMatches /\ file["receipt"] = r
         /\ OldInstalled(r) => TupleMatches /\ file["receipt"] = request[r]
  <1>1. ActiveIsSound /\ RequestIsSound(r) /\ TypeOK
    BY DEF IndInv
  <1>2. file["receipt"] \in {request[r], r} /\ request[r] # None
    BY <1>1 DEF ActiveIsSound, ActiveIs
  <1>3. request[r] \in Receipts /\ VersionOf(request[r]) < Candidate[r]
    BY <1>1, <1>2 DEF TypeOK, RequestIsSound
  <1>4. /\ VersionOf(request[r]) \in Nat /\ Candidate[r] \in Nat /\ VersionOf(r) = Candidate[r]
    BY <1>3, ConstantFacts
  <1>5. VersionOf(request[r]) # VersionOf(r)
    BY <1>3, <1>4
  <1> QED
    BY <1>2, <1>4, <1>5 DEF NewInstalled, OldInstalled

LEMMA InstalledStep ==
  ASSUME IndInv, NEW w \in Workers, Installed(w)
  PROVE  IndInv'
  <1> DEFINE r == proc[w].request
  <1>1. /\ script[w].pc = "ended" /\ file["receipt"] # None /\ NewInstalled(r)
        /\ script' = [script EXCEPT ![w] = NoScript] /\ Goto(w, "installed")
        /\ UNCHANGED <<installation, request, consent, active, floor, txn, plan, journal, mutex,
                       bounds>>
    BY DEF Installed, Ended, records
  <1>2. /\ TypeOK /\ WorkerIsSound(w) /\ Inside(w)
        /\ proc[w].pc \in {"running", "repairing"}
    BY <1>1 DEF IndInv, ScriptIsSound, Inside
  <1>3. r \in Requests /\ request[r] # None /\ mutex = w
    BY <1>2, Alone
  <1>4. /\ proc' \in [Workers -> Procs] /\ proc'[w].pc = "installed" /\ proc'[w].request = r
        /\ \A v \in Workers : v # w => proc'[v] = proc[v]
    BY <1>1, <1>2, GotoFacts
  <1>5. UNCHANGED <<file, exe, backup>> /\ TupleMatches' = TupleMatches
    BY <1>1, SameFiles
  <1>6. /\ script' \in [Workers -> Scripts] /\ script'[w].pc = "off"
        /\ \A v \in Workers : v # w => script'[v] = script[v]
    BY <1>1, <1>2, QuitFacts
  <1>7. ActiveIs(r)
    BY <1>1, <1>2 DEF WorkerIsSound, Inside
  <1>8. TupleMatches /\ file["receipt"] = r
    BY <1>1, <1>3, <1>7, VersionDecides
  <1>9. TypeOK'
    BY <1>1, <1>2, <1>4, <1>5, <1>6 DEF TypeOK, bounds
  <1>10. WorkerIsSound(w)' /\ ScriptIsSound(w)'
    <2>1. WorkerIsSound(w)'
      BY <1>1, <1>3, <1>4, <1>5, <1>7, <1>8 DEF WorkerIsSound, Inside, ActiveIs
    <2> QED
      BY <1>6, <2>1, OffIsSound
  <1>11. \A q \in Requests : RequestIsSound(q)'
    BY <1>1, <1>5, RequestsStay
  <1>12. ActiveIsSound' /\ SettledIsWhole'
    BY <1>1, ActiveStays DEF bounds
  <1> QED
    BY <1>1, <1>2, <1>4, <1>6, <1>9, <1>10, <1>11, <1>12, InsideStep DEF bounds

LEMMA SaveFloorStep ==
  ASSUME IndInv, NEW w \in Workers, SaveFloor(w)
  PROVE  IndInv'
  <1> DEFINE r == proc[w].request
  <1>1. /\ proc[w].pc = "installed" /\ Inside(w) /\ Goto(w, "closing")
        /\ UNCHANGED <<installation, request, consent, active, txn, plan, journal, mutex,
                       script>>
        /\ floor' = Candidate[r] \/ UNCHANGED floor
        /\ UNCHANGED bounds \/ Fault
    BY DEF SaveFloor, Inside
  <1>2. /\ TypeOK /\ WorkerIsSound(w) /\ r \in Requests /\ request[r] # None /\ mutex = w
    BY <1>1, Alone DEF IndInv
  <1>3. /\ proc' \in [Workers -> Procs] /\ proc'[w].pc = "closing" /\ proc'[w].request = r
        /\ \A v \in Workers : v # w => proc'[v] = proc[v]
    BY <1>1, <1>2, GotoFacts
  <1>4. UNCHANGED <<file, exe, backup>> /\ TupleMatches' = TupleMatches
    BY <1>1, SameFiles
  <1>5. floor' \in Versions
    BY <1>1, <1>2, ConstantFacts DEF TypeOK
  <1>6. BoundsAreKept
    BY <1>1, BoundsStay
  <1>7. TypeOK'
    BY <1>1, <1>2, <1>3, <1>4, <1>5, <1>6 DEF TypeOK, BoundsAreKept
  <1>8. WorkerIsSound(w)' /\ ScriptIsSound(w)'
    <2>1. script'[w].pc = "off"
      BY <1>1, ScriptIsOff
    <2>2. WorkerIsSound(w)'
      BY <1>1, <1>2, <1>3, <1>4 DEF WorkerIsSound, Inside, ActiveIs
    <2> QED
      BY <2>1, <2>2, OffIsSound
  <1>9. \A q \in Requests : RequestIsSound(q)'
    BY <1>1, <1>4, RequestsStay
  <1>10. ActiveIsSound' /\ SettledIsWhole'
    BY <1>1, <1>6, ActiveStays DEF BoundsAreKept
  <1> QED
    BY <1>1, <1>3, <1>6, <1>7, <1>8, <1>9, <1>10, InsideStep DEF BoundsAreKept

(* A worker ends the active update only on a whole installation and under    *)
(* the mutex, and drops a transaction only with its journal.                 *)
ActiveEnds(w) ==
    /\ Inside(w) /\ TupleMatches
    /\ active'.status # "active" /\ active'.status \in {"recovered_old", "committed"}
    /\ active'.request = active.request
    /\ active' \in [request : Requests \cup {None},
                    status : {None, "active", "recovered_old", "committed"}]
    /\ txn' \in [Requests -> BOOLEAN] /\ journal' \in [Requests -> Journals]
    /\ \A q \in Requests : \/ journal'[q] = NoJournal
                           \/ journal'[q] = journal[q] /\ txn'[q] = txn[q]

(* A worker ends, and leaves its script behind at most when it dies.         *)
LEMMA ReturnStep ==
  ASSUME IndInv, NEW w \in Workers, Return(w),
         UNCHANGED <<installation, request, consent, floor, plan>>,
         script' \in [Workers -> Scripts],
         script'[w].pc = "off" \/ (script'[w] = script[w] /\ script[w].pc # "ended"
                                  /\ UNCHANGED <<active, txn, journal>>),
         \A v \in Workers : v # w => script'[v] = script[v],
         UNCHANGED <<active, txn, journal>> \/ ActiveEnds(w), BoundsAreKept
  PROVE  IndInv'
  <1>1. TypeOK
    BY DEF IndInv
  <1>2. /\ proc' \in [Workers -> Procs] /\ proc'[w].pc = "idle"
        /\ \A v \in Workers : v # w => proc'[v] = proc[v]
        /\ mutex' = IF mutex = w THEN None ELSE mutex
    BY <1>1, NoRecords DEF Return, TypeOK
  <1>3. UNCHANGED <<file, exe, backup>> /\ TupleMatches' = TupleMatches
    BY SameFiles
  <1>4. TypeOK' /\ ~overlap'
    BY <1>1, <1>2, <1>3 DEF IndInv, TypeOK, ActiveEnds, BoundsAreKept
  <1>5. WorkerIsSound(w)'
    BY <1>2 DEF WorkerIsSound, Inside
  <1>6. ScriptIsSound(w)'
    <2>1. CASE script'[w].pc = "off"
      BY <2>1, OffIsSound
    <2>2. CASE /\ script'[w] = script[w] /\ script[w].pc \notin {"off", "ended"}
               /\ UNCHANGED <<active, txn, journal>>
      <3>1. ScriptIsSound(w)
        BY DEF IndInv
      <3>2. \A v \in Workers : v # w => ~Inside(v)' /\ script'[v].pc = "off"
        BY <1>2, <2>2, <3>1 DEF ScriptIsSound, Inside
      <3> QED
        BY <1>2, <2>2, <3>1, <3>2 DEF ScriptIsSound, AtIsSound, ActiveIs
    <2> QED
      BY <2>1, <2>2
  <1>7. ASSUME NEW v \in Workers, v # w
        PROVE  WorkerIsSound(v)' /\ ScriptIsSound(v)'
    <2>1. proc'[v] = proc[v] /\ script'[v] = script[v] /\ WorkerIsSound(v) /\ ScriptIsSound(v)
      BY <1>2, <1>7 DEF IndInv
    <2>2. CASE Inside(w)
      BY <1>7, <2>1, <2>2, Alone, Bystander
    <2>3. CASE ~Inside(w)
      <3>1. UNCHANGED <<active, txn, journal>>
        BY <2>3 DEF ActiveEnds
      <3>2. Inside(v) => mutex' = v
        BY <1>2, <1>7, <2>1 DEF WorkerIsSound
      <3>3. WorkerIsSound(v)'
        BY <1>3, <2>1, <3>1, <3>2 DEF WorkerIsSound, Inside, ActiveIs
      <3>4. ScriptIsSound(v)'
        <4>1. CASE script[v].pc \in {"off", "ended"}
          BY <2>1, <4>1 DEF ScriptIsSound, AtIsSound
        <4>2. CASE script[v].pc \notin {"off", "ended"}
          <5>1. script[w].pc = "off"
            BY <1>7, <2>1, <4>2 DEF ScriptIsSound
          <5>2. script'[w].pc = "off"
            BY <5>1
          <5>3. \A x \in Workers : x # v => ~Inside(x)' /\ script'[x].pc = "off"
            BY <1>2, <2>1, <4>2, <5>2 DEF ScriptIsSound, Inside
          <5> QED
            BY <2>1, <3>1, <4>2, <5>3 DEF ScriptIsSound, AtIsSound, ActiveIs
        <4> QED
          BY <4>1, <4>2
      <3> QED
        BY <3>3, <3>4
    <2> QED
      BY <2>2, <2>3
  <1>8. \A q \in Requests : RequestIsSound(q)'
    BY <1>3, RequestsStay DEF ActiveEnds
  <1>9. ActiveIsSound' /\ SettledIsWhole'
    <2>1. CASE UNCHANGED <<active, txn, journal>>
      BY <2>1, ActiveStays DEF BoundsAreKept
    <2>2. CASE ActiveEnds(w)
      <3>1. file["receipt"] \in Receipts \cup {None}
        BY DEF IndInv, ActiveIsSound
      <3> QED
        BY <1>3, <2>2, <3>1 DEF ActiveEnds, ActiveIsSound, SettledIsWhole
    <2> QED
      BY <2>1, <2>2
  <1> QED
    BY <1>4, <1>5, <1>6, <1>7, <1>8, <1>9 DEF IndInv

LEMMA GivingUpSteps ==
  ASSUME IndInv, NEW w \in Workers,
         \/ LockRefused(w) \/ IntendRefused(w) \/ RunPlanFails(w) \/ ScriptFailed(w)
         \/ WorkerFails(w) \/ WorkerDies(w)
  PROVE  IndInv'
  <1>1. /\ Return(w) /\ UNCHANGED <<installation, request, consent, active, floor, txn, plan,
                                    journal>>
        /\ UNCHANGED bounds \/ Fault
    BY DEF LockRefused, IntendRefused, RunPlanFails, ScriptFailed, WorkerFails, WorkerDies,
           records
  <1>2. BoundsAreKept
    BY <1>1, BoundsStay
  <1>3. \/ script' = [script EXCEPT ![w] = NoScript]
        \/ UNCHANGED script /\ script[w].pc # "ended"
    <2>1. proc[w].pc \notin {"running", "repairing"} => script[w].pc # "ended"
      BY DEF IndInv, ScriptIsSound
    <2> QED
      BY <2>1 DEF LockRefused, IntendRefused, RunPlanFails, ScriptFailed, WorkerFails, WorkerDies
  <1>4. /\ script' \in [Workers -> Scripts]
        /\ script'[w].pc = "off" \/ (script'[w] = script[w] /\ script[w].pc # "ended")
        /\ \A v \in Workers : v # w => script'[v] = script[v]
    BY <1>3, QuitFacts DEF IndInv, TypeOK
  <1> QED
    BY <1>1, <1>2, <1>4, ReturnStep

(* The statuses of active.json                                               *)
LEMMA ActiveRecord ==
  ASSUME TypeOK, NEW status \in {"recovered_old", "committed"},
         active' = [active EXCEPT !.status = status]
  PROVE  /\ active'.status = status /\ active'.status # "active"
         /\ active'.request = active.request
         /\ active' \in [request : Requests \cup {None},
                         status : {None, "active", "recovered_old", "committed"}]
  BY DEF TypeOK

(* Nothing was published: there is no journal.                               *)
LEMMA FindStagedStep ==
  ASSUME IndInv, NEW w \in Workers, FindStaged(w)
  PROVE  IndInv'
  <1> DEFINE r == proc[w].request
  <1>1. /\ proc[w].pc = "apply" /\ Inside(w) /\ Goto(w, "cancel")
        /\ IF txn[r] THEN journal[r] = NoJournal ELSE proc[w].recovery
        /\ UNCHANGED <<installation, request, consent, active, floor, txn, plan, journal, mutex,
                       script, bounds>>
    BY DEF FindStaged, Inside, records
  <1>2. /\ TypeOK /\ WorkerIsSound(w) /\ r \in Requests /\ request[r] # None /\ mutex = w
        /\ RequestIsSound(r)
    BY <1>1, Alone DEF IndInv
  <1>3. /\ proc' \in [Workers -> Procs] /\ proc'[w].pc = "cancel" /\ proc'[w].request = r
        /\ \A v \in Workers : v # w => proc'[v] = proc[v]
    BY <1>1, <1>2, GotoFacts
  <1>4. UNCHANGED <<file, exe, backup>> /\ TupleMatches' = TupleMatches
    BY <1>1, SameFiles
  <1>5. journal[r] = NoJournal
    BY <1>1, <1>2 DEF RequestIsSound
  <1>6. TypeOK'
    BY <1>1, <1>2, <1>3, <1>4 DEF TypeOK, bounds
  <1>7. WorkerIsSound(w)' /\ ScriptIsSound(w)'
    <2>1. script'[w].pc = "off"
      BY <1>1, ScriptIsOff
    <2>2. WorkerIsSound(w)'
      BY <1>1, <1>2, <1>3, <1>5 DEF WorkerIsSound, Inside, ActiveIs
    <2> QED
      BY <2>1, <2>2, OffIsSound
  <1>8. \A q \in Requests : RequestIsSound(q)'
    BY <1>1, <1>4, RequestsStay
  <1>9. ActiveIsSound' /\ SettledIsWhole'
    BY <1>1, ActiveStays DEF bounds
  <1> QED
    BY <1>1, <1>3, <1>6, <1>7, <1>8, <1>9, InsideStep DEF bounds

LEMMA CancelStagedStep ==
  ASSUME IndInv, NEW w \in Workers, CancelStaged(w)
  PROVE  IndInv' /\ TupleMatches /\ file["receipt"] = request[proc[w].request]
         /\ ActiveIs(proc[w].request) /\ active'.request = proc[w].request
         /\ active'.status = "recovered_old"
  <1> DEFINE r == proc[w].request
  <1>1. /\ proc[w].pc = "cancel" /\ Inside(w) /\ Return(w)
        /\ txn' = [txn EXCEPT ![r] = FALSE]
        /\ journal' = [journal EXCEPT ![r] = NoJournal]
        /\ active' = [active EXCEPT !.status = "recovered_old"]
        /\ UNCHANGED <<installation, request, consent, floor, plan, script, bounds>>
    BY DEF CancelStaged, RecoveredOld, Inside
  <1>2. /\ TypeOK /\ WorkerIsSound(w) /\ ActiveIsSound /\ r \in Requests /\ RequestIsSound(r)
    BY <1>1, Alone DEF IndInv
  <1>3. ActiveIs(r) /\ journal[r] = NoJournal
    BY <1>1, <1>2 DEF WorkerIsSound
  <1>4. TupleMatches /\ file["receipt"] = request[r]
    BY <1>2, <1>3 DEF ActiveIsSound, ActiveIs
  <1>5. /\ active'.status = "recovered_old" /\ active'.request = active.request
        /\ active'.status # "active"
        /\ active' \in [request : Requests \cup {None},
                        status : {None, "active", "recovered_old", "committed"}]
    BY <1>1, <1>2, ActiveRecord
  <1>6. /\ txn' \in [Requests -> BOOLEAN] /\ journal' \in [Requests -> Journals]
        /\ journal'[r] = NoJournal
        /\ \A q \in Requests : q # r => journal'[q] = journal[q] /\ txn'[q] = txn[q]
    BY <1>1, <1>2, NoRecords DEF TypeOK
  <1>7. ActiveEnds(w)
    BY <1>1, <1>4, <1>5, <1>6 DEF ActiveEnds
  <1>8. BoundsAreKept
    BY <1>1, BoundsStay
  <1>9. script[w].pc = "off" /\ script \in [Workers -> Scripts]
    BY <1>1, ScriptIsOff
  <1>10. IndInv'
    BY <1>1, <1>7, <1>8, <1>9, ReturnStep
  <1> QED
    BY <1>3, <1>4, <1>5, <1>10 DEF ActiveIs

LEMMA RepairedStep ==
  ASSUME IndInv, NEW w \in Workers, Repaired(w)
  PROVE  IndInv' /\ TupleMatches /\ file["receipt"] = request[proc[w].request]
         /\ ActiveIs(proc[w].request) /\ active'.request = proc[w].request
         /\ active'.status = "recovered_old"
  <1> DEFINE r == proc[w].request
  <1>1. /\ proc[w].pc = "repairing" /\ Inside(w) /\ Return(w)
        /\ file["receipt"] # None /\ OldInstalled(r)
        /\ script' = [script EXCEPT ![w] = NoScript]
        /\ active' = [active EXCEPT !.status = "recovered_old"]
        /\ UNCHANGED <<installation, request, consent, floor, txn, plan, journal, bounds>>
    BY DEF Repaired, RecoveredOld, Inside
  <1>2. /\ TypeOK /\ WorkerIsSound(w) /\ r \in Requests
    BY <1>1, Alone DEF IndInv
  <1>3. ActiveIs(r)
    BY <1>1, <1>2 DEF WorkerIsSound
  <1>4. TupleMatches /\ file["receipt"] = request[r]
    BY <1>1, <1>2, <1>3, VersionDecides
  <1>5. /\ active'.status = "recovered_old" /\ active'.request = active.request
        /\ active'.status # "active"
        /\ active' \in [request : Requests \cup {None},
                        status : {None, "active", "recovered_old", "committed"}]
    BY <1>1, <1>2, ActiveRecord
  <1>6. ActiveEnds(w)
    BY <1>1, <1>2, <1>4, <1>5 DEF ActiveEnds, TypeOK
  <1>7. BoundsAreKept
    BY <1>1, BoundsStay
  <1>8. /\ script' \in [Workers -> Scripts] /\ script'[w].pc = "off"
        /\ \A v \in Workers : v # w => script'[v] = script[v]
    BY <1>1, <1>2, QuitFacts
  <1>9. IndInv'
    BY <1>1, <1>6, <1>7, <1>8, ReturnStep
  <1> QED
    BY <1>3, <1>4, <1>5, <1>9 DEF ActiveIs

LEMMA CloseStep ==
  ASSUME IndInv, NEW w \in Workers, Close(w)
  PROVE  IndInv' /\ TupleMatches /\ file["receipt"] = proc[w].request
         /\ active'.request = proc[w].request /\ active'.status = "committed"
  <1> DEFINE r == proc[w].request
  <1>1. /\ proc[w].pc = "closing" /\ Inside(w) /\ Return(w)
        /\ active' = [active EXCEPT !.status = "committed"]
        /\ UNCHANGED <<installation, request, consent, floor, txn, plan, journal, script,
                       bounds>>
    BY DEF Close, Inside
  <1>2. /\ TypeOK /\ WorkerIsSound(w)
    BY DEF IndInv
  <1>3. ActiveIs(r) /\ TupleMatches /\ file["receipt"] = r
    BY <1>1, <1>2 DEF WorkerIsSound
  <1>4. /\ active'.status = "committed" /\ active'.request = active.request
        /\ active'.status # "active"
        /\ active' \in [request : Requests \cup {None},
                        status : {None, "active", "recovered_old", "committed"}]
    BY <1>1, <1>2, ActiveRecord
  <1>5. ActiveEnds(w)
    BY <1>1, <1>2, <1>3, <1>4 DEF ActiveEnds, TypeOK
  <1>6. BoundsAreKept
    BY <1>1, BoundsStay
  <1>7. script[w].pc = "off" /\ script \in [Workers -> Scripts]
    BY <1>1, ScriptIsOff
  <1>8. IndInv'
    BY <1>1, <1>5, <1>6, <1>7, ReturnStep
  <1> QED
    BY <1>3, <1>4, <1>8 DEF ActiveIs

LEMMA StartStep ==
  ASSUME IndInv, NEW w \in Workers, NEW r \in Requests, Start(w, r)
  PROVE  IndInv'
  <1> DEFINE x == [pc |-> "waiting", request |-> r, seen |-> 0,
                   recovery |-> active.status = "active"]
  <1>1. /\ proc[w].pc = "idle" /\ script[w].pc = "off" /\ request[r] # None
        /\ proc' = [proc EXCEPT ![w] = x]
        /\ UNCHANGED <<installation, request, consent, active, floor, txn, plan, journal, mutex,
                       script, bounds>>
    BY DEF Start, records
  <1>2. TypeOK /\ proc \in [Workers -> Procs] /\ x \in Procs
    BY ConstantFacts DEF IndInv, TypeOK, Procs
  <1>3. /\ proc' \in [Workers -> Procs] /\ proc'[w] = x
        /\ \A v \in Workers : v # w => proc'[v] = proc[v]
    BY <1>1, <1>2
  <1>4. UNCHANGED <<file, exe, backup>> /\ TupleMatches' = TupleMatches
    BY <1>1, SameFiles
  <1>5. TypeOK' /\ ~overlap'
    BY <1>1, <1>2, <1>3, <1>4 DEF IndInv, TypeOK, bounds
  <1>6. ASSUME NEW v \in Workers
        PROVE  WorkerIsSound(v)' /\ ScriptIsSound(v)'
    <2>1. WorkerIsSound(v) /\ ScriptIsSound(v)
      BY DEF IndInv
    <2>2. CASE v = w
      BY <1>1, <1>3, <2>2, OffIsSound DEF WorkerIsSound, Inside
    <2>3. CASE v # w
      <3>1. \A u \in Workers : Inside(u)' = Inside(u)
        BY <1>1, <1>3 DEF Inside
      <3>2. WorkerIsSound(v)'
        BY <1>1, <1>3, <1>4, <2>1, <2>3 DEF WorkerIsSound, Inside, ActiveIs
      <3>3. ScriptIsSound(v)'
        BY <1>1, <1>3, <2>1, <2>3, <3>1 DEF ScriptIsSound, AtIsSound, ActiveIs
      <3> QED
        BY <3>2, <3>3
    <2> QED
      BY <2>2, <2>3
  <1>7. \A q \in Requests : RequestIsSound(q)'
    BY <1>1, <1>4, RequestsStay
  <1>8. ActiveIsSound' /\ SettledIsWhole'
    BY <1>1, ActiveStays DEF bounds
  <1> QED
    BY <1>5, <1>6, <1>7, <1>8 DEF IndInv

LEMMA LockStep ==
  ASSUME IndInv, NEW w \in Workers, Lock(w), ~overlap'
  PROVE  IndInv'
  <1> DEFINE r == proc[w].request
             x == [proc[w] EXCEPT !.pc = "locked", !.seen = file["receipt"]]
  <1>1. /\ proc[w].pc = "waiting" /\ mutex = None /\ StillAdmitted(w) /\ mutex' = w
        /\ proc' = [proc EXCEPT ![w].pc = "locked", ![w].seen = file["receipt"]]
        /\ UNCHANGED <<installation, request, consent, active, floor, txn, plan, journal,
                       script, faults, choices>>
        /\ \A v \in Workers : script[v].pc = "off"
        /\ overlap' = (overlap \/ \E v \in Workers : script[v].pc # "off")
    BY DEF Lock, records
  <1>2. /\ TypeOK /\ WorkerIsSound(w) /\ ActiveIsSound
        /\ proc \in [Workers -> Procs] /\ proc[w] \in Procs
    BY DEF IndInv, TypeOK
  <1>3. file["receipt"] \in Receipts
    BY <1>1, <1>2 DEF ActiveIsSound, StillAdmitted
  <1>4. x \in Procs /\ x.pc = "locked" /\ x.request = r /\ x.recovery = proc[w].recovery
    BY <1>2, <1>3 DEF Procs
  <1>5. proc' = [proc EXCEPT ![w] = x]
    BY <1>1, <1>2
  <1> HIDE DEF x
  <1>6. /\ proc' \in [Workers -> Procs] /\ proc'[w] = x
        /\ \A v \in Workers : v # w => proc'[v] = proc[v]
    BY <1>2, <1>4, <1>5
  <1>7. UNCHANGED <<file, exe, backup>> /\ TupleMatches' = TupleMatches
    BY <1>1, SameFiles
  <1>8. TypeOK' /\ UNCHANGED overlap
    <2>1. UNCHANGED overlap /\ ~overlap
      <3>1. ~overlap
        BY DEF IndInv
      <3>2. ~overlap'
        OBVIOUS
      <3>3. overlap \in BOOLEAN /\ overlap' \in BOOLEAN
        BY <1>1, <1>2 DEF TypeOK
      <3> QED
        BY <3>1, <3>2, <3>3
    <2>2. UNCHANGED <<request, consent, active, floor, txn, plan, journal, script, faults, choices>>
      BY <1>1
    <2>3. mutex' \in Workers
      BY <1>1
    <2> QED
      BY <1>2, <1>6, <1>7, <2>1, <2>2, <2>3 DEF TypeOK
  <1>9. ASSUME NEW v \in Workers
        PROVE  WorkerIsSound(v)' /\ ScriptIsSound(v)'
    <2>1. CASE v = w
      <3>1. r \in Requests /\ request[r] # None
        BY <1>1, <1>2 DEF WorkerIsSound
      <3>2. IF proc[w].recovery THEN ActiveIs(r)
            ELSE TupleMatches /\ file["receipt"] = request[r]
        BY <1>1 DEF StillAdmitted
      <3> QED
        BY <1>1, <1>4, <1>6, <1>7, <2>1, <3>1, <3>2, OffIsSound
           DEF WorkerIsSound, Inside, ActiveIs
    <2>2. CASE v # w
      <3>1. ~Inside(v)
        BY <1>1, ConstantFacts DEF IndInv, WorkerIsSound
      <3>2. proc[v].pc \in {"idle", "waiting"}
        BY <3>1 DEF Inside
      <3> QED
        BY <1>1, <1>6, <2>2, <3>2, Bystander
    <2> QED
      BY <2>1, <2>2
  <1>10. \A q \in Requests : RequestIsSound(q)'
    BY <1>1, <1>7, RequestsStay
  <1>11. ActiveIsSound' /\ SettledIsWhole'
    BY <1>1, <1>8, ActiveStays
  <1> QED
    BY <1>8, <1>9, <1>10, <1>11 DEF IndInv

LEMMA WorkerStepsKeep ==
  ASSUME IndInv, NEW w \in Workers,
         \/ \E r \in Requests : Start(w, r)
         \/ WorkerSteps(w) \/ WorkerFails(w) \/ WorkerDies(w),
         ~overlap'
  PROVE  IndInv'
  BY StartStep, LockStep, GivingUpSteps, IntendStep, FindStagedStep, CancelStagedStep,
     StageStep, RunPlanStep, RunRepairStep, InstalledStep, RepairedStep, SaveFloorStep,
     CloseStep DEF WorkerSteps

----------------------------------------------------------------------------
(* The command line, and the theorems                                        *)
LEMMA ConfigureStep ==
  ASSUME IndInv, Configure
  PROVE  IndInv'
  <1>1. /\ choices < MaxChoices /\ choices' = choices + 1 /\ consent' = ~consent
        /\ UNCHANGED <<installation, request, active, floor, txn, plan, journal, mutex,
                       proc, script, overlap, faults>>
    BY DEF Configure
  <1>2. UNCHANGED <<file, exe, backup>> /\ TupleMatches' = TupleMatches
    BY <1>1, SameFiles
  <1>3. TypeOK
    BY DEF IndInv
  <1>4. choices' \in 0 .. MaxChoices
    BY <1>1, <1>3, ConstantFacts DEF TypeOK
  <1>5. consent' \in BOOLEAN
    BY <1>1
  <1>6. TypeOK' /\ ~overlap'
    BY <1>1, <1>2, <1>3, <1>4, <1>5 DEF IndInv, TypeOK
  <1>7. \A v \in Workers : WorkerIsSound(v)' /\ ScriptIsSound(v)'
    BY <1>1, <1>2 DEF IndInv, WorkerIsSound, ScriptIsSound, Inside, AtIsSound, ActiveIs
  <1>8. \A q \in Requests : RequestIsSound(q)'
    BY <1>1, <1>2, RequestsStay
  <1>9. ActiveIsSound' /\ SettledIsWhole'
    BY <1>1, ActiveStays
  <1> QED
    BY <1>6, <1>7, <1>8, <1>9 DEF IndInv

LEMMA PrepareRequestStep ==
  ASSUME IndInv, NEW r \in Requests, PrepareRequest(r)
  PROVE  IndInv'
  <1>1. /\ request[r] = None /\ active.status # "active" /\ TupleMatches
        /\ Candidate[r] > VersionOf(file["receipt"])
        /\ request' = [request EXCEPT ![r] = file["receipt"]]
        /\ UNCHANGED <<installation, consent, active, floor, txn, plan, journal, mutex,
                       proc, script, bounds>>
    BY DEF PrepareRequest
  <1>2. UNCHANGED <<file, exe, backup>> /\ TupleMatches' = TupleMatches
    BY <1>1, SameFiles
  <1>3. TypeOK /\ ActiveIsSound
    BY DEF IndInv
  <1>4. file["receipt"] \in Receipts /\ file["receipt"] # None
    BY <1>1, <1>3 DEF ActiveIsSound, TupleMatches
  <1>5. /\ request' \in [Requests -> Receipts \cup {None}] /\ request'[r] = file["receipt"]
        /\ \A q \in Requests : q # r => request'[q] = request[q]
    BY <1>1, <1>3, <1>4 DEF TypeOK
  <1>6. TypeOK' /\ ~overlap'
    BY <1>1, <1>2, <1>3, <1>5 DEF IndInv, TypeOK, bounds
  <1>7. ASSUME NEW v \in Workers
        PROVE  WorkerIsSound(v)' /\ ScriptIsSound(v)'
    <2>1. WorkerIsSound(v) /\ ScriptIsSound(v)
      BY DEF IndInv
    <2>2. script[v].pc \in {"off", "ended"}
      BY <1>1, <2>1 DEF ScriptIsSound, ActiveIs
    <2>3. ScriptIsSound(v)'
      BY <1>1, <2>1, <2>2 DEF ScriptIsSound, AtIsSound
    <2>4. CASE proc[v].pc = "idle"
      BY <1>1, <2>1, <2>3, <2>4 DEF WorkerIsSound, Inside
    <2>5. CASE proc[v].pc # "idle"
      <3>1. proc[v].request # r
        BY <1>1, <2>1, <2>5 DEF WorkerIsSound
      <3>2. request'[proc[v].request] = request[proc[v].request]
        BY <1>5, <2>1, <2>5, <3>1 DEF WorkerIsSound
      <3> QED
        BY <1>1, <1>2, <2>1, <2>3, <2>5, <3>2 DEF WorkerIsSound, Inside, ActiveIs
    <2> QED
      BY <2>4, <2>5
  <1>8. ASSUME NEW q \in Requests
        PROVE  RequestIsSound(q)'
    <2>1. RequestIsSound(q)
      BY DEF IndInv
    <2>2. CASE q # r
      <3>1. request'[q] = request[q]
        BY <1>5, <2>2
      <3> QED
        BY <1>1, <1>2, <2>1, <3>1 DEF RequestIsSound, VersionOf
    <2>3. CASE q = r
      <3>1. plan[r].receipt \in Receipts
        BY <1>3 DEF TypeOK, Plans
      <3>2. journal[r] = NoJournal /\ backup[r]["receipt"] = None
        BY <1>1, <2>1, <2>3, <3>1, ConstantFacts DEF RequestIsSound
      <3>3. VersionOf(file["receipt"]) < Candidate[r]
        <4>1. VersionOf(file["receipt"]) \in Nat /\ Candidate[r] \in Nat
          BY <1>4, ConstantFacts
        <4> QED
          BY <1>1, <4>1
      <3>4. VersionOf(request[r])' = VersionOf(file["receipt"])
        BY <1>5 DEF VersionOf
      <3> QED
        BY <1>1, <1>2, <2>3, <3>2, <3>3, <3>4 DEF RequestIsSound
    <2> QED
      BY <2>2, <2>3
  <1>9. ActiveIsSound' /\ SettledIsWhole'
    BY <1>1, <1>2, <1>3 DEF ActiveIsSound, SettledIsWhole
  <1> QED
    BY <1>6, <1>7, <1>8, <1>9 DEF IndInv

LEMMA StutterStep ==
  ASSUME IndInv, UNCHANGED vars
  PROVE  IndInv'
  BY DEF IndInv, vars, TypeOK, WorkerIsSound, ScriptIsSound, Inside, AtIsSound, ActiveIs,
         TupleMatches, VersionOf, RequestIsSound, ActiveIsSound, SettledIsWhole

LEMMA NextIndInv == IndInv /\ ~overlap' /\ [Next]_vars => IndInv'
  BY ConfigureStep, PrepareRequestStep, WorkerStepsKeep, ScriptStepsKeep, StutterStep
     DEF Next

(* A worker beside the script of a dead one is remembered.                   *)
LEMMA OverlapStays == overlap /\ [Next]_vars => overlap'
  <1> SUFFICES ASSUME overlap, [Next]_vars PROVE overlap'
    OBVIOUS
  <1>1. CASE UNCHANGED overlap
    BY <1>1
  <1>2. ASSUME NEW w \in Workers, Lock(w) PROVE overlap'
    BY <1>2 DEF Lock
  <1>3. ASSUME NEW w \in Workers, WorkerSteps(w), ~Lock(w) PROVE UNCHANGED overlap
    BY <1>3 DEF WorkerSteps, LockRefused, Intend, IntendRefused, FindStaged, CancelStaged, Stage,
                RunPlan, RunPlanFails, RunRepair, Installed, Repaired, ScriptFailed, SaveFloor,
                Close, bounds, Fault
  <1>4. ASSUME NEW w \in Workers, ScriptSteps(w) PROVE UNCHANGED overlap
    BY <1>4 DEF ScriptSteps, Begin, BeginAgain, AnnounceRole, MoveAside, PublishRole,
                CompleteRole, AnnounceVerify, CheckInstalled, CommitJournal, RemoveBackups,
                Throw, TakeAway, SkipUndo, PutBack, UndoFails, RolledBack, SkipRepair,
                RepairRole, Refill, RepairDone, RepairStops, bounds, Fault
  <1>5. ASSUME NEW w \in Workers,
               \/ \E r \in Requests : Start(w, r)
               \/ WorkerFails(w) \/ WorkerDies(w) \/ ScriptDies(w)
        PROVE  UNCHANGED overlap
    BY <1>5 DEF Start, WorkerFails, WorkerDies, ScriptDies, bounds, Fault
  <1>6. Configure \/ (\E r \in Requests : PrepareRequest(r)) => UNCHANGED overlap
    BY DEF Configure, PrepareRequest, bounds
  <1>7. UNCHANGED vars => UNCHANGED overlap
    BY DEF vars
  <1> QED
    BY <1>1, <1>2, <1>3, <1>4, <1>5, <1>6, <1>7 DEF Next

(* What worker, script and records know of each other: in every state that   *)
(* any run of updates, deaths, orphaned scripts and recoveries can reach, it *)
(* holds or a worker has taken the mutex beside a script that outlived its   *)
(* worker.                                                                   *)
THEOREM Invariance == Spec => [](overlap \/ IndInv)
  <1>1. Init => IndInv
    BY InitIndInv
  <1>2. (overlap \/ IndInv) /\ [Next]_vars => (overlap \/ IndInv)'
    BY NextIndInv, OverlapStays
  <1> QED
    BY <1>1, <1>2, PTL DEF Spec

(* While no update is active the skill, the CLI, the worker and the receipt  *)
(* are one generation, whatever worker or script died at whatever step and   *)
(* whichever request was recovered or cancelled before, also when a script   *)
(* finished alone; unless a worker took the mutex beside such a script.      *)
THEOREM SettledSafe == Spec => []SettledIsWhole
  <1>1. overlap \/ IndInv => SettledIsWhole
    BY DEF IndInv, SettledIsWhole
  <1> QED
    BY <1>1, Invariance, PTL

(* Only four steps of a worker write active.json.                            *)
LEMMA ActiveWriters ==
  ASSUME Next, active' # active
  PROVE  \E w \in Workers : \/ Intend(w) /\ ~proc[w].recovery
                            \/ CancelStaged(w) \/ Repaired(w) \/ Close(w)
  <1>1. ~Configure
    BY DEF Configure
  <1>2. \A r \in Requests : ~PrepareRequest(r)
    BY DEF PrepareRequest
  <1>3. PICK w \in Workers : \/ \E r \in Requests : Start(w, r)
                             \/ WorkerSteps(w) \/ WorkerFails(w) \/ ScriptSteps(w)
                             \/ WorkerDies(w) \/ ScriptDies(w)
    BY <1>1, <1>2 DEF Next
  <1>4. /\ \A r \in Requests : ~Start(w, r)
        /\ ~WorkerFails(w) /\ ~WorkerDies(w) /\ ~ScriptDies(w)
    BY DEF Start, WorkerFails, WorkerDies, ScriptDies, records
  <1>5. ~ScriptSteps(w)
    BY DEF ScriptSteps, Begin, BeginAgain, AnnounceRole, MoveAside, PublishRole, CompleteRole,
           AnnounceVerify, CheckInstalled, CommitJournal, RemoveBackups, Throw, TakeAway,
           SkipUndo, PutBack, UndoFails, RolledBack, SkipRepair, RepairRole, Refill,
           RepairDone, RepairStops, records
  <1>6. WorkerSteps(w)
    BY <1>3, <1>4, <1>5
  <1>7. /\ ~Lock(w) /\ ~LockRefused(w) /\ ~IntendRefused(w) /\ ~FindStaged(w) /\ ~Stage(w)
        /\ ~RunPlan(w) /\ ~RunPlanFails(w) /\ ~RunRepair(w) /\ ~Installed(w)
        /\ ~ScriptFailed(w) /\ ~SaveFloor(w)
    BY DEF Lock, LockRefused, IntendRefused, FindStaged, Stage, RunPlan, RunPlanFails,
           RunRepair, Installed, ScriptFailed, SaveFloor, records
  <1>8. Intend(w) => ~proc[w].recovery
    BY DEF Intend
  <1> QED
    BY <1>6, <1>7, <1>8 DEF WorkerSteps

LEMMA IntendIsTrue ==
  ASSUME IndInv, NEW w \in Workers, Intend(w), ~proc[w].recovery
  PROVE  /\ TupleMatches /\ active'.status = "active"
         /\ Candidate[active'.request] > VersionOf(file["receipt"])
  <1> DEFINE r == proc[w].request
  <1>1. /\ proc[w].pc = "locked" /\ Inside(w) /\ active' = [request |-> r, status |-> "active"]
    BY DEF Intend, Inside
  <1>2. /\ WorkerIsSound(w) /\ TypeOK /\ r \in Requests /\ request[r] # None /\ RequestIsSound(r)
    BY <1>1, Alone DEF IndInv
  <1>3. TupleMatches /\ file["receipt"] = request[r]
    BY <1>1, <1>2 DEF WorkerIsSound
  <1>4. /\ VersionOf(request[r]) < Candidate[r]
        /\ VersionOf(request[r]) \in Nat /\ Candidate[r] \in Nat
    BY <1>2, ConstantFacts DEF TypeOK, RequestIsSound
  <1> QED
    BY <1>1, <1>3, <1>4

(* active.json is true when it is written: an update begins on a whole       *)
(* installation below its candidate, is recovered onto the receipt it was    *)
(* prepared for and committed on its own, each time with all of its files;   *)
(* as long as no worker took the mutex beside a script without its worker.   *)
THEOREM ActiveRecordSafe == Spec => ActiveRecordIsTrue
  <1> DEFINE Truthful == active' # active /\ ~overlap =>
              /\ TupleMatches
              /\ LET r == active'.request IN
                 CASE active'.status = "active" -> Candidate[r] > VersionOf(file["receipt"])
                   [] active'.status = "recovered_old" -> file["receipt"] = request[r]
                   [] active'.status = "committed" -> file["receipt"] = r
  <1>1. (overlap \/ IndInv) /\ [Next]_vars => [Truthful]_vars
    <2> SUFFICES ASSUME IndInv, Next, active' # active
                 PROVE  Truthful
      BY DEF vars
    <2>1. PICK w \in Workers : \/ Intend(w) /\ ~proc[w].recovery
                               \/ CancelStaged(w) \/ Repaired(w) \/ Close(w)
      BY ActiveWriters
    <2>2. CASE Intend(w) /\ ~proc[w].recovery
      BY <2>2, IntendIsTrue
    <2>3. CASE CancelStaged(w)
      BY <2>3, CancelStagedStep
    <2>4. CASE Repaired(w)
      BY <2>4, RepairedStep
    <2>5. CASE Close(w)
      BY <2>5, CloseStep
    <2> QED
      BY <2>1, <2>2, <2>3, <2>4, <2>5
  <1> QED
    BY <1>1, Invariance, PTL DEF Spec, ActiveRecordIsTrue
=============================================================================
