------------------------- MODULE StateLedgerProofs -------------------------
(* Proofs about StateLedger for every set of callers, requests, ids, tasks  *)
(* and digests: its types, its safety invariants, and that it implements    *)
(* AtomicLedger.  The inductive invariant adds to the properties what the   *)
(* holder of the lock knows in the middle of a call.                        *)
EXTENDS StateLedger, FiniteSetTheorems, TLAPS

Base(l) == IF l = None THEN EmptyLedger ELSE l

(* Every record of l is still in m; only an open intent may differ.         *)
Preserves(l, m) ==
    \A i \in Ids : Recorded(l, i) =>
        /\ Recorded(m, i)
        /\ m.requests[i].request = l.requests[i].request
        /\ l.requests[i].result # RecoveryRequired =>
              m.requests[i].result = l.requests[i].result

(* Whoever is inside a call holds the lock.                                 *)
OneCaller == \A c \in Callers : pc[c] # "idle" <=> lock = c

JournalContinues ==
    journal # None => /\ ledger \in {journal.before, journal.after}
                      /\ Preserves(Base(journal.before), journal.after)

(* The transition a caller has decided on is one of ledger.rs, taken from   *)
(* the ledger that is there.                                                *)
DecidedWell(c) ==
    /\ journal = None
    /\ plan[c].before = ledger
    /\ call[c].kind = "accept" =>
          /\ CanAdmit(Current, call[c].request)
          /\ plan[c].after = Admitted(Current, call[c].request)
    /\ call[c].kind = "record" =>
          /\ ledger # None
          /\ CanSettle(Current, call[c].request)
          /\ plan[c].after = Settled(Current, call[c].request, call[c].outcome)

(* The result a caller is about to be told.                                 *)
PlannedResult(c) ==
    LET request == call[c].request
        entry   == plan[c].after.requests[request.id]
    IN /\ entry # None
       /\ entry.request = request
       /\ call[c].kind = "accept" =>
             /\ grants[request.id] = 0
             /\ entry.result = RecoveryRequired => request.op = "effect"

CallsAreSound ==
    \A c \in Callers :
        /\ pc[c] = "read" => call[c].kind = "lookup"
        /\ pc[c] \in {"recover", "publish", "apply"} => call[c].kind # "lookup"
        /\ pc[c] = "publish" => DecidedWell(c) /\ PlannedResult(c)
        /\ pc[c] = "apply" => /\ \/ journal = plan[c]
                                 \/ journal = None /\ ledger = plan[c].after
                              /\ PlannedResult(c)

IndInv ==
    /\ TypeOK
    /\ OneCaller
    /\ JournalContinues
    /\ CallsAreSound
    /\ EffectGrantedOnceAndDurable
    /\ AnswersAreDurable

----------------------------------------------------------------------------
(* The transitions of ledger.rs stay within the type and forget nothing.    *)
LEMMA EmptyLedgerType == EmptyLedger \in Ledger
  BY DEF EmptyLedger, Ledger

LEMMA RequestFields ==
  ASSUME NEW r \in Requests
  PROVE  r.id \in Ids /\ r.op \in Ops /\ r.task \in Tasks
  BY RequestsAssumption

LEMMA AdmittedFacts ==
  ASSUME NEW l \in Ledger, NEW r \in Requests, CanAdmit(l, r)
  PROVE  /\ Admitted(l, r) \in Ledger
         /\ Preserves(l, Admitted(l, r))
         /\ Admitted(l, r).requests[r.id] # None
         /\ Admitted(l, r).requests[r.id].request = r
         /\ Admitted(l, r).requests[r.id].result = RecoveryRequired => r.op = "effect"
  <1>1. r.id \in Ids /\ r.task \in Tasks
    BY RequestFields
  <1> DEFINE entry == [request |-> r, result |-> AdmittedResult(l, r)]
  <1>2. l.tasks[r.task] + 1 \in Nat
    BY <1>1 DEF Ledger
  <1>3. AdmittedResult(l, r) \in RecordedResult
    BY <1>2 DEF AdmittedResult, RecoveryRequired, StateApplied, RecordedResult, Statuses
  <1>4. entry \in RecordedRequest
    BY <1>3 DEF RecordedRequest
  <1>5. entry # None
    BY <1>4, NoneAssumption
  <1>6. Admitted(l, r).requests = [l.requests EXCEPT ![r.id] = entry]
    BY DEF Admitted
  <1>7. Admitted(l, r) \in Ledger
    BY <1>1, <1>2, <1>4 DEF Admitted, Ledger
  <1>8. Admitted(l, r).requests[r.id] = entry
    BY <1>1, <1>6 DEF Ledger
  <1>9. Preserves(l, Admitted(l, r))
    BY <1>6, <1>1 DEF Preserves, CanAdmit, Admissible, Recorded, Ledger
  <1>10. AdmittedResult(l, r) = RecoveryRequired => r.op = "effect"
    BY DEF AdmittedResult, RecoveryRequired, StateApplied
  <1> QED
    BY <1>5, <1>7, <1>8, <1>9, <1>10

LEMMA SettledFacts ==
  ASSUME NEW l \in Ledger, NEW r \in Requests, NEW o \in EffectOutcome, CanSettle(l, r)
  PROVE  /\ Settled(l, r, o) \in Ledger
         /\ Preserves(l, Settled(l, r, o))
         /\ Settled(l, r, o).requests[r.id] # None
         /\ Settled(l, r, o).requests[r.id].request = r
  <1>1. r.id \in Ids
    BY RequestFields
  <1> DEFINE entry == [request |-> r, result |-> o]
  <1>2. o \in RecordedResult
    BY BoundsAssumption DEF EffectOutcome, RecordedResult, Statuses
  <1>3. entry \in RecordedRequest
    BY <1>2 DEF RecordedRequest
  <1>4. entry # None
    BY <1>3, NoneAssumption
  <1>5. Settled(l, r, o).requests = [l.requests EXCEPT ![r.id] = entry]
    BY DEF Settled, Ledger
  <1>6. Settled(l, r, o) \in Ledger
    BY <1>1, <1>3 DEF Settled, Ledger
  <1>7. Settled(l, r, o).requests[r.id] = entry
    BY <1>1, <1>5 DEF Ledger
  <1>8. Preserves(l, Settled(l, r, o))
    BY <1>1, <1>4, <1>5 DEF Preserves, CanSettle, IsReplay, Recorded, Ledger
  <1> QED
    BY <1>4, <1>6, <1>7, <1>8

LEMMA CurrentType == TypeOK => Current \in Ledger /\ Current = Base(ledger)
  BY EmptyLedgerType DEF TypeOK, Current, Base

----------------------------------------------------------------------------
LEMMA InitIndInv == Init => IndInv
  <1> SUFFICES ASSUME Init PROVE IndInv
    OBVIOUS
  <1>1. TypeOK
    BY CallersAssumption DEF Init, TypeOK
  <1>2. OneCaller
    BY CallersAssumption DEF Init, OneCaller
  <1>3. JournalContinues
    BY DEF Init, JournalContinues
  <1>4. CallsAreSound
    BY DEF Init, CallsAreSound
  <1>5. EffectGrantedOnceAndDurable /\ AnswersAreDurable
    BY DEF Init, EffectGrantedOnceAndDurable, AnswersAreDurable
  <1> QED
    BY <1>1, <1>2, <1>3, <1>4, <1>5 DEF IndInv

(* A caller inside a call is alone: everyone else is idle.                  *)
LEMMA Alone ==
  ASSUME IndInv, NEW c \in Callers, pc[c] # "idle"
  PROVE  lock = c /\ \A d \in Callers : d # c => pc[d] = "idle"
  BY DEF IndInv, OneCaller

(* Leaving a call disturbs nothing but the grants and answers it hands out. *)
LEMMA ReleaseStep ==
  ASSUME IndInv, NEW c \in Callers, pc[c] # "idle", Release(c),
         UNCHANGED <<storage, now>>,
         grants' \in [Ids -> Nat], answers' \subseteq Answers,
         EffectGrantedOnceAndDurable', AnswersAreDurable'
  PROVE  IndInv'
  <1> USE DEF Release, storage
  <1>0. \A d \in Callers : pc'[d] = "idle"
    BY Alone DEF IndInv, TypeOK
  <1>1. TypeOK'
    BY <1>0, CallersAssumption DEF IndInv, TypeOK
  <1>2. OneCaller'
    BY <1>0, CallersAssumption DEF OneCaller
  <1>3. JournalContinues'
    BY DEF IndInv, JournalContinues
  <1>4. CallsAreSound'
    BY <1>0 DEF CallsAreSound
  <1> QED
    BY <1>1, <1>2, <1>3, <1>4 DEF IndInv

LEMMA AcquireStep ==
  ASSUME IndInv, NEW c \in Callers, NEW o \in Calls, Acquire(c, o)
  PROVE  IndInv'
  <1> USE DEF Acquire, storage, told
  <1>0. \A d \in Callers : pc[d] = "idle"
    BY CallersAssumption DEF IndInv, OneCaller
  <1>1. /\ pc'[c] = IF o.kind = "lookup" THEN "read" ELSE "recover"
        /\ call'[c] = o
        /\ \A d \in Callers : d # c => pc'[d] = "idle"
    BY <1>0 DEF IndInv, TypeOK
  <1>2. TypeOK'
    BY <1>1 DEF IndInv, TypeOK
  <1>3. OneCaller'
    BY <1>1 DEF OneCaller
  <1>4. JournalContinues'
    BY DEF IndInv, JournalContinues
  <1>5. CallsAreSound'
    BY <1>1 DEF CallsAreSound
  <1>6. EffectGrantedOnceAndDurable'
    BY DEF IndInv, EffectGrantedOnceAndDurable
  <1>7. AnswersAreDurable'
    BY DEF IndInv, AnswersAreDurable, Durable, Current
  <1> QED
    BY <1>2, <1>3, <1>4, <1>5, <1>6, <1>7 DEF IndInv

(* Applying a journal leaves the durable ledger as it was.                  *)
LEMMA ApplyJournalStep ==
  ASSUME IndInv, NEW c \in Callers, ApplyJournal(c)
  PROVE  IndInv' /\ Durable' = Durable
  <1> USE DEF ApplyJournal, callers, told
  <1>0. journal \in Plans /\ journal.before \in Ledger \cup {None} /\ journal.after \in Ledger
    BY DEF IndInv, TypeOK, Plans
  <1>1. Durable' = Durable
    BY <1>0 DEF Durable
  <1>2. TypeOK'
    BY <1>0 DEF IndInv, TypeOK
  <1>3. OneCaller'
    BY DEF IndInv, OneCaller
  <1>4. JournalContinues'
    BY DEF IndInv, JournalContinues
  <1>5. CallsAreSound'
    <2> SUFFICES ASSUME NEW d \in Callers PROVE
          /\ pc[d] = "read" => call[d].kind = "lookup"
          /\ pc[d] \in {"recover", "publish", "apply"} => call[d].kind # "lookup"
          /\ pc[d] = "publish" => (DecidedWell(d) /\ PlannedResult(d))'
          /\ pc[d] = "apply" => /\ \/ journal = plan[d]
                                   \/ journal = None /\ ledger' = plan[d].after
                                /\ PlannedResult(d)'
      BY DEF CallsAreSound
    <2>1. pc[d] # "publish"
      BY DEF IndInv, CallsAreSound, DecidedWell
    <2> QED
      BY <2>1 DEF IndInv, CallsAreSound, PlannedResult
  <1>6. EffectGrantedOnceAndDurable'
    <2> SUFFICES ASSUME NEW i \in Ids
                 PROVE  /\ grants[i] <= 1
                        /\ grants[i] = 1 => /\ ledger' # None /\ Recorded(ledger', i)
                                            /\ ledger'.requests[i].request.op = "effect"
      BY DEF EffectGrantedOnceAndDurable
    <2>1. grants[i] = 1 => ledger # None /\ Recorded(ledger, i)
                           /\ ledger.requests[i].request.op = "effect"
      BY DEF IndInv, EffectGrantedOnceAndDurable
    <2>2. Preserves(Base(ledger), ledger')
      BY DEF IndInv, JournalContinues
    <2>3. ledger' # None
      BY <1>0, NoneAssumption
    <2> QED
      BY <2>1, <2>2, <2>3 DEF Preserves, Base, IndInv, EffectGrantedOnceAndDurable
  <1>7. AnswersAreDurable'
    BY <1>1 DEF IndInv, AnswersAreDurable
  <1> QED
    BY <1>1, <1>2, <1>3, <1>4, <1>5, <1>6, <1>7 DEF IndInv

LEMMA RetireJournalStep ==
  ASSUME IndInv, NEW c \in Callers, RetireJournal(c)
  PROVE  IndInv' /\ Durable' = Durable
  <1> USE DEF RetireJournal, callers, told
  <1>0. journal \in Plans /\ journal.after \in Ledger /\ ledger # None
    BY NoneAssumption DEF IndInv, TypeOK, Plans
  <1>1. Durable' = Durable
    BY <1>0 DEF Durable, Current
  <1>2. TypeOK'
    BY DEF IndInv, TypeOK
  <1>3. OneCaller'
    BY DEF IndInv, OneCaller
  <1>4. JournalContinues'
    BY DEF JournalContinues
  <1>5. CallsAreSound'
    <2> SUFFICES ASSUME NEW d \in Callers PROVE
          /\ pc[d] = "read" => call[d].kind = "lookup"
          /\ pc[d] \in {"recover", "publish", "apply"} => call[d].kind # "lookup"
          /\ pc[d] = "publish" => (DecidedWell(d) /\ PlannedResult(d))'
          /\ pc[d] = "apply" => /\ ledger = plan[d].after
                                /\ PlannedResult(d)'
      BY DEF CallsAreSound
    <2>1. pc[d] # "publish"
      BY DEF IndInv, CallsAreSound, DecidedWell
    <2> QED
      BY <2>1 DEF IndInv, CallsAreSound, PlannedResult
  <1>6. EffectGrantedOnceAndDurable'
    BY DEF IndInv, EffectGrantedOnceAndDurable
  <1>7. AnswersAreDurable'
    BY <1>1 DEF IndInv, AnswersAreDurable
  <1> QED
    BY <1>1, <1>2, <1>3, <1>4, <1>5, <1>6, <1>7 DEF IndInv

(* Telling a caller what is on record in the ledger keeps answers durable,  *)
(* even while a journal waits to be applied.                                *)
LEMMA AnswerFromLedger ==
  ASSUME IndInv, NEW i \in Ids, Recorded(Current, i), UNCHANGED storage,
         Answer(i, Current.requests[i].result)
  PROVE  answers' \subseteq Answers /\ AnswersAreDurable'
  <1>1. Current \in Ledger /\ Current = Base(ledger)
    BY CurrentType DEF IndInv
  <1>2. Current.requests[i].result \in RecordedResult
    BY <1>1 DEF Recorded, Ledger, RecordedRequest
  <1>3. answers' \subseteq Answers
    BY <1>2 DEF Answer, Answers, IndInv, TypeOK
  <1>4. Durable' = Durable
    BY DEF storage, Durable, Current
  <1>5. /\ Recorded(Durable, i)
        /\ Current.requests[i].result # RecoveryRequired =>
              Durable.requests[i].result = Current.requests[i].result
    <2>1. CASE journal = None
      BY <2>1 DEF Durable
    <2>2. CASE journal # None /\ ledger = journal.after
      <3>1. ledger # None
        BY <2>2, NoneAssumption DEF IndInv, TypeOK, Plans
      <3> QED
        BY <2>2, <3>1 DEF Durable, Current
    <2>3. CASE journal # None /\ ledger = journal.before
      BY <2>3, <1>1 DEF IndInv, JournalContinues, Preserves, Durable
    <2> QED
      BY <2>1, <2>2, <2>3 DEF IndInv, JournalContinues
  <1>6. AnswersAreDurable'
    BY <1>4, <1>5 DEF AnswersAreDurable, Answer, IndInv
  <1> QED
    BY <1>3, <1>6

LEMMA AcceptReplayStep ==
  ASSUME IndInv, NEW c \in Callers, AcceptReplay(c)
  PROVE  IndInv'
  <1> USE DEF AcceptReplay
  <1>1. call[c] \in Calls /\ call[c].request \in Requests
    BY DEF IndInv, TypeOK, Calls
  <1>2. answers' \subseteq Answers /\ AnswersAreDurable'
    BY <1>1, RequestFields, AnswerFromLedger DEF IsReplay
  <1>3. EffectGrantedOnceAndDurable'
    BY DEF IndInv, EffectGrantedOnceAndDurable, storage
  <1> QED
    BY <1>2, <1>3, ReleaseStep DEF IndInv, TypeOK

LEMMA LookupStep ==
  ASSUME IndInv, NEW c \in Callers, Lookup(c)
  PROVE  IndInv'
  <1> USE DEF Lookup
  <1>1. call[c] \in Calls /\ call[c].request \in Requests
    BY DEF IndInv, TypeOK, Calls
  <1>2. answers' \subseteq Answers /\ AnswersAreDurable'
    <2>1. CASE ledger # None /\ IsReplay(ledger, call[c].request)
      BY <2>1, <1>1, RequestFields, AnswerFromLedger DEF IsReplay, Current
    <2>2. CASE ~(ledger # None /\ IsReplay(ledger, call[c].request))
      BY <2>2 DEF IndInv, TypeOK, AnswersAreDurable, Durable, Current, storage
    <2> QED
      BY <2>1, <2>2
  <1>3. EffectGrantedOnceAndDurable'
    BY DEF IndInv, EffectGrantedOnceAndDurable, storage
  <1> QED
    BY <1>2, <1>3, ReleaseStep DEF IndInv, TypeOK

LEMMA FailStep ==
  ASSUME IndInv, NEW c \in Callers, Fail(c)
  PROVE  IndInv'
  <1> USE DEF Fail, told, storage
  <1>1. EffectGrantedOnceAndDurable' /\ AnswersAreDurable'
    BY DEF IndInv, EffectGrantedOnceAndDurable, AnswersAreDurable, Durable, Current
  <1> QED
    BY <1>1, ReleaseStep DEF IndInv, TypeOK

LEMMA SnapshotStep ==
  ASSUME IndInv, NEW c \in Callers, NEW i \in Ids, Snapshot(c, i)
  PROVE  IndInv'
  <1> USE DEF Snapshot, callers
  <1>1. answers' \subseteq Answers /\ AnswersAreDurable'
    BY AnswerFromLedger DEF Current
  <1>2. TypeOK'
    BY <1>1 DEF IndInv, TypeOK, storage
  <1>3. OneCaller' /\ JournalContinues' /\ EffectGrantedOnceAndDurable'
    BY DEF IndInv, OneCaller, JournalContinues, EffectGrantedOnceAndDurable, storage
  <1>4. CallsAreSound'
    BY DEF IndInv, CallsAreSound, DecidedWell, PlannedResult, Current, storage
  <1> QED
    BY <1>1, <1>2, <1>3, <1>4 DEF IndInv

LEMMA TickStep == IndInv /\ Tick => IndInv'
  <1> SUFFICES ASSUME IndInv, Tick PROVE IndInv'
    OBVIOUS
  <1> USE DEF Tick, storage, callers, told
  <1>1. TypeOK'
    BY DEF IndInv, TypeOK
  <1>2. CallsAreSound'
    BY DEF IndInv, CallsAreSound, DecidedWell, PlannedResult, Current
  <1> QED
    BY <1>1, <1>2 DEF IndInv, OneCaller, JournalContinues,
       EffectGrantedOnceAndDurable, AnswersAreDurable, Durable, Current

(* A decision is remembered with the ledger it was taken from.              *)
LEMMA DecideStep ==
  ASSUME IndInv, NEW c \in Callers, pc[c] = "recover", journal = None,
         NEW after \in Ledger, Decide(c, after),
         plan'[c] = [before |-> ledger, after |-> after] =>
            DecidedWell(c)' /\ PlannedResult(c)'
  PROVE  IndInv'
  <1> USE DEF Decide, storage, told
  <1>0. [before |-> ledger, after |-> after] \in Plans
    BY DEF IndInv, TypeOK, Plans
  <1>1. /\ plan'[c] = [before |-> ledger, after |-> after] /\ pc'[c] = "publish"
        /\ \A d \in Callers : d # c => pc'[d] = "idle"
    BY Alone DEF IndInv, TypeOK
  <1>2. TypeOK'
    BY <1>0, <1>1 DEF IndInv, TypeOK
  <1>3. OneCaller'
    BY <1>1 DEF IndInv, OneCaller
  <1>4. JournalContinues'
    BY DEF IndInv, JournalContinues
  <1>5. call'[c].kind # "lookup"
    BY DEF IndInv, CallsAreSound
  <1>6. CallsAreSound'
    BY <1>1, <1>5 DEF CallsAreSound
  <1>7. EffectGrantedOnceAndDurable' /\ AnswersAreDurable'
    BY DEF IndInv, EffectGrantedOnceAndDurable, AnswersAreDurable, Durable, Current
  <1> QED
    BY <1>2, <1>3, <1>4, <1>6, <1>7 DEF IndInv

LEMMA AcceptNewStep ==
  ASSUME IndInv, NEW c \in Callers, AcceptNew(c)
  PROVE  IndInv'
  <1> USE DEF AcceptNew
  <1> DEFINE request == call[c].request
             after   == Admitted(Current, request)
  <1>1. call[c] \in Calls /\ request \in Requests /\ request.id \in Ids
    BY RequestFields DEF IndInv, TypeOK, Calls
  <1>2. Current \in Ledger
    BY CurrentType DEF IndInv
  <1>3. /\ after \in Ledger
        /\ after.requests[request.id] # None
        /\ after.requests[request.id].request = request
        /\ after.requests[request.id].result = RecoveryRequired => request.op = "effect"
    BY <1>1, <1>2, AdmittedFacts
  <1>4. grants[request.id] = 0
    <2>1. ~(ledger # None /\ Recorded(ledger, request.id))
      BY DEF CanAdmit, Admissible, Current
    <2> QED
      BY <2>1, <1>1 DEF IndInv, EffectGrantedOnceAndDurable, TypeOK
  <1>5. ASSUME plan'[c] = [before |-> ledger, after |-> after]
        PROVE  DecidedWell(c)' /\ PlannedResult(c)'
    BY <1>3, <1>4, <1>5 DEF DecidedWell, PlannedResult, Decide, storage, told, Current
  <1> QED
    BY <1>3, <1>5, DecideStep

LEMMA RecordStep ==
  ASSUME IndInv, NEW c \in Callers, Record(c)
  PROVE  IndInv'
  <1> DEFINE request == call[c].request
             outcome == call[c].outcome
             current == ledger.requests[request.id].result
  <1>1. /\ pc[c] = "recover" /\ journal = None /\ call[c].kind = "record"
        /\ ledger # None /\ IsReplay(ledger, request)
        /\ current \in {outcome, RecoveryRequired}
    BY DEF Record
  <1>2. /\ call[c] \in Calls /\ request \in Requests /\ request.id \in Ids
        /\ outcome \in EffectOutcome
    BY <1>1, RequestFields DEF IndInv, TypeOK, Calls
  <1>3. ledger \in Ledger /\ ledger = Current
    BY <1>1 DEF IndInv, TypeOK, Current
  <1>4. CASE current = outcome
    <2>1. /\ Answer(request.id, outcome) /\ Release(c)
          /\ UNCHANGED <<storage, now, grants>>
      BY <1>4 DEF Record
    <2>2. answers' \subseteq Answers /\ AnswersAreDurable'
      BY <2>1, <1>1, <1>2, <1>3, <1>4, AnswerFromLedger DEF IsReplay
    <2>3. EffectGrantedOnceAndDurable'
      BY <2>1 DEF IndInv, EffectGrantedOnceAndDurable, storage
    <2> QED
      BY <1>1, <2>1, <2>2, <2>3, ReleaseStep DEF IndInv, TypeOK
  <1>5. CASE current # outcome
    <2> DEFINE after == Settled(ledger, request, outcome)
    <2>1. CanSettle(ledger, request)
      BY <1>1, <1>5 DEF CanSettle
    <2>2. /\ after \in Ledger
          /\ after.requests[request.id] # None
          /\ after.requests[request.id].request = request
      BY <1>2, <1>3, <2>1, SettledFacts
    <2>3. after.revision # ledger.revision
      BY <1>3 DEF Settled, Ledger
    <2>4. Decide(c, after)
      BY <1>5, <2>3 DEF Record
    <2>5. ASSUME plan'[c] = [before |-> ledger, after |-> after]
          PROVE  DecidedWell(c)' /\ PlannedResult(c)'
      BY <1>1, <1>3, <2>1, <2>2, <2>4, <2>5
         DEF DecidedWell, PlannedResult, Decide, storage, told, Current
    <2> QED
      BY <1>1, <2>2, <2>4, <2>5, DecideStep
  <1> QED
    BY <1>4, <1>5

(* Writing the journal is the moment a transition happens.                  *)
LEMMA WriteJournalStep ==
  ASSUME IndInv, NEW c \in Callers, WriteJournal(c)
  PROVE  /\ IndInv'
         /\ Preserves(Durable, Durable')
         /\ \/ /\ CanAdmit(Durable, call[c].request)
               /\ Durable' = Admitted(Durable, call[c].request)
            \/ /\ CanSettle(Durable, call[c].request)
               /\ call[c].outcome \in EffectOutcome
               /\ Durable' = Settled(Durable, call[c].request, call[c].outcome)
  <1> USE DEF WriteJournal
  <1> DEFINE request == call[c].request
             outcome == call[c].outcome
             after   == plan[c].after
  <1>1. /\ call[c] \in Calls /\ request \in Requests /\ request.id \in Ids
        /\ call[c].kind \in {"accept", "record"}
        /\ call[c].kind = "record" => outcome \in EffectOutcome
    BY RequestFields DEF IndInv, TypeOK, Calls, CallsAreSound
  <1>2. /\ DecidedWell(c) /\ PlannedResult(c)
        /\ plan[c] \in Plans /\ plan[c].after \in Ledger /\ plan[c] # None
    BY CallersAssumption DEF IndInv, CallsAreSound, TypeOK, Plans
  <1>3. /\ Durable = Current /\ Durable' = after
        /\ Current \in Ledger /\ Current = Base(ledger) /\ Current = Base(plan[c].before)
    BY <1>2, CurrentType DEF Durable, DecidedWell, IndInv
  <1>4. \/ CanAdmit(Durable, request) /\ Durable' = Admitted(Durable, request)
        \/ /\ CanSettle(Durable, request) /\ outcome \in EffectOutcome
           /\ Durable' = Settled(Durable, request, outcome)
    <2>1. CASE call[c].kind = "accept"
      BY <1>2, <1>3, <2>1 DEF DecidedWell
    <2>2. CASE call[c].kind = "record"
      BY <1>1, <1>2, <1>3, <2>2 DEF DecidedWell, Current
    <2> QED
      BY <1>1, <2>1, <2>2
  <1>5. Preserves(Durable, Durable')
    BY <1>1, <1>3, <1>4, AdmittedFacts, SettledFacts
  <1>6. TypeOK'
    <2>1. journal' \in Plans /\ pc' \in [Callers -> {"idle", "recover", "publish", "apply", "read"}]
      BY <1>2 DEF IndInv, TypeOK
    <2>2. \A d \in Callers :
             /\ pc'[d] # "idle" => call'[d] \in Calls
             /\ pc'[d] \in {"publish", "apply"} => plan'[d] \in Plans
      BY <1>1, <1>2 DEF IndInv, TypeOK
    <2> QED
      BY <2>1, <2>2 DEF IndInv, TypeOK, told
  <1>7. OneCaller'
    BY DEF IndInv, OneCaller, TypeOK
  <1>8. JournalContinues'
    BY <1>2, <1>3, <1>5 DEF JournalContinues, DecidedWell
  <1>9. CallsAreSound'
    <2>1. pc'[c] = "apply" /\ \A d \in Callers : d # c => pc'[d] = "idle"
      BY Alone DEF IndInv, TypeOK
    <2>2. PlannedResult(c)'
      BY <1>2 DEF PlannedResult, told
    <2>3. call'[c].kind # "lookup" /\ journal' = plan'[c]
      BY DEF IndInv, CallsAreSound
    <2> QED
      BY <2>1, <2>2, <2>3 DEF CallsAreSound
  <1>10. EffectGrantedOnceAndDurable'
    BY DEF IndInv, EffectGrantedOnceAndDurable, told
  <1>11. AnswersAreDurable'
    BY <1>5 DEF IndInv, AnswersAreDurable, Preserves, told, TypeOK, Answers
  <1> QED
    BY <1>4, <1>5, <1>6, <1>7, <1>8, <1>9, <1>10, <1>11 DEF IndInv

(* On return the decided transition is the ledger, and a grant is the first *)
(* for its id.                                                              *)
LEMMA ReturnStep ==
  ASSUME IndInv, NEW c \in Callers, Return(c)
  PROVE  /\ IndInv'
         /\ Durable' = Durable
         /\ \/ UNCHANGED grants
            \/ /\ CanSettle(Durable, call[c].request)
               /\ grants[call[c].request.id] = 0
               /\ grants' = [grants EXCEPT ![call[c].request.id] = 1]
  <1> DEFINE request == call[c].request
             id      == request.id
             result  == plan[c].after.requests[id].result
  <1>1. /\ pc[c] = "apply" /\ journal = None
        /\ Answer(id, result)
        /\ grants' = IF call[c].kind = "accept" /\ result = RecoveryRequired
                     THEN [grants EXCEPT ![id] = @ + 1] ELSE grants
        /\ Release(c)
        /\ UNCHANGED <<storage, now>>
    BY DEF Return
  <1>2. /\ call[c] \in Calls /\ request \in Requests /\ id \in Ids
        /\ plan[c] \in Plans /\ plan[c].after \in Ledger /\ plan[c] # None
    BY <1>1, RequestFields, CallersAssumption DEF IndInv, TypeOK, Calls, Plans
  <1>3. ledger = plan[c].after /\ PlannedResult(c)
    BY <1>1, <1>2 DEF IndInv, CallsAreSound
  <1>4. ledger # None /\ Current = ledger /\ Durable = ledger
    BY <1>1, <1>2, <1>3, NoneAssumption DEF Current, Durable
  <1>5. answers' \subseteq Answers /\ AnswersAreDurable'
    <2>1. Recorded(Current, id) /\ Current.requests[id].result = result
      BY <1>3, <1>4 DEF PlannedResult, Recorded
    <2> QED
      BY <1>1, <1>2, <2>1, AnswerFromLedger
  <1>6. \/ UNCHANGED grants
        \/ /\ CanSettle(Durable, request) /\ grants[id] = 0
           /\ grants' = [grants EXCEPT ![id] = 1]
           /\ request.op = "effect"
    <2>1. CASE call[c].kind = "accept" /\ result = RecoveryRequired
      <3>1. grants[id] = 0 /\ request.op = "effect"
        BY <1>3, <2>1 DEF PlannedResult
      <3>2. CanSettle(Durable, request)
        BY <1>3, <1>4, <2>1 DEF PlannedResult, CanSettle, IsReplay, Recorded
      <3> QED
        BY <1>1, <2>1, <3>1, <3>2
    <2>2. CASE ~(call[c].kind = "accept" /\ result = RecoveryRequired)
      BY <1>1, <2>2
    <2> QED
      BY <2>1, <2>2
  <1>7. grants' \in [Ids -> Nat] /\ EffectGrantedOnceAndDurable'
    <2>1. CASE UNCHANGED grants
      BY <2>1, <1>1 DEF IndInv, TypeOK, EffectGrantedOnceAndDurable, storage
    <2>2. CASE /\ CanSettle(Durable, request) /\ grants[id] = 0
               /\ grants' = [grants EXCEPT ![id] = 1]
               /\ request.op = "effect"
      <3>1. Recorded(ledger, id) /\ ledger.requests[id].request.op = "effect"
        BY <1>4, <2>2 DEF CanSettle, IsReplay
      <3>2. grants' \in [Ids -> Nat]
        BY <2>2, <1>2 DEF IndInv, TypeOK
      <3>3. \A i \in Ids : grants'[i] = IF i = id THEN 1 ELSE grants[i]
        BY <2>2, <1>2 DEF IndInv, TypeOK
      <3>4. ledger' = ledger
        BY <1>1 DEF storage
      <3> QED
        BY <3>1, <3>2, <3>3, <3>4, <1>4 DEF IndInv, EffectGrantedOnceAndDurable
    <2> QED
      BY <1>6, <2>1, <2>2
  <1>8. IndInv'
    BY <1>1, <1>5, <1>7, ReleaseStep
  <1>9. Durable' = Durable
    BY <1>1 DEF storage, Durable, Current
  <1> QED
    BY <1>6, <1>8, <1>9

----------------------------------------------------------------------------
LEMMA NextIndInv == IndInv /\ [Next]_vars => IndInv'
  <1> SUFFICES ASSUME IndInv, [Next]_vars PROVE IndInv'
    OBVIOUS
  <1>1. CASE \E c \in Callers : Step(c)
    BY <1>1, ApplyJournalStep, RetireJournalStep, AcceptReplayStep, AcceptNewStep,
       RecordStep, WriteJournalStep, ReturnStep, LookupStep, FailStep DEF Step
  <1>2. CASE \E c \in Callers, operation \in Calls : Acquire(c, operation)
    BY <1>2, AcquireStep
  <1>3. CASE \E c \in Callers, id \in Ids : Snapshot(c, id)
    BY <1>3, SnapshotStep
  <1>4. CASE Tick
    BY <1>4, TickStep
  <1>5. CASE UNCHANGED vars
    BY <1>5 DEF vars, IndInv, TypeOK, OneCaller, JournalContinues, CallsAreSound,
       DecidedWell, PlannedResult, EffectGrantedOnceAndDurable, AnswersAreDurable,
       Durable, Current
  <1> QED
    BY <1>1, <1>2, <1>3, <1>4, <1>5 DEF Next

(* What the lock holder knows and what the files hold, in every state.      *)
THEOREM Invariance == Spec => []IndInv
  BY InitIndInv, NextIndInv, PTL DEF Spec

(* Every variable keeps its type, for any callers, requests and bounds.     *)
THEOREM TypeCorrect == Spec => []TypeOK
  <1>1. IndInv => TypeOK
    BY DEF IndInv
  <1> QED
    BY <1>1, Invariance, PTL

(* recover_locked never meets a journal that does not continue the ledger:  *)
(* storage.rs's "evidence retained" error needs an outside writer.          *)
THEOREM RecoverySafe == Spec => []RecoveryNeverConflicts
  <1>1. IndInv => RecoveryNeverConflicts
    BY DEF IndInv, JournalContinues, RecoveryNeverConflicts
  <1> QED
    BY <1>1, Invariance, PTL

(* execute_effect is returned at most once per request id, and only after   *)
(* the intent is durable.                                                   *)
THEOREM GrantSafe == Spec => []EffectGrantedOnceAndDurable
  <1>1. IndInv => EffectGrantedOnceAndDurable
    BY DEF IndInv
  <1> QED
    BY <1>1, Invariance, PTL

(* What a caller has been told outlives every crash.                        *)
THEOREM AnswersSafe == Spec => []AnswersAreDurable
  <1>1. IndInv => AnswersAreDurable
    BY DEF IndInv
  <1> QED
    BY <1>1, Invariance, PTL

(* StateLedger implements AtomicLedger: writing the journal is the atomic   *)
(* transition, returning execute_effect is the grant, and every other step  *)
(* - the crash included - is invisible.                                     *)
LEMMA SameTransitions ==
  ASSUME NEW l, NEW r, NEW o
  PROVE  /\ Atomic!Admissible(l, r) <=> Admissible(l, r)
         /\ Atomic!CanSettle(l, r) <=> CanSettle(l, r)
         /\ Atomic!Admitted(l, r) = Admitted(l, r)
         /\ Atomic!Settled(l, r, o) = Settled(l, r, o)
         /\ Atomic!EffectOutcome = EffectOutcome
  <1>1. Atomic!Admissible(l, r) <=> Admissible(l, r)
    BY DEF Atomic!Admissible, Admissible, Atomic!StateGuard, StateGuard,
       Atomic!Recorded, Recorded
  <1>2. Atomic!CanSettle(l, r) <=> CanSettle(l, r)
    BY DEF Atomic!CanSettle, CanSettle, Atomic!IsReplay, IsReplay, Atomic!Recorded,
       Recorded, Atomic!RecoveryRequired, RecoveryRequired
  <1>3. Atomic!Admitted(l, r) = Admitted(l, r)
    BY DEF Atomic!Admitted, Admitted, Atomic!AdmittedResult, AdmittedResult,
       Atomic!RecoveryRequired, RecoveryRequired, Atomic!StateApplied, StateApplied
  <1>4. Atomic!Settled(l, r, o) = Settled(l, r, o) /\ Atomic!EffectOutcome = EffectOutcome
    BY DEF Atomic!Settled, Settled, Atomic!EffectOutcome, EffectOutcome
  <1> QED
    BY <1>1, <1>2, <1>3, <1>4

LEMMA AtomicInit == Init => Atomic!Init
  BY DEF Init, Atomic!Init, Durable, Current, Atomic!EmptyLedger, EmptyLedger

LEMMA AtomicStep == IndInv /\ [Next]_vars => [Atomic!Next]_(Atomic!vars)
  <1> SUFFICES ASSUME IndInv, [Next]_vars PROVE [Atomic!Next]_(Atomic!vars)
    OBVIOUS
  <1> USE DEF Atomic!vars
  <1>0. ASSUME UNCHANGED <<storage, grants>> PROVE UNCHANGED Atomic!vars
    BY <1>0 DEF storage, Durable, Current
  <1>1. CASE \E c \in Callers : Step(c)
    <2> PICK c \in Callers : Step(c)
      BY <1>1
    <2>0. pc[c] \in {"publish", "apply"} => call[c].request \in Requests
      BY DEF IndInv, TypeOK, Calls
    <2>1. CASE ApplyJournal(c)
      BY <2>1, ApplyJournalStep DEF ApplyJournal, told
    <2>2. CASE RetireJournal(c)
      BY <2>2, RetireJournalStep DEF RetireJournal, told
    <2>3. CASE WriteJournal(c)
      <3>1. call[c].request \in Requests /\ UNCHANGED grants
        BY <2>0, <2>3 DEF WriteJournal, told
      <3>2. \/ Atomic!Admit(call[c].request)
            \/ call[c].outcome \in EffectOutcome /\ Atomic!Settle(call[c].request, call[c].outcome)
        BY <2>3, <3>1, WriteJournalStep, SameTransitions DEF Atomic!Admit, Atomic!Settle, CanAdmit
      <3>3. Atomic!EffectOutcome = EffectOutcome
        BY SameTransitions
      <3> QED
        BY <3>1, <3>2, <3>3 DEF Atomic!Next
    <2>4. CASE Return(c)
      <3>1. Durable' = Durable /\ call[c].request \in Requests
        BY <2>0, <2>4, ReturnStep DEF Return
      <3>2. UNCHANGED grants \/ Atomic!Grant(call[c].request)
        BY <2>4, <3>1, ReturnStep, SameTransitions DEF Atomic!Grant
      <3> QED
        BY <3>1, <3>2 DEF Atomic!Next
    <2>5. CASE AcceptReplay(c) \/ AcceptNew(c) \/ Record(c) \/ Lookup(c) \/ Fail(c)
      <3>1. UNCHANGED <<storage, grants>>
        BY <2>5 DEF AcceptReplay, AcceptNew, Record, Lookup, Fail, Decide, told
      <3> QED
        BY <1>0, <3>1
    <2> QED
      BY <2>1, <2>2, <2>3, <2>4, <2>5 DEF Step
  <1>2. CASE (\E c \in Callers, operation \in Calls : Acquire(c, operation))
              \/ (\E c \in Callers, id \in Ids : Snapshot(c, id)) \/ Tick \/ UNCHANGED vars
    <2>1. UNCHANGED <<storage, grants>>
      BY <1>2 DEF Acquire, Snapshot, Tick, vars, storage, told
    <2> QED
      BY <1>0, <2>1
  <1> QED
    BY <1>1, <1>2 DEF Next

THEOREM Refinement == Spec => ImplementsAtomicLedger
  BY Invariance, AtomicInit, AtomicStep, PTL DEF Spec, Atomic!Spec, ImplementsAtomicLedger

----------------------------------------------------------------------------
(* What the revisions count, of any ledger                                  *)
Of(l, S) == {i \in RecordedIds(l) : l.requests[i].result.status \in S}
On(l, t) == {i \in Of(l, {"state_applied"}) : l.requests[i].request.task = t}
Values(l, t) == {l.requests[i].result.value : i \in On(l, t)}

Finished == {"effect_succeeded", "effect_failed"}

Exact(l) ==
    /\ l.revision = Cardinality(RecordedIds(l)) + Cardinality(Of(l, Finished))
    /\ \A t \in Tasks :
          /\ Cardinality(On(l, t)) = l.tasks[t]
          /\ Values(l, t) = 1 .. l.tasks[t]
          /\ \A i \in On(l, t) : l.requests[i].request.op = "progress" =>
                l.requests[i].result.value = l.requests[i].request.expected + 1

LEMMA CountedSetsAreFinite ==
  ASSUME NEW l, NEW S, NEW t
  PROVE  /\ IsFiniteSet(RecordedIds(l)) /\ Cardinality(RecordedIds(l)) \in Nat
         /\ IsFiniteSet(Of(l, S)) /\ Cardinality(Of(l, S)) \in Nat
         /\ IsFiniteSet(On(l, t)) /\ Cardinality(On(l, t)) \in Nat
  <1>1. RecordedIds(l) \in SUBSET Ids /\ Of(l, S) \in SUBSET Ids /\ On(l, t) \in SUBSET Ids
    BY DEF RecordedIds, Of, On
  <1> QED
    BY <1>1, FS_Subset, FS_CardinalityType, BoundsAssumption

(* An admission adds one record, and to its task the next revision.         *)
LEMMA AdmittedExact ==
  ASSUME NEW l \in Ledger, NEW r \in Requests, Admissible(l, r), Exact(l)
  PROVE  Exact(Admitted(l, r))
  <1> DEFINE m == Admitted(l, r)
             entry == [request |-> r, result |-> AdmittedResult(l, r)]
  <1>1. /\ r.id \in Ids /\ r.task \in Tasks /\ r.op \in Ops /\ r.expected \in Nat
        /\ l.requests[r.id] = None
    BY RequestsAssumption DEF Admissible, Recorded
  <1>2. l.tasks[r.task] \in Nat /\ l.revision \in Nat
    BY <1>1 DEF Ledger
  <1>3. entry \in RecordedRequest /\ entry # None
    BY <1>2, NoneAssumption
       DEF AdmittedResult, RecoveryRequired, StateApplied, RecordedResult, Statuses, RecordedRequest
  <1>4. /\ m.revision = l.revision + 1
        /\ m.tasks = IF r.op = "effect" THEN l.tasks
                     ELSE [l.tasks EXCEPT ![r.task] = @ + 1]
        /\ m.requests[r.id] = entry
        /\ \A i \in Ids : i # r.id => m.requests[i] = l.requests[i]
    BY <1>1 DEF Admitted, Ledger
  <1>5. RecordedIds(m) = RecordedIds(l) \cup {r.id} /\ r.id \notin RecordedIds(l)
    BY <1>1, <1>3, <1>4 DEF RecordedIds, Recorded
  <1>6. entry.request = r /\ entry.result = AdmittedResult(l, r)
    OBVIOUS
  <1> HIDE DEF m, entry
  <1>7. CASE r.op = "effect"
    <2>1. entry.result.status = "recovery_required"
      BY <1>6, <1>7 DEF AdmittedResult, RecoveryRequired
    <2>2. Of(m, Finished) = Of(l, Finished) /\ Of(m, {"state_applied"}) = Of(l, {"state_applied"})
      BY <1>4, <1>5, <2>1 DEF Of, RecordedIds, Finished
    <2>3. \A t \in Tasks : On(m, t) = On(l, t) /\ Values(m, t) = Values(l, t)
      BY <1>4, <1>5, <2>2 DEF On, Of, Values, RecordedIds
    <2>4. Cardinality(RecordedIds(m)) = Cardinality(RecordedIds(l)) + 1
      BY <1>5, CountedSetsAreFinite, FS_AddElement
    <2>5. m.revision = Cardinality(RecordedIds(m)) + Cardinality(Of(m, Finished))
      BY <1>2, <1>4, <2>2, <2>4, CountedSetsAreFinite DEF Exact
    <2>6. \A t \in Tasks : \A i \in On(m, t) : m.requests[i] = l.requests[i]
      BY <1>4, <1>5, <2>3 DEF On, Of, RecordedIds
    <2> QED
      BY <1>4, <1>7, <2>3, <2>5, <2>6 DEF Exact, m
  <1>8. CASE r.op # "effect"
    <2>1. /\ entry.result.status = "state_applied"
          /\ entry.result.value = l.tasks[r.task] + 1
      BY <1>6, <1>8 DEF AdmittedResult, StateApplied
    <2>2. /\ Of(m, Finished) = Of(l, Finished)
          /\ Of(m, {"state_applied"}) = Of(l, {"state_applied"}) \cup {r.id}
      BY <1>4, <1>5, <2>1 DEF Of, RecordedIds, Finished
    <2>3. Cardinality(RecordedIds(m)) = Cardinality(RecordedIds(l)) + 1
      BY <1>5, CountedSetsAreFinite, FS_AddElement
    <2>4. m.revision = Cardinality(RecordedIds(m)) + Cardinality(Of(m, Finished))
      BY <1>2, <1>4, <2>2, <2>3, CountedSetsAreFinite DEF Exact
    <2>5. ASSUME NEW t \in Tasks
          PROVE  /\ Cardinality(On(m, t)) = m.tasks[t]
                 /\ Values(m, t) = 1 .. m.tasks[t]
                 /\ \A i \in On(m, t) : m.requests[i].request.op = "progress" =>
                       m.requests[i].result.value = m.requests[i].request.expected + 1
      <3>0. \A i \in Of(l, {"state_applied"}) : i # r.id /\ m.requests[i] = l.requests[i]
        BY <1>4, <1>5 DEF Of, RecordedIds
      <3>1. \A i \in On(l, t) : i # r.id /\ m.requests[i] = l.requests[i]
        BY <3>0 DEF On
      <3>2. CASE t # r.task
        <4>1. On(m, t) = On(l, t)
          BY <1>4, <1>6, <2>2, <3>0, <3>2 DEF On
        <4>2. Values(m, t) = Values(l, t) /\ m.tasks[t] = l.tasks[t]
          BY <1>4, <1>8, <3>1, <3>2, <4>1 DEF Values, Ledger
        <4> QED
          BY <3>1, <4>1, <4>2 DEF Exact
      <3>3. CASE t = r.task
        <4>1. On(m, t) = On(l, t) \cup {r.id} /\ r.id \notin On(l, t)
          BY <1>4, <1>6, <2>2, <3>0, <3>3 DEF On
        <4>2. m.tasks[t] = l.tasks[t] + 1 /\ l.tasks[t] \in Nat
          BY <1>1, <1>2, <1>4, <1>8, <3>3 DEF Ledger
        <4>3. Cardinality(On(m, t)) = m.tasks[t]
          <5>1. Cardinality(On(l, t)) = l.tasks[t]
            BY DEF Exact
          <5>2. Cardinality(On(m, t)) = Cardinality(On(l, t)) + 1
            BY <4>1, CountedSetsAreFinite, FS_AddElement
          <5> QED
            BY <4>2, <5>1, <5>2
        <4>4. Values(m, t) = Values(l, t) \cup {l.tasks[t] + 1}
          BY <1>4, <2>1, <3>1, <3>3, <4>1 DEF Values
        <4>5. Values(m, t) = 1 .. m.tasks[t]
          <5>1. Values(l, t) = 1 .. l.tasks[t]
            BY DEF Exact
          <5> QED
            BY <4>2, <4>4, <5>1
        <4>6. r.op = "progress" => entry.result.value = r.expected + 1
          BY <1>1, <2>1 DEF Admissible, StateGuard
        <4> QED
          BY <1>4, <1>6, <3>1, <4>1, <4>3, <4>5, <4>6 DEF Exact
      <3> QED
        BY <3>2, <3>3
    <2> QED
      BY <2>4, <2>5 DEF Exact, m
  <1> QED
    BY <1>7, <1>8

(* A settlement adds no record: it finishes one.                            *)
LEMMA SettledExact ==
  ASSUME NEW l \in Ledger, NEW r \in Requests, NEW o \in EffectOutcome, CanSettle(l, r), Exact(l)
  PROVE  Exact(Settled(l, r, o))
  <1> DEFINE m == Settled(l, r, o)
             entry == [request |-> r, result |-> o]
  <1>1. /\ r.id \in Ids /\ l.requests[r.id] # None /\ l.requests[r.id].request = r
        /\ l.requests[r.id].result.status = "recovery_required"
        /\ l.revision \in Nat
    BY RequestsAssumption DEF CanSettle, IsReplay, Recorded, RecoveryRequired, Ledger
  <1>2. o.status \in Finished /\ o \in RecordedResult
    BY BoundsAssumption DEF EffectOutcome, Finished, RecordedResult, Statuses
  <1>3. entry # None /\ entry.request = r /\ entry.result = o
    BY <1>2, NoneAssumption DEF RecordedRequest
  <1>4. /\ m.revision = l.revision + 1 /\ m.tasks = l.tasks
        /\ m.requests[r.id] = entry
        /\ \A i \in Ids : i # r.id => m.requests[i] = l.requests[i]
    BY <1>1 DEF Settled, Ledger
  <1> HIDE DEF m, entry
  <1>5. RecordedIds(m) = RecordedIds(l) /\ r.id \in RecordedIds(l)
    BY <1>1, <1>3, <1>4 DEF RecordedIds, Recorded
  <1>6. /\ Of(m, Finished) = Of(l, Finished) \cup {r.id} /\ r.id \notin Of(l, Finished)
        /\ Of(m, {"state_applied"}) = Of(l, {"state_applied"})
        /\ r.id \notin Of(l, {"state_applied"})
    BY <1>1, <1>2, <1>3, <1>4, <1>5 DEF Of, RecordedIds, Finished
  <1>7. m.revision = Cardinality(RecordedIds(m)) + Cardinality(Of(m, Finished))
    <2>1. Cardinality(Of(m, Finished)) = Cardinality(Of(l, Finished)) + 1
      BY <1>6, CountedSetsAreFinite, FS_AddElement
    <2> QED
      BY <1>4, <1>5, <2>1, CountedSetsAreFinite DEF Exact
  <1>8. \A t \in Tasks : /\ On(m, t) = On(l, t)
                         /\ \A i \in On(l, t) : m.requests[i] = l.requests[i]
    BY <1>4, <1>6 DEF On, Of, RecordedIds
  <1>9. \A t \in Tasks : Values(m, t) = Values(l, t)
    BY <1>8 DEF Values
  <1> QED
    BY <1>4, <1>7, <1>8, <1>9 DEF Exact, m

LEMMA DurableType == TypeOK => Durable \in Ledger
  BY EmptyLedgerType DEF TypeOK, Durable, Current, Plans

LEMMA ExactInit == Init => Exact(Durable)
  <1> SUFFICES ASSUME Init PROVE Exact(EmptyLedger)
    BY DEF Init, Durable, Current
  <1>1. RecordedIds(EmptyLedger) = {}
    BY DEF RecordedIds, Recorded, EmptyLedger
  <1>2. Of(EmptyLedger, Finished) = {} /\ \A t \in Tasks : On(EmptyLedger, t) = {}
    BY <1>1 DEF Of, On
  <1>3. \A t \in Tasks : Values(EmptyLedger, t) = {} /\ EmptyLedger.tasks[t] = 0
    BY <1>2 DEF Values, EmptyLedger
  <1>4. EmptyLedger.revision = 0
    BY DEF EmptyLedger
  <1>5. Cardinality({}) = 0 /\ 1 .. 0 = {}
    BY FS_EmptySet
  <1>6. EmptyLedger.revision
          = Cardinality(RecordedIds(EmptyLedger)) + Cardinality(Of(EmptyLedger, Finished))
    BY <1>1, <1>2, <1>4, <1>5
  <1>7. \A t \in Tasks : /\ Cardinality(On(EmptyLedger, t)) = EmptyLedger.tasks[t]
                         /\ Values(EmptyLedger, t) = 1 .. EmptyLedger.tasks[t]
    BY <1>2, <1>3, <1>5
  <1> QED
    BY <1>2, <1>6, <1>7 DEF Exact

(* Every step is one of the atomic ledger, so one of its two transitions.   *)
LEMMA ExactStep == IndInv /\ Exact(Durable) /\ [Next]_vars => Exact(Durable')
  <1> SUFFICES ASSUME IndInv, Exact(Durable), [Next]_vars PROVE Exact(Durable')
    OBVIOUS
  <1>1. [Atomic!Next]_(Atomic!vars)
    BY AtomicStep
  <1>2. CASE UNCHANGED Atomic!vars
    BY <1>2 DEF Atomic!vars
  <1>3. CASE Atomic!Next
    <2> PICK r \in Requests : \/ Atomic!Admit(r) \/ Atomic!Grant(r)
                              \/ \E o \in Atomic!EffectOutcome : Atomic!Settle(r, o)
      BY <1>3 DEF Atomic!Next
    <2>1. Durable \in Ledger
      BY DurableType DEF IndInv
    <2>2. CASE Atomic!Admit(r)
      BY <2>1, <2>2, SameTransitions, AdmittedExact DEF Atomic!Admit
    <2>3. CASE Atomic!Grant(r)
      BY <2>3 DEF Atomic!Grant
    <2>4. CASE \E o \in Atomic!EffectOutcome : Atomic!Settle(r, o)
      BY <2>1, <2>4, SameTransitions, SettledExact DEF Atomic!Settle
    <2> QED
      BY <2>2, <2>3, <2>4
  <1> QED
    BY <1>1, <1>2, <1>3

(* Each admission and each settlement moves the revision exactly once, and  *)
(* no compare-and-swap on a task is won twice.                              *)
THEOREM RevisionsSafe == Spec => []RevisionsAreExact
  <1>1. RevisionsAreExact <=> Exact(Durable)
    BY DEF RevisionsAreExact, Exact, Of, On, Values, Finished
  <1>2. Init => RevisionsAreExact
    BY <1>1, ExactInit
  <1>3. IndInv /\ RevisionsAreExact /\ [Next]_vars => RevisionsAreExact'
    <2>1. RevisionsAreExact' <=> Exact(Durable')
      BY DEF RevisionsAreExact, Exact, Of, On, Values, Finished
    <2> QED
      BY <1>1, <2>1, ExactStep
  <1> QED
    BY <1>2, <1>3, Invariance, PTL DEF Spec
=============================================================================
