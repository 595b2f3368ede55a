---------------------------- MODULE StateLedger ----------------------------
(* The journaled ledger of one registered worktree                          *)
(* (crates/codex-global-execution/src/global_execution/storage.rs with       *)
(* ledger.rs).  A transition is published in three durable writes: the      *)
(* journal, the ledger, the removal of the journal.  A caller may die, or   *)
(* meet an I/O error, between any two of them; the next caller that         *)
(* recovers finishes exactly that transition.  Hashes are the values they   *)
(* identify.                                                                *)
EXTENDS LedgerTransitions

CONSTANTS
    Callers,   \* processes and threads that open this storage
    MaxTime    \* bound: how far the clock runs

VARIABLES
    ledger,    \* ledger-<worktree>.json, or None
    journal,   \* transaction-<worktree>.json, or None
    lock,      \* holder of the ledger's state lock, or None
    pc,        \* where each caller is in its operation
    call,      \* the operation each caller runs, or None
    plan,      \* the transition a caller computed in memory, or None
    now,       \* the clock a request's expires_at is compared with
    grants,    \* grants[i]: how often execute_effect was returned for i
    answers    \* every [id, result] a caller has been told of

storage == <<ledger, journal>>
callers == <<lock, pc, call, plan>>
told    == <<grants, answers>>
vars    == <<ledger, journal, lock, pc, call, plan, now, grants, answers>>

(* accept, record_effect_result and recorded_result.                        *)
Calls == [kind : {"accept", "lookup"}, request : Requests, outcome : {RecoveryRequired}]
            \cup [kind : {"record"}, request : Requests, outcome : EffectOutcome]

Plans == [before : Ledger \cup {None}, after : Ledger]

Answers == [id : Ids, result : RecordedResult]

ASSUME CallersAssumption ==
    /\ None \notin Callers /\ None \notin Calls /\ None \notin Plans
    /\ MaxTime \in Nat

(* read_current().unwrap_or_default()                                       *)
Current == IF ledger = None THEN EmptyLedger ELSE ledger

(* The ledger as recovery will leave it.                                    *)
Durable == IF journal = None THEN Current ELSE journal.after

Init ==
    /\ ledger = None /\ journal = None
    /\ lock = None
    /\ pc = [c \in Callers |-> "idle"]
    /\ call = [c \in Callers |-> None]
    /\ plan = [c \in Callers |-> None]
    /\ now = 0
    /\ grants = [i \in Ids |-> 0]
    /\ answers = {}

----------------------------------------------------------------------------
(* Dropping the StateLock: on return, on an error and when the process dies. *)
Release(c) ==
    /\ lock' = None
    /\ pc' = [pc EXCEPT ![c] = "idle"]
    /\ call' = [call EXCEPT ![c] = None]
    /\ plan' = [plan EXCEPT ![c] = None]

Answer(id, result) == answers' = answers \cup {[id |-> id, result |-> result]}

(* Fault: the state lock is not taken.                                      *)
AcquireWithoutLock(c, operation) ==
    /\ pc[c] = "idle"
    /\ lock' = c
    /\ call' = [call EXCEPT ![c] = operation]
    /\ pc' = [pc EXCEPT ![c] = IF operation.kind = "lookup" THEN "read" ELSE "recover"]
    /\ UNCHANGED <<storage, plan, now, told>>

(* Only accept and record_effect_result run recover_locked first;           *)
(* recorded_result reads the ledger as it finds it.                         *)
Acquire(c, operation) ==
    /\ pc[c] = "idle" /\ lock = None
    /\ lock' = c
    /\ call' = [call EXCEPT ![c] = operation]
    /\ pc' = [pc EXCEPT ![c] = IF operation.kind = "lookup" THEN "read" ELSE "recover"]
    /\ UNCHANGED <<storage, plan, now, told>>

(* recover_locked, first half: complete the journaled transition.           *)
ApplyJournal(c) ==
    /\ pc[c] \in {"recover", "apply"}
    /\ journal # None /\ ledger # journal.after
    /\ ledger = journal.before
    /\ ledger' = journal.after
    /\ UNCHANGED <<journal, callers, now, told>>

(* Fault: the journal is removed before the ledger is written.              *)
RetireUnapplied(c) ==
    /\ pc[c] \in {"recover", "apply"}
    /\ journal # None
    /\ journal' = None
    /\ UNCHANGED <<ledger, callers, now, told>>

(* recover_locked, second half: the terminal journal is removed.            *)
RetireJournal(c) ==
    /\ pc[c] \in {"recover", "apply"}
    /\ journal # None /\ ledger = journal.after
    /\ journal' = None
    /\ UNCHANGED <<ledger, callers, now, told>>

(* Fault: a replayed intent is executed again.                              *)
ReplayGrants(c) ==
    /\ pc[c] = "recover" /\ journal = None /\ call[c].kind = "accept"
    /\ IsReplay(Current, call[c].request)
    /\ Answer(call[c].request.id, Current.requests[call[c].request.id].result)
    /\ grants' = [grants EXCEPT ![call[c].request.id] = @ + 1]
    /\ Release(c)
    /\ UNCHANGED <<storage, now>>

(* Ledger::accept of a request already on record: same answer, no effect.   *)
AcceptReplay(c) ==
    /\ pc[c] = "recover" /\ journal = None /\ call[c].kind = "accept"
    /\ IsReplay(Current, call[c].request)
    /\ Answer(call[c].request.id, Current.requests[call[c].request.id].result)
    /\ Release(c)
    /\ UNCHANGED <<storage, now, grants>>

(* Fault: the computed transition is dropped before it is published.        *)
DecideNothing(c, after) ==
    /\ pc' = [pc EXCEPT ![c] = "publish"]
    /\ UNCHANGED <<storage, lock, call, plan, now, told>>

Decide(c, after) ==
    /\ plan' = [plan EXCEPT ![c] = [before |-> ledger, after |-> after]]
    /\ pc' = [pc EXCEPT ![c] = "publish"]
    /\ UNCHANGED <<storage, lock, call, now, told>>

(* Ledger::accept of a new request inside its validity window.              *)
AcceptNew(c) ==
    /\ pc[c] = "recover" /\ journal = None /\ call[c].kind = "accept"
    /\ call[c].request.expires > now
    /\ CanAdmit(Current, call[c].request)
    /\ Decide(c, Admitted(Current, call[c].request))

(* Ledger::record_effect_result: an open intent is settled; the outcome     *)
(* already on record is accepted again without moving the revision, and     *)
(* then storage.rs publishes nothing.                                       *)
Record(c) ==
    /\ pc[c] = "recover" /\ journal = None /\ call[c].kind = "record"
    /\ ledger # None /\ IsReplay(ledger, call[c].request)
    /\ LET request == call[c].request
           outcome == call[c].outcome
           current == ledger.requests[request.id].result
           after   == IF current = outcome THEN ledger
                      ELSE Settled(ledger, request, outcome)
       IN /\ current \in {outcome, RecoveryRequired}
          /\ IF after.revision # ledger.revision
             THEN Decide(c, after)
             ELSE /\ Answer(request.id, outcome)
                  /\ Release(c)
                  /\ UNCHANGED <<storage, now, grants>>

(* publish: the intent is durable before the ledger moves.                  *)
WriteJournal(c) ==
    /\ pc[c] = "publish"
    /\ journal' = plan[c]
    /\ pc' = [pc EXCEPT ![c] = "apply"]
    /\ UNCHANGED <<ledger, lock, call, plan, now, told>>

(* publish returned: the caller learns the result, and execute_effect when  *)
(* it admitted a new effect.                                                *)
Return(c) ==
    /\ pc[c] = "apply" /\ journal = None
    /\ LET id     == call[c].request.id
           result == plan[c].after.requests[id].result
       IN /\ Answer(id, result)
          /\ grants' = IF call[c].kind = "accept" /\ result = RecoveryRequired
                       THEN [grants EXCEPT ![id] = @ + 1]
                       ELSE grants
    /\ Release(c)
    /\ UNCHANGED <<storage, now>>

(* recorded_result: a locked read without recovery.                         *)
Lookup(c) ==
    /\ pc[c] = "read"
    /\ IF ledger # None /\ IsReplay(ledger, call[c].request)
       THEN Answer(call[c].request.id, ledger.requests[call[c].request.id].result)
       ELSE UNCHANGED answers
    /\ Release(c)
    /\ UNCHANGED <<storage, now, grants>>

(* snapshot_recorded_request_by_id: a client's read without the lock.       *)
Snapshot(c, id) ==
    /\ pc[c] = "idle"
    /\ ledger # None /\ Recorded(ledger, id)
    /\ Answer(id, ledger.requests[id].result)
    /\ UNCHANGED <<storage, callers, now, grants>>

(* Every other way out of a call: a refused request, a failed file          *)
(* operation, a conflicting journal, or the death of the process.           *)
Fail(c) ==
    /\ pc[c] # "idle"
    /\ Release(c)
    /\ UNCHANGED <<storage, now, told>>

Tick ==
    /\ now < MaxTime
    /\ now' = now + 1
    /\ UNCHANGED <<storage, callers, told>>

Step(c) ==
    \/ ApplyJournal(c) \/ RetireJournal(c)
    \/ AcceptReplay(c) \/ AcceptNew(c)
    \/ Record(c) \/ WriteJournal(c) \/ Return(c)
    \/ Lookup(c) \/ Fail(c)

Next ==
    \/ \E c \in Callers : Step(c)
    \/ \E c \in Callers, operation \in Calls : Acquire(c, operation)
    \/ \E c \in Callers, id \in Ids : Snapshot(c, id)
    \/ Tick

Spec == Init /\ [][Next]_vars

----------------------------------------------------------------------------
(* Every variable keeps its type, and a caller in the middle of a call      *)
(* holds what that point of the call needs.                                 *)
TypeOK ==
    /\ ledger \in Ledger \cup {None}
    /\ journal \in Plans \cup {None}
    /\ lock \in Callers \cup {None}
    /\ pc \in [Callers -> {"idle", "recover", "publish", "apply", "read"}]
    /\ call \in [Callers -> Calls \cup {None}]
    /\ plan \in [Callers -> Plans \cup {None}]
    /\ \A c \in Callers :
          /\ pc[c] # "idle" => call[c] \in Calls
          /\ pc[c] \in {"publish", "apply"} => plan[c] \in Plans
    /\ now \in Nat
    /\ grants \in [Ids -> Nat]
    /\ answers \subseteq Answers

(* recover_locked's "recovery conflicts with current data" cannot happen to *)
(* storage that only this code writes: a journal left by whoever died       *)
(* always continues the ledger that is there.                               *)
RecoveryNeverConflicts ==
    journal # None => ledger \in {journal.before, journal.after}

(* The bookkeeping that record_effect_result's publication test relies on:  *)
(* each admission and each settlement moves the revision exactly once.      *)
(* And no compare-and-swap on a task is won twice: the mutations on record  *)
(* for a task carry the revisions 1..n, each exactly once, a progress       *)
(* report the one after the revision its client had read.                   *)
RevisionsAreExact ==
    LET book == Durable
        of(S) == {i \in RecordedIds(book) : book.requests[i].result.status \in S}
        on(t) == {i \in of({"state_applied"}) : book.requests[i].request.task = t}
    IN /\ book.revision = Cardinality(RecordedIds(book))
                            + Cardinality(of({"effect_succeeded", "effect_failed"}))
       /\ \A t \in Tasks :
             /\ Cardinality(on(t)) = book.tasks[t]
             /\ {book.requests[i].result.value : i \in on(t)} = 1..book.tasks[t]
             /\ \A i \in on(t) : book.requests[i].request.op = "progress" =>
                   book.requests[i].result.value = book.requests[i].request.expected + 1

(* Permission to run an effect is given at most once per request id, and    *)
(* only when the intent already survives a crash.                           *)
EffectGrantedOnceAndDurable ==
    \A i \in Ids :
        /\ grants[i] <= 1
        /\ grants[i] = 1 => /\ ledger # None /\ Recorded(ledger, i)
                            /\ ledger.requests[i].request.op = "effect"

(* A result told to anyone - by a return, a locked or an unlocked read -    *)
(* stays on record through every crash; only an open intent may still be    *)
(* settled.                                                                 *)
AnswersAreDurable ==
    \A a \in answers :
        /\ Recorded(Durable, a.id)
        /\ a.result # RecoveryRequired => Durable.requests[a.id].result = a.result

(* The journaled storage implements the atomic ledger: what a crash leaves  *)
(* behind is read as the journaled transition already done.                 *)
Atomic == INSTANCE AtomicLedger WITH book <- Durable

ImplementsAtomicLedger == Atomic!Spec
=============================================================================
