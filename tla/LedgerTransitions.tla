------------------------- MODULE LedgerTransitions -------------------------
(* The pure transitions of the protected ledger                            *)
(* (crates/codex-global-execution/src/global_execution/ledger.rs).          *)
(* A ledger is a value: the storage layer decides when it becomes durable.  *)
(* A request stands for its own digest: two requests with one id and        *)
(* different content are two members of Requests.                           *)
EXTENDS Naturals, FiniteSets

CONSTANTS
    Requests,      \* what clients may send: [id, op, task, expected, expires]
    Ids,           \* request identifiers
    Tasks,         \* task keys, already in the registration's namespace
    Digests,       \* outcome digests and error codes an executor may report
    None,          \* "no such entry"
    MaxRequests,   \* bound: ledger capacity in requests (100,000 in the code)
    MaxTasks       \* bound: ledger capacity in tasks (10,000 in the code)

Ops == {"begin", "progress", "effect"}

Statuses == {"state_applied", "recovery_required", "effect_succeeded", "effect_failed"}

RecordedResult == [status : Statuses, value : Nat]

RecordedRequest == [request : Requests, result : RecordedResult]

Ledger == [revision : Nat,
           tasks    : [Tasks -> Nat],
           requests : [Ids -> RecordedRequest \cup {None}]]

ASSUME RequestsAssumption ==
    Requests \subseteq
        [id : Ids, op : Ops, task : Tasks, expected : Nat, expires : Nat]

ASSUME NoneAssumption ==
    /\ None \notin RecordedRequest
    /\ None \notin Ledger
    /\ None \notin Requests

ASSUME BoundsAssumption ==
    /\ IsFiniteSet(Ids) /\ IsFiniteSet(Tasks)
    /\ Digests \subseteq Nat
    /\ MaxRequests \in Nat /\ MaxTasks \in Nat

----------------------------------------------------------------------------
EmptyLedger == [revision |-> 0,
                tasks    |-> [t \in Tasks |-> 0],     \* 0: the task does not exist
                requests |-> [i \in Ids |-> None]]

StateApplied(revision) == [status |-> "state_applied", value |-> revision]

RecoveryRequired == [status |-> "recovery_required", value |-> 0]

(* What the protected executor may report of an effect. *)
EffectOutcome == [status : {"effect_succeeded", "effect_failed"}, value : Digests]

Recorded(ledger, id) == ledger.requests[id] # None

RecordedIds(ledger) == {i \in Ids : Recorded(ledger, i)}

LiveTasks(ledger) == {t \in Tasks : ledger.tasks[t] > 0}

(* An id that comes back with the very same content is answered from the    *)
(* record; the same id with other content is refused.                       *)
IsReplay(ledger, request) ==
    Recorded(ledger, request.id) /\ ledger.requests[request.id].request = request

HasCapacity(ledger) ==
    /\ Cardinality(RecordedIds(ledger)) < MaxRequests
    /\ Cardinality(LiveTasks(ledger)) < MaxTasks

(* Fault: a progress report is admitted at any revision.                    *)
StateGuardWithoutCas(ledger, request) ==
    /\ request.op = "begin"    => ledger.tasks[request.task] = 0
    /\ request.op = "progress" => ledger.tasks[request.task] > 0

(* Begin needs an absent task, Progress an existing one at the revision the *)
(* client last saw.                                                         *)
StateGuard(ledger, request) ==
    /\ request.op = "begin"    => ledger.tasks[request.task] = 0
    /\ request.op = "progress" => /\ ledger.tasks[request.task] > 0
                                  /\ ledger.tasks[request.task] = request.expected

Admissible(ledger, request) ==
    ~Recorded(ledger, request.id) /\ StateGuard(ledger, request)

CanAdmit(ledger, request) ==
    Admissible(ledger, request) /\ HasCapacity(ledger)

AdmittedResult(ledger, request) ==
    IF request.op = "effect"
    THEN RecoveryRequired
    ELSE StateApplied(ledger.tasks[request.task] + 1)

(* The ledger after a new request: one revision later, with the request     *)
(* recorded and, for a state mutation, its task advanced.                   *)
Admitted(ledger, request) ==
    [revision |-> ledger.revision + 1,
     tasks    |-> IF request.op = "effect"
                  THEN ledger.tasks
                  ELSE [ledger.tasks EXCEPT ![request.task] = @ + 1],
     requests |-> [ledger.requests EXCEPT ![request.id] =
                     [request |-> request, result |-> AdmittedResult(ledger, request)]]]

(* An effect can be settled only while it is still an open intent.          *)
CanSettle(ledger, request) ==
    IsReplay(ledger, request) /\ ledger.requests[request.id].result = RecoveryRequired

(* Fault: settling an effect leaves the revision where it was.              *)
SettledInPlace(ledger, request, outcome) ==
    [revision |-> ledger.revision,
     tasks    |-> ledger.tasks,
     requests |-> [ledger.requests EXCEPT ![request.id] =
                     [request |-> request, result |-> outcome]]]

Settled(ledger, request, outcome) ==
    [revision |-> ledger.revision + 1,
     tasks    |-> ledger.tasks,
     requests |-> [ledger.requests EXCEPT ![request.id] =
                     [request |-> request, result |-> outcome]]]
=============================================================================
