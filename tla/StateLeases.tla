---------------------------- MODULE StateLeases ----------------------------
(* Application state under leases                                           *)
(* (crates/codex-global-execution/src/global_execution/application_state.rs *)
(* behind worker.rs and client.rs, used by                                  *)
(* crates/rayman/src/global_state_bridge.rs).  A rayman process asks the    *)
(* worker for a lease on a state object, writes a goal file by              *)
(* compare-and-swap under it, renews it from a second thread and finally    *)
(* queues a release it does not wait for.  The leases are in the worker's   *)
(* memory; requests and results are files.  Requests are served in the      *)
(* order of their random ids, so any waiting one may be next, and one whose *)
(* client gave up is still served.                                          *)
(*                                                                          *)
(* A goal file is the set of changes it contains.  Every change brings a    *)
(* new time stamp, so two different writes never have equal bytes.  The     *)
(* upload of the bytes in content-named chunks is part of the write.        *)
EXTENDS Naturals, FiniteSets

CONSTANTS
    Clients,     \* rayman processes
    LeaseIds,    \* bound: lease ids, more than can be in use at once
    Slots,       \* bound: requests in the queue at a time, with their results
    None,
    LeaseTime,   \* how long a lease lives (120 s in the code)
    Lifetime,    \* how long a request is valid (120 s in the code)
    MaxLeases,   \* capacity of the lease table (256 in the code)
    MaxWrites,   \* bound: changes each process makes
    MaxFaults    \* bound: time-outs, deaths, I/O errors and late requests

(* The lock of one goal and the lock of the whole store: a holder of either *)
(* may write the goal.                                                      *)
Objects == {"goal", "store"}

Changes == Clients \X (1..MaxWrites)

(* What READS holds before the first read.                                  *)
Unread == {None}

Leases == [id : LeaseIds, object : Objects, left : 0..LeaseTime]

Kinds == {"acquire", "release", "renew", "write"}

Requests ==
    [kind : Kinds, object : Objects \cup {None}, lease : LeaseIds \cup {None},
     expected : SUBSET Changes, value : SUBSET Changes, left : 0..Lifetime]

ASSUME ConstantsAssumption ==
    /\ LeaseTime \in Nat \ {0} /\ Lifetime \in Nat \ {0}
    /\ MaxLeases \in Nat /\ MaxWrites \in Nat /\ MaxFaults \in Nat
    /\ None \notin Clients \cup Slots \cup LeaseIds \cup Changes \cup Requests
    /\ LeaseIds \cap {"ok", "error"} = {}

VARIABLES
    \* the worker
    leases,     \* its lease table
    \* the protected root and the workspace
    request,    \* request[s]: a queued request, or None
    result,     \* result[s]: its result, or None
    file,       \* the goal file
    \* the rayman processes
    pc,         \* where each one's main thread is
    object,     \* what it locks
    lease,      \* the lease it holds, or None
    waits,      \* the request its main thread waits for, or None
    renewal,    \* the request its renewal thread waits for, or None
    renewing,   \* its renewal thread runs
    seen,       \* READS: the bytes it read last, or Unread
    \* history and bounds
    count,      \* changes attempted
    acked,      \* changes reported as written
    lost,       \* its lease expired or was forgotten while it was inside
    faults

queue   == <<request, result>>
process == <<pc, object, lease, waits, renewal, renewing, seen>>
history == <<count, acked, lost, faults>>
vars == <<leases, queue, file, process, history>>

(* The main thread holds its StateLock from "held" to "dropping".           *)
Inside == {"held", "uploading", "writing", "dropping"}

Init ==
    /\ leases = {}
    /\ request = [s \in Slots |-> None] /\ result = [s \in Slots |-> None]
    /\ file = {}
    /\ pc = [c \in Clients |-> "idle"]
    /\ object = [c \in Clients |-> None] /\ lease = [c \in Clients |-> None]
    /\ waits = [c \in Clients |-> None] /\ renewal = [c \in Clients |-> None]
    /\ renewing = [c \in Clients |-> FALSE] /\ seen = [c \in Clients |-> Unread]
    /\ count = [c \in Clients |-> 0] /\ acked = {}
    /\ lost = [c \in Clients |-> FALSE] /\ faults = 0

Fault == faults < MaxFaults /\ faults' = faults + 1

----------------------------------------------------------------------------
(* Requests.                                                                *)
Free == {s \in Slots : request[s] = None}

Slot == CHOOSE s \in Free : TRUE

Request(kind, o, id, expected, value) ==
    [kind |-> kind, object |-> o, lease |-> id, expected |-> expected, value |-> value,
     left |-> Lifetime]

Submit(r) == Free # {} /\ request' = [request EXCEPT ![Slot] = r]

(* Nobody waits for a request: its result, once written, is never read.     *)
Abandoned(s) == \A c \in Clients : waits[c] # s /\ renewal[c] # s

(* A result was read.                                                       *)
Consume(s) ==
    /\ request' = [request EXCEPT ![s] = None]
    /\ result' = [result EXCEPT ![s] = None]

(* Results nobody will read keep no place.                                  *)
Forget(S) ==
    /\ request' = [s \in Slots |-> IF s \in S /\ result[s] # None THEN None ELSE request[s]]
    /\ result' = [s \in Slots |-> IF s \in S THEN None ELSE result[s]]

Unlost(c, id) == \E l \in leases : l.id = id /\ l.left > 0

----------------------------------------------------------------------------
(* The main thread of a rayman process.                                     *)
Acquire(c, o) ==
    /\ pc[c] = "idle"
    /\ Submit(Request("acquire", o, None, {}, {}))
    /\ pc' = [pc EXCEPT ![c] = "acquiring"]
    /\ object' = [object EXCEPT ![c] = o]
    /\ waits' = [waits EXCEPT ![c] = Slot]
    /\ UNCHANGED <<leases, result, file, lease, renewal, renewing, seen, history>>

(* Every read of the file through file_io.rs is remembered.                 *)
Observe(c) ==
    /\ pc[c] \in {"idle", "held"} /\ count[c] < MaxWrites
    /\ seen' = [seen EXCEPT ![c] = file]
    /\ UNCHANGED <<leases, queue, file, pc, object, lease, waits, renewal, renewing, history>>

(* A write renews the lease, uploads the bytes, then asks for the           *)
(* compare-and-swap against what the process read last.                     *)
BeginWrite(c) ==
    /\ pc[c] = "held" /\ seen[c] # Unread /\ count[c] < MaxWrites
    /\ Submit(Request("renew", None, lease[c], {}, {}))
    /\ pc' = [pc EXCEPT ![c] = "uploading"]
    /\ waits' = [waits EXCEPT ![c] = Slot]
    /\ UNCHANGED <<leases, result, file, object, lease, renewal, renewing, seen, history>>

Change(c) == <<c, count[c] + 1>>

Write(c) ==
    /\ pc[c] = "uploading" /\ result[waits[c]] = "ok"
    /\ result' = [result EXCEPT ![waits[c]] = None]
    /\ request' = [request EXCEPT ![waits[c]] =
                      Request("write", object[c], lease[c], seen[c], seen[c] \cup {Change(c)})]
    /\ count' = [count EXCEPT ![c] = @ + 1]
    /\ pc' = [pc EXCEPT ![c] = "writing"]
    /\ UNCHANGED <<leases, file, object, lease, waits, renewal, renewing, seen, acked, lost,
                   faults>>

(* The result arrives.  A granted lease starts the renewal thread, a written*)
(* file is read back, and every error ends the command.                     *)
Granted(c) ==
    /\ pc[c] = "acquiring" /\ result[waits[c]] \in LeaseIds
    /\ lease' = [lease EXCEPT ![c] = result[waits[c]]]
    /\ lost' = [lost EXCEPT ![c] = ~Unlost(c, result[waits[c]])]
    /\ renewing' = [renewing EXCEPT ![c] = TRUE]
    /\ pc' = [pc EXCEPT ![c] = "held"]
    /\ waits' = [waits EXCEPT ![c] = None]
    /\ Consume(waits[c])
    /\ UNCHANGED <<leases, file, object, renewal, seen, count, acked, faults>>

Written(c) ==
    /\ pc[c] = "writing" /\ result[waits[c]] = "ok"
    /\ LET value == request[waits[c]].value
       IN IF file = value
          THEN /\ seen' = [seen EXCEPT ![c] = value]
               /\ acked' = acked \cup {<<c, count[c]>>}
               /\ pc' = [pc EXCEPT ![c] = "held"]
          ELSE /\ seen' = [seen EXCEPT ![c] = file]
               /\ pc' = [pc EXCEPT ![c] = "dropping"]
               /\ UNCHANGED acked
    /\ waits' = [waits EXCEPT ![c] = None]
    /\ Consume(waits[c])
    /\ UNCHANGED <<leases, file, object, lease, renewal, renewing, count, lost, faults>>

GiveUp(c) ==
    /\ pc' = [pc EXCEPT ![c] = IF @ = "acquiring" THEN "idle" ELSE "dropping"]
    /\ waits' = [waits EXCEPT ![c] = None]
    /\ UNCHANGED <<leases, file, object, lease, renewal, renewing, seen, count, acked, lost>>

Refused(c) ==
    /\ waits[c] # None /\ result[waits[c]] = "error"
    /\ Consume(waits[c])
    /\ GiveUp(c)
    /\ UNCHANGED faults

(* The client program is killed after its time; its request stays queued.   *)
TimesOut(c) ==
    /\ Fault
    /\ waits[c] # None
    /\ Forget({waits[c]})
    /\ GiveUp(c)

(* RemoteLock::drop: stop and join the renewal thread, then queue a release *)
(* without waiting for it.                                                  *)
Drop(c) ==
    /\ pc[c] = "held"
    /\ pc' = [pc EXCEPT ![c] = "dropping"]
    /\ UNCHANGED <<leases, queue, file, object, lease, waits, renewal, renewing, seen, history>>

Leave(c) ==
    /\ pc' = [pc EXCEPT ![c] = "idle"]
    /\ lease' = [lease EXCEPT ![c] = None]
    /\ object' = [object EXCEPT ![c] = None]
    /\ renewing' = [renewing EXCEPT ![c] = FALSE]
    /\ lost' = [lost EXCEPT ![c] = FALSE]

Release(c) ==
    /\ pc[c] = "dropping" /\ renewal[c] = None
    /\ Submit(Request("release", None, lease[c], {}, {}))
    /\ Leave(c)
    /\ UNCHANGED <<leases, result, file, waits, renewal, seen, count, acked, faults>>

(* The release cannot be queued: the lease is left to expire.               *)
ReleaseFails(c) ==
    /\ Fault
    /\ pc[c] = "dropping" /\ renewal[c] = None
    /\ Leave(c)
    /\ UNCHANGED <<leases, queue, file, waits, renewal, seen, count, acked>>

(* The rayman process dies, with both its threads.                          *)
Die(c) ==
    /\ Fault
    /\ pc[c] # "idle"
    /\ Leave(c)
    /\ waits' = [waits EXCEPT ![c] = None]
    /\ renewal' = [renewal EXCEPT ![c] = None]
    /\ seen' = [seen EXCEPT ![c] = Unread]
    /\ Forget({waits[c], renewal[c]})
    /\ UNCHANGED <<leases, file, count, acked>>

(* The renewal thread: one request at a time, and it ends at the first one  *)
(* that fails.                                                              *)
Renew(c) ==
    /\ pc[c] \in Inside \ {"dropping"} /\ renewing[c] /\ renewal[c] = None
    /\ Submit(Request("renew", None, lease[c], {}, {}))
    /\ renewal' = [renewal EXCEPT ![c] = Slot]
    /\ UNCHANGED <<leases, result, file, pc, object, lease, waits, renewing, seen, history>>

Renewed(c) ==
    /\ renewal[c] # None /\ result[renewal[c]] # None
    /\ renewing' = [renewing EXCEPT ![c] = result[renewal[c]] = "ok"]
    /\ renewal' = [renewal EXCEPT ![c] = None]
    /\ Consume(renewal[c])
    /\ UNCHANGED <<leases, file, pc, object, lease, waits, seen, history>>

RenewalTimesOut(c) ==
    /\ Fault
    /\ renewal[c] # None
    /\ renewing' = [renewing EXCEPT ![c] = FALSE]
    /\ renewal' = [renewal EXCEPT ![c] = None]
    /\ Forget({renewal[c]})
    /\ UNCHANGED <<leases, file, pc, object, lease, waits, seen, count, acked, lost>>

Process(c) ==
    \/ Observe(c) \/ BeginWrite(c) \/ Write(c) \/ Granted(c) \/ Written(c) \/ Refused(c)
    \/ Drop(c) \/ Release(c) \/ Renew(c) \/ Renewed(c)
    \/ \E o \in Objects : Acquire(c, o)

----------------------------------------------------------------------------
(* The worker.                                                              *)

(* Fault: expired leases stay in the table.                                 *)
RetainedForever == leases

(* Every storage call first drops the expired leases.                       *)
Retained == {l \in leases : l.left > 0}

(* Fault: nobody looks for a live lease on the object.                      *)
IsFreeUnchecked(o) == Cardinality(Retained) < MaxLeases

(* Fault: the table may grow one past its limit.                            *)
IsFreeLate(o) ==
    Cardinality(Retained) <= MaxLeases /\ \A l \in Retained : l.object # o

IsFree(o) ==
    Cardinality(Retained) < MaxLeases /\ \A l \in Retained : l.object # o

(* A random id nobody has heard of.                                         *)
InUse ==
    {l.id : l \in leases} \cup {lease[c] : c \in Clients}
        \cup {request[s].lease : s \in Slots \ Free} \cup {result[s] : s \in Slots}

NewId == CHOOSE id \in LeaseIds \ InUse : TRUE

(* Fault: a write needs no live lease.                                      *)
CoversAnything(id) == TRUE

(* The lease of a goal, and the lease of the store, cover the goal.         *)
Covers(id) == \E l \in Retained : l.id = id

(* The result file is written and the packet removed - or not, and then the *)
(* request, already executed, is executed again.                            *)
Reply(s, reply) ==
    \/ /\ IF Abandoned(s)
          THEN Consume(s)
          ELSE result' = [result EXCEPT ![s] = reply] /\ UNCHANGED request
       /\ UNCHANGED faults
    \/ Fault /\ UNCHANGED queue

IsQueued(s) == request[s] # None /\ result[s] = None

CanServe(s, kind) == IsQueued(s) /\ request[s].left > 0 /\ request[s].kind = kind

ServeExpired(s) ==
    /\ IsQueued(s) /\ request[s].left = 0
    /\ Reply(s, "error")
    /\ UNCHANGED <<leases, file, process, count, acked, lost>>

ServeAcquire(s) ==
    /\ CanServe(s, "acquire")
    /\ LeaseIds \ InUse # {}      \* always so when LeaseIds is large enough
    /\ LET o == request[s].object
       IN IF IsFree(o)
          THEN /\ leases' = Retained \cup {[id |-> NewId, object |-> o, left |-> LeaseTime]}
               /\ Reply(s, NewId)
          ELSE /\ leases' = Retained
               /\ Reply(s, "error")
    /\ UNCHANGED <<file, process, count, acked, lost>>

(* A lease that is not there counts as released.                            *)
ServeRelease(s) ==
    /\ CanServe(s, "release")
    /\ leases' = {l \in Retained : l.id # request[s].lease}
    /\ Reply(s, "ok")
    /\ UNCHANGED <<file, process, count, acked, lost>>

ServeRenew(s) ==
    /\ CanServe(s, "renew")
    /\ leases' = {IF l.id = request[s].lease THEN [l EXCEPT !.left = LeaseTime] ELSE l :
                     l \in Retained}
    /\ Reply(s, IF Covers(request[s].lease) THEN "ok" ELSE "error")
    /\ UNCHANGED <<file, process, count, acked, lost>>

(* Fault: the bytes are replaced whatever they are.                         *)
MayReplaceAny(expected) == TRUE

MayReplace(expected) == file = expected

(* Bytes that are there already are not written again.                      *)
ServeWrite(s) ==
    /\ CanServe(s, "write")
    /\ LET r      == request[s]
           same   == file = r.value
           writes == Covers(r.lease) /\ ~same /\ MayReplace(r.expected)
       IN /\ file' = IF writes THEN r.value ELSE file
          /\ Reply(s, IF Covers(r.lease) /\ (writes \/ same) THEN "ok" ELSE "error")
    /\ leases' = Retained
    /\ UNCHANGED <<process, count, acked, lost>>

(* The worker dies and is restarted: its leases are forgotten.              *)
Restart ==
    /\ Fault
    /\ leases' = {}
    /\ lost' = [c \in Clients |-> lost[c] \/ pc[c] \in Inside]
    /\ UNCHANGED <<queue, file, process, count, acked>>

Executes(s) ==
    \/ ServeExpired(s) \/ ServeAcquire(s) \/ ServeRelease(s) \/ ServeRenew(s) \/ ServeWrite(s)

----------------------------------------------------------------------------
Older(n) == IF n > 0 THEN n - 1 ELSE 0

Waiting == {s \in Slots : IsQueued(s)}

(* Time passes.  The worker looks at its queue many times a second, so a    *)
(* request that outlives its validity in the queue is a fault.              *)
Tick ==
    /\ IF \E s \in Waiting : request[s].left = 1 THEN Fault ELSE UNCHANGED faults
    /\ leases' = {[l EXCEPT !.left = Older(@)] : l \in leases}
    /\ request' = [s \in Slots |-> IF s \in Waiting
                                   THEN [request[s] EXCEPT !.left = Older(@)]
                                   ELSE request[s]]
    /\ lost' = [c \in Clients |->
                   lost[c] \/ \E l \in leases : l.id = lease[c] /\ l.left <= 1]
    /\ UNCHANGED <<result, file, process, count, acked>>

Next ==
    \/ \E c \in Clients :
          \/ Process(c) \/ TimesOut(c) \/ ReleaseFails(c) \/ Die(c) \/ RenewalTimesOut(c)
    \/ \E s \in Slots : Executes(s)
    \/ Restart \/ Tick

Spec == Init /\ [][Next]_vars

(* A batch takes every queued request, so each one's turn comes; results    *)
(* are read; time passes; and a process that is not inside asks again.      *)
Fairness ==
    /\ \A s \in Slots : SF_vars(Executes(s))
    /\ WF_vars(Tick)
    /\ \A c \in Clients :
          /\ WF_vars(Granted(c)) /\ WF_vars(Refused(c)) /\ WF_vars(Renewed(c))
          /\ WF_vars(\E o \in Objects : Acquire(c, o))

FairSpec == Spec /\ Fairness

----------------------------------------------------------------------------
Results == {"ok", "error"} \cup LeaseIds

TypeOK ==
    /\ leases \subseteq Leases /\ Cardinality(leases) <= MaxLeases
    /\ request \in [Slots -> Requests \cup {None}]
    /\ result \in [Slots -> Results \cup {None}]
    /\ file \subseteq Changes
    /\ pc \in [Clients -> Inside \cup {"idle", "acquiring"}]
    /\ object \in [Clients -> Objects \cup {None}]
    /\ lease \in [Clients -> LeaseIds \cup {None}]
    /\ waits \in [Clients -> Slots \cup {None}] /\ renewal \in [Clients -> Slots \cup {None}]
    /\ renewing \in [Clients -> BOOLEAN]
    /\ seen \in [Clients -> (SUBSET Changes) \cup {Unread}]
    /\ count \in [Clients -> 0..MaxWrites] /\ acked \subseteq Changes
    /\ lost \in [Clients -> BOOLEAN] /\ faults \in 0..MaxFaults

(* A change that was reported as written is never lost: not to the holder   *)
(* of the other lock that covers the goal, not to a request that is         *)
(* executed late or a second time, and not to a worker that forgot its      *)
(* leases.                                                                  *)
AcknowledgedChangesStay == acked \subseteq file

(* Two processes are inside the same lock only if one of them lost its      *)
(* lease to its expiry or to a restart of the worker - never because of a   *)
(* late release or renewal, or a grant to somebody who had given up.        *)
ExclusiveUnlessLost ==
    \A c, d \in Clients :
        c # d /\ pc[c] \in Inside /\ pc[d] \in Inside /\ object[c] = object[d]
            => lost[c] \/ lost[d]

(* A lease is a fence: while a process is inside a lock and its lease lives, *)
(* no write asked for under an earlier lease of that lock changes the file, *)
(* however long it was queued.                                              *)
Fenced(r) ==
    \A c \in Clients :
        pc[c] \in Inside /\ object[c] = r.object /\ lease[c] # r.lease => lost[c]

WritesAreFenced ==
    [][file' # file =>
          \E s \in Slots : /\ IsQueued(s) /\ request[s].kind = "write"
                           /\ request[s].value = file' /\ Fenced(request[s])]_vars

(* Whatever was given up, lost or left behind - a lease granted to nobody,  *)
(* a release that was never queued, a restart - some process gets its lock  *)
(* again and again.                                                         *)
LocksComeBack == []<>(\E c \in Clients : pc[c] \in Inside)
=============================================================================
