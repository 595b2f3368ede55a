----------------------------- MODULE WorkerQueue -----------------------------
(* The request queue of the global worker and what it does with a packet    *)
(* (crates/codex-global-execution/src/global_execution/worker.rs with        *)
(* client.rs and native.rs).  A client uploads a packet and renames it into  *)
(* the queue; each cycle lists the queue, handles a bounded batch in name    *)
(* order, writes one immutable result per request and consumes the packet.   *)
(* A commit that stops half-way keeps its failed result for ever; only a     *)
(* recovery request with an id of its own can complete it.                   *)
(*                                                                          *)
(* A request stands for its bytes: "own" is what the client of that id sent, *)
(* "other" any other content under the same name.  GitPublication has the    *)
(* publication in full, StateLedger the ledger; here they are the few steps  *)
(* between which the worker can die.                                         *)
EXTENDS FiniteSetsExt

CONSTANTS
    States,       \* ids of state mutations
    Commits,      \* ids of commits
    Recoveries,   \* ids of recovery requests
    Original(_),  \* the commit a recovery request names
    None, Parent, Other,   \* none, and what the branch is when it is no commit of ours
    MaxEntries,   \* bound: entries a cycle accepts (4096 in the code)
    MaxPerCycle,  \* bound: requests a cycle handles (32 in the code)
    MaxFaults,    \* bound: deaths of a process and I/O errors
    MaxMeddles    \* bound: steps of time, of the user and of other programs

Ids == States \cup Commits \cup Recoveries
Effects == States \cup Commits      \* what the ledger keeps entries of

ASSUME ConstantsAssumption ==
    /\ Ids \subseteq Nat /\ {None, Parent, Other} \cap Ids = {}
    /\ States \cap Commits = {} /\ Effects \cap Recoveries = {}
    /\ \A r \in Recoveries : Original(r) \in Commits
    /\ {MaxEntries, MaxPerCycle, MaxFaults, MaxMeddles} \subseteq Nat

Transitions == [of : Effects, to : {"open", "applied", "done"}]

ASSUME NoneAssumption == None \notin Transitions

VARIABLES
    \* the queue directory
    uploads,     \* ids with a .upload file
    packet,      \* <id>.request.json: "none", "own" or "other" bytes
    \* the protected root
    result,      \* result-<id>.json: [bytes, verdict], or None
    ledger,      \* the entry of each effect: "none", "open", "applied", "done"
    pending,     \* the ledger's journal: [of, to], or None
    archive,     \* ids with a commit-request-<id>.json
    candidate,   \* candidate-<id>: "none", "partial" or "whole"
    \* the repository
    tip,         \* the branch: Parent, a commit of ours or Other
    half,        \* the commit whose publication is under way, or None
    edited,      \* the source differs from what the requests name
    \* the processes
    sender,      \* each client: "new", "uploading" or "over"
    batch,       \* names this cycle still has to look at
    count,       \* requests this cycle has handled
    run,         \* the request in process() and the step it is at
    \* the world
    marker,      \* kernel-maintenance.json exists
    expired,     \* ids whose 120 seconds are over
    faults, meddles

queue      == <<uploads, packet>>
book       == <<ledger, pending>>
evidence   == <<archive, candidate>>
repository == <<tip, half>>
cycle      == <<batch, count>>
world      == <<edited, marker, expired, meddles>>
vars == <<queue, result, book, evidence, repository, sender, cycle, run, world, faults>>

Idle == [at |-> "idle", name |-> None, bytes |-> "none", of |-> None,
         granted |-> FALSE, verdict |-> "none"]

(* Commits of a worker that did not retain requests yet may be open.        *)
Init ==
    /\ uploads = {} /\ packet = [i \in Ids |-> "none"]
    /\ result = [i \in Ids |-> None]
    /\ \E legacy \in SUBSET Commits :
          /\ ledger = [e \in Effects |-> IF e \in legacy THEN "open" ELSE "none"]
          /\ candidate = [c \in Commits |-> IF c \in legacy THEN "whole" ELSE "none"]
          /\ sender = [i \in Ids |-> IF i \in legacy THEN "over" ELSE "new"]
    /\ pending = None /\ archive = {}
    /\ tip = Parent /\ half = None /\ edited = FALSE
    /\ batch = {} /\ count = 0 /\ run = Idle
    /\ marker = FALSE /\ expired = {} /\ faults = 0 /\ meddles = 0

----------------------------------------------------------------------------
me == run.name
effect == run.of

Go(step) == run' = [run EXCEPT !.at = step]

Reply(verdict) == run' = [run EXCEPT !.at = "reply", !.verdict = verdict]

At(step) == run.at = step

(* recover_locked: a journaled transition is completed first.               *)
Recovered == IF pending = None THEN ledger ELSE [ledger EXCEPT ![pending.of] = pending.to]

Entries == Cardinality(uploads) + Cardinality({i \in Ids : packet[i] # "none"})

----------------------------------------------------------------------------
(* Client::submit, with the checks of prepare_commit_recovery_request: a    *)
(* recovery is for an intent on record whose candidate is whole.  The source *)
(* named is the one that is there.                                          *)
Upload(i) ==
    /\ sender[i] = "new" /\ ~marker /\ ~edited
    /\ i \in Recoveries => /\ candidate[Original(i)] = "whole"
                           /\ ledger[Original(i)] \in {"open", "done"}
    /\ result[i] = None /\ packet[i] = "none"
    /\ uploads' = uploads \cup {i}
    /\ sender' = [sender EXCEPT ![i] = "uploading"]
    /\ UNCHANGED <<packet, result, book, evidence, repository, cycle, run, world, faults>>

(* MoveFileW replaces nothing: a name taken meanwhile leaves the upload.    *)
Enqueue(i) ==
    /\ sender[i] = "uploading"
    /\ sender' = [sender EXCEPT ![i] = "over"]
    /\ IF packet[i] = "none"
       THEN packet' = [packet EXCEPT ![i] = "own"] /\ uploads' = uploads \ {i}
       ELSE UNCHANGED queue
    /\ UNCHANGED <<result, book, evidence, repository, cycle, run, world, faults>>

(* Nothing ever removes the upload of a client that died.                   *)
ClientDies(i) ==
    /\ sender[i] = "uploading" /\ faults < MaxFaults
    /\ sender' = [sender EXCEPT ![i] = "over"]
    /\ faults' = faults + 1
    /\ UNCHANGED <<queue, result, book, evidence, repository, cycle, run, world>>

----------------------------------------------------------------------------
(* cycle_with_clock lists the queue; too many entries end it at once.       *)
Cycle ==
    /\ At("idle") /\ ~marker
    /\ \E i \in Ids : packet[i] # "none"
    /\ Entries <= MaxEntries
    /\ batch' = {i \in Ids : packet[i] # "none"} /\ count' = 0
    /\ Go("scan")
    /\ UNCHANGED <<queue, result, book, evidence, repository, sender, world, faults>>

Next1 == Min(batch)

Scanning == At("scan") /\ batch # {} /\ count < MaxPerCycle

EndCycle ==
    /\ At("scan") /\ (batch = {} \/ count >= MaxPerCycle)
    /\ batch' = {} /\ count' = 0
    /\ Go("idle")
    /\ UNCHANGED <<queue, result, book, evidence, repository, sender, world, faults>>

Answered(i) == result[i] # None

(* Fault: packets that are already answered use up the batch.               *)
CleanCounted ==
    /\ Scanning /\ Answered(Next1)
    /\ packet' = IF packet[Next1] = result[Next1].bytes
                 THEN [packet EXCEPT ![Next1] = "none"] ELSE packet
    /\ batch' = batch \ {Next1} /\ count' = count + 1
    /\ UNCHANGED <<uploads, result, book, evidence, repository, sender, run, world, faults>>

(* A packet with the answered bytes is consumed; different bytes under an   *)
(* answered name are reported and left.  Neither counts.                    *)
CleanAnswered ==
    /\ Scanning /\ Answered(Next1)
    /\ packet' = IF packet[Next1] = result[Next1].bytes
                 THEN [packet EXCEPT ![Next1] = "none"] ELSE packet
    /\ batch' = batch \ {Next1}
    /\ UNCHANGED <<uploads, result, book, evidence, repository, sender, count, run,
                   world, faults>>

Vanished ==
    /\ Scanning /\ ~Answered(Next1) /\ packet[Next1] = "none"
    /\ batch' = batch \ {Next1}
    /\ UNCHANGED <<queue, result, book, evidence, repository, sender, count, run,
                   world, faults>>

(* The packet could not be read, or its cleanup is deferred.                *)
Defer ==
    /\ Scanning /\ faults < MaxFaults
    /\ batch' = batch \ {Next1}
    /\ faults' = faults + 1
    /\ UNCHANGED <<queue, result, book, evidence, repository, sender, count, run, world>>

(* Only bytes that decode to a request of that name reach process().        *)
Take ==
    /\ Scanning /\ ~Answered(Next1) /\ packet[Next1] # "none"
    /\ LET i == Next1
           started == [Idle EXCEPT !.name = i, !.bytes = packet[i],
                                   !.of = IF i \in Recoveries THEN Original(i) ELSE i]
       IN run' = IF packet[i] = "own" THEN [started EXCEPT !.at = "process"]
                 ELSE [started EXCEPT !.at = "reply", !.verdict = "failed"]
    /\ batch' = batch \ {Next1}
    /\ UNCHANGED <<queue, result, book, evidence, repository, sender, count, world, faults>>

----------------------------------------------------------------------------
(* Worker::process.  What is on record is answered from the record and      *)
(* needs no validity any more; a new request must be in time.               *)
Fresh(i) == i \notin expired

(* Fault: the validity of a request on record is checked again.             *)
AdmissibleInTime(i) == Fresh(i) /\ ~edited

(* An open intent continues whatever its age, but not on other source.      *)
Admissible(i) == (ledger[i] = "none" => Fresh(i)) /\ ~edited

Settled(i) == ledger[i] \in {"applied", "done"}

ProcessOwn ==
    /\ At("process") /\ me \notin Recoveries
    /\ \/ marker /\ Reply("failed")
       \/ ~marker /\ Settled(me) /\ Reply(ledger[me])
       \/ ~marker /\ ~Settled(me) /\ ~Admissible(me) /\ Reply("failed")
       \/ ~marker /\ ~Settled(me) /\ Admissible(me)
            /\ Go(IF me \in Commits THEN "retain" ELSE "accept")
    /\ UNCHANGED <<queue, result, book, evidence, repository, sender, cycle, world, faults>>

(* RecoverCommit: a valid request, the source it names, an intent on record *)
(* that has not failed and the reviewed candidate.                          *)
Recoverable ==
    /\ ~marker /\ Fresh(me) /\ ~edited
    /\ ledger[effect] \in {"open", "done"}
    /\ candidate[effect] = "whole"

ProcessRecovery ==
    /\ At("process") /\ me \in Recoveries
    /\ IF Recoverable THEN Go("retain") ELSE Reply("failed")
    /\ UNCHANGED <<queue, result, book, evidence, repository, sender, cycle, world, faults>>

(* Fault: the request is not retained.                                      *)
RetainNothing ==
    /\ At("retain")
    /\ \/ me \in Commits /\ Go("accept")
       \/ me \in Recoveries /\ Go("nested")
    /\ UNCHANGED <<queue, result, book, evidence, repository, sender, cycle, world, faults>>

(* retain_commit_request.  A recovery goes on with the retained original,   *)
(* or, when there is none, with recover_legacy_commit.                      *)
Retain ==
    /\ At("retain")
    /\ archive' = archive \cup {me}
    /\ \/ me \in Commits /\ Go("accept")
       \/ me \in Recoveries /\ effect \in archive /\ Go("nested")
       \/ me \in Recoveries /\ effect \notin archive /\ ledger[effect] = "open" /\ Go("publish")
       \/ me \in Recoveries /\ effect \notin archive /\ Settled(effect) /\ Reply(ledger[effect])
    /\ UNCHANGED <<queue, result, book, candidate, repository, sender, cycle, world, faults>>

(* process(original_bytes) inside the recovery.                             *)
ProcessOriginal ==
    /\ At("nested")
    /\ \/ marker /\ Reply("failed")
       \/ ~marker /\ Settled(effect) /\ Reply(ledger[effect])
       \/ ~marker /\ ~Settled(effect) /\ ~Admissible(effect) /\ Reply("failed")
       \/ ~marker /\ ~Settled(effect) /\ Admissible(effect) /\ Go("accept")
    /\ UNCHANGED <<queue, result, book, evidence, repository, sender, cycle, world, faults>>

(* StateStorage::accept.  The journal of an earlier transition is completed *)
(* first; an entry that is there then is a replay.                          *)
AcceptReplay ==
    /\ At("accept") /\ Recovered[effect] # "none"
    /\ ledger' = Recovered /\ pending' = None
    /\ IF Recovered[effect] = "open" THEN Go("publish") ELSE Reply(Recovered[effect])
    /\ UNCHANGED <<queue, result, evidence, repository, sender, cycle, world, faults>>

AcceptNew ==
    /\ At("accept") /\ Recovered[effect] = "none"
    /\ ledger' = Recovered
    /\ pending' = [of |-> effect, to |-> IF effect \in Commits THEN "open" ELSE "applied"]
    /\ Go("accepting")
    /\ UNCHANGED <<queue, result, evidence, repository, sender, cycle, world, faults>>

Accepted ==
    /\ At("accepting")
    /\ ledger' = Recovered /\ pending' = None
    /\ IF effect \in Commits
       THEN run' = [run EXCEPT !.at = "prepare", !.granted = TRUE]
       ELSE Reply("applied")
    /\ UNCHANGED <<queue, result, evidence, repository, sender, cycle, world, faults>>

(* prepare_commit runs once, for the run that was granted the effect; its   *)
(* directory is created exclusively.                                        *)
Prepare ==
    /\ At("prepare")
    /\ IF tip = Parent /\ ~edited /\ candidate[effect] = "none"
       THEN candidate' = [candidate EXCEPT ![effect] = "partial"] /\ Go("build")
       ELSE Reply("failed") /\ UNCHANGED candidate
    /\ UNCHANGED <<queue, result, book, archive, repository, sender, cycle, world, faults>>

Build ==
    /\ At("build")
    /\ candidate' = [candidate EXCEPT ![effect] = "whole"]
    /\ Go("publish")
    /\ UNCHANGED <<queue, result, book, archive, repository, sender, cycle, world, faults>>

(* publish_commit and recover_admitted_commit publish what was prepared or  *)
(* resume it; a branch that is the commit already needs nothing more.       *)
CanPublish == /\ candidate[effect] = "whole"
              /\ tip = Parent /\ half \in {None, effect} /\ ~edited

Publish ==
    /\ At("publish")
    /\ \/ candidate[effect] = "whole" /\ tip = effect /\ Go("record") /\ UNCHANGED half
       \/ CanPublish /\ half' = effect /\ Go("move")
       \/ ~CanPublish /\ ~(candidate[effect] = "whole" /\ tip = effect)
            /\ Reply("failed") /\ UNCHANGED half
    /\ UNCHANGED <<queue, result, book, evidence, tip, sender, cycle, world, faults>>

Move ==
    /\ At("move")
    /\ tip' = effect /\ half' = None
    /\ Go("record")
    /\ UNCHANGED <<queue, result, book, evidence, sender, cycle, world, faults>>

(* record_effect_result, journaled like accept.                             *)
Record ==
    /\ At("record")
    /\ ledger' = Recovered
    /\ pending' = [of |-> effect, to |-> "done"]
    /\ Go("recording")
    /\ UNCHANGED <<queue, result, evidence, repository, sender, cycle, world, faults>>

RecordApplied ==
    /\ At("recording")
    /\ ledger' = Recovered /\ pending' = None
    /\ Reply("done")
    /\ UNCHANGED <<queue, result, evidence, repository, sender, cycle, world, faults>>

WriteResult ==
    /\ At("reply")
    /\ result' = [result EXCEPT ![me] = [bytes |-> run.bytes, verdict |-> run.verdict]]
    /\ count' = count + 1
    /\ Go("consume")
    /\ UNCHANGED <<queue, book, evidence, repository, sender, batch, world, faults>>

(* consume_packet deletes only the bytes this cycle read.                   *)
Consume ==
    /\ At("consume")
    /\ packet' = IF packet[me] = run.bytes THEN [packet EXCEPT ![me] = "none"] ELSE packet
    /\ run' = [Idle EXCEPT !.at = "scan"]
    /\ UNCHANGED <<uploads, result, book, evidence, repository, sender, cycle, world, faults>>

----------------------------------------------------------------------------
Working == {"process", "retain", "nested", "accept", "accepting", "prepare", "build",
            "publish", "move", "record", "recording"}

(* A step of the work fails: the request is answered with the error.        *)
StepFails ==
    /\ run.at \in Working /\ faults < MaxFaults
    /\ Reply("failed")
    /\ faults' = faults + 1
    /\ UNCHANGED <<queue, result, book, evidence, repository, sender, cycle, world>>

(* The result cannot be written: the cycle ends and the next one starts     *)
(* over with the same packet.                                               *)
WriteFails ==
    /\ At("reply") /\ faults < MaxFaults
    /\ run' = Idle /\ batch' = {} /\ count' = 0
    /\ faults' = faults + 1
    /\ UNCHANGED <<queue, result, book, evidence, repository, sender, world>>

ConsumeFails ==
    /\ At("consume") /\ faults < MaxFaults
    /\ run' = [Idle EXCEPT !.at = "scan"]
    /\ faults' = faults + 1
    /\ UNCHANGED <<queue, result, book, evidence, repository, sender, cycle, world>>

WorkerDies ==
    /\ ~At("idle") /\ faults < MaxFaults
    /\ run' = Idle /\ batch' = {} /\ count' = 0
    /\ faults' = faults + 1
    /\ UNCHANGED <<queue, result, book, evidence, repository, sender, world>>

----------------------------------------------------------------------------
Meddle ==
    /\ meddles < MaxMeddles /\ meddles' = meddles + 1
    /\ UNCHANGED <<uploads, result, book, evidence, half, sender, cycle, run, faults>>

(* Every request sent so far runs out of its time.                          *)
TimePasses ==
    /\ Meddle
    /\ expired' = {i \in Ids : sender[i] # "new"}
    /\ UNCHANGED <<packet, tip, edited, marker>>

UserEdits ==
    /\ Meddle
    /\ edited' = ~edited
    /\ UNCHANGED <<packet, tip, marker, expired>>

(* The locks of a half publication keep other commits out.                  *)
UserCommits ==
    /\ Meddle
    /\ half = None /\ tip # Other
    /\ tip' = Other
    /\ UNCHANGED <<packet, edited, marker, expired>>

(* Something else puts a malformed or conflicting packet under a name, or   *)
(* takes one away.                                                          *)
Intrude(i) ==
    /\ Meddle
    /\ \E bytes \in {"none", "other"} \ {packet[i]} :
          packet' = [packet EXCEPT ![i] = bytes]
    /\ UNCHANGED <<tip, edited, marker, expired>>

(* A kernel upgrade raises its marker and takes it down.                    *)
Maintain ==
    /\ Meddle
    /\ marker' = ~marker
    /\ UNCHANGED <<packet, tip, edited, expired>>

----------------------------------------------------------------------------
Work ==
    \/ Cycle \/ EndCycle \/ CleanAnswered \/ Vanished \/ Take
    \/ ProcessOwn \/ ProcessRecovery \/ Retain \/ ProcessOriginal
    \/ AcceptReplay \/ AcceptNew \/ Accepted \/ Prepare \/ Build
    \/ Publish \/ Move \/ Record \/ RecordApplied \/ WriteResult \/ Consume

Faults == Defer \/ StepFails \/ WriteFails \/ ConsumeFails \/ WorkerDies

Next ==
    \/ Work \/ Faults
    \/ \E i \in Ids : Upload(i) \/ Enqueue(i) \/ ClientDies(i) \/ Intrude(i)
    \/ TimePasses \/ UserEdits \/ UserCommits \/ Maintain

Spec == Init /\ [][Next]_vars

(* serve() cycles for ever and is started again when it dies.               *)
FairSpec == Spec /\ WF_vars(Work)

----------------------------------------------------------------------------
TypeOK ==
    /\ uploads \subseteq Ids
    /\ packet \in [Ids -> {"none", "own", "other"}]
    /\ \A i \in Ids : result[i] = None \/
          result[i] \in [bytes : {"own", "other"}, verdict : {"applied", "done", "failed"}]
    /\ ledger \in [Effects -> {"none", "open", "applied", "done"}]
    /\ pending = None \/ pending \in Transitions
    /\ archive \subseteq Commits \cup Recoveries
    /\ candidate \in [Commits -> {"none", "partial", "whole"}]
    /\ tip \in {Parent, Other} \cup Commits /\ half \in Commits \cup {None}
    /\ sender \in [Ids -> {"new", "uploading", "over"}]
    /\ batch \subseteq Ids /\ count \in 0..MaxPerCycle
    /\ expired \subseteq Ids

(* A published answer tells the truth whatever died on the way: success is  *)
(* told only of the bytes that were sent, of an effect the ledger has       *)
(* settled; the branch is half-moved or moved only for an intent that is    *)
(* durable; and a commit on record keeps the evidence its recovery needs -  *)
(* its request is retained, or it is of an older worker and prepared.       *)
AnswersAreTrue ==
    /\ \A i \in Ids : Answered(i) /\ result[i].verdict # "failed" =>
          /\ result[i].bytes = "own"
          /\ ledger[IF i \in Recoveries THEN Original(i) ELSE i] = result[i].verdict
    /\ \A c \in Commits :
          /\ c \in {tip, half} => Recovered[c] \in {"open", "done"}
          /\ Recovered[c] # "none" => c \in archive \/ candidate[c] = "whole"

(* A packet under a name that other bytes were answered for.                *)
Conflicting(i) == Answered(i) /\ result[i].bytes = "other"

(* The queue is emptied: a client's packet is answered and consumed however *)
(* many conflicting packets stay and whatever dies, as long as the queue is *)
(* not over its capacity and no maintenance holds the worker.               *)
QueueDrains ==
    \A i \in Ids :
        packet[i] = "own" ~> \/ packet[i] # "own" \/ Conflicting(i)
                             \/ marker \/ Entries > MaxEntries

(* Nothing more happens but the worker's own steps.                         *)
Quiet == faults = MaxFaults /\ meddles = MaxMeddles

(* The failed result of an interrupted commit is final, but the commit is   *)
(* not lost: a recovery request in time, on the reviewed source, with the   *)
(* branch where it was or already moved, completes the open intent - also   *)
(* long after the original request has expired.                             *)
RecoveryCompletesIntent ==
    \A r \in Recoveries :
        LET c == Original(r) IN
        (/\ Quiet /\ At("idle") /\ ~marker /\ ~edited
         /\ packet[r] = "own" /\ ~Answered(r) /\ Fresh(r)
         /\ ledger[c] = "open" /\ candidate[c] = "whole"
         /\ tip \in {Parent, c} /\ half \in {None, c}
         /\ Cardinality(Ids) + Cardinality(uploads) <= MaxEntries)
        ~> ledger[c] = "done"
=============================================================================
