--------------------------- MODULE GoalLifecycle ---------------------------
(* The goals of a workspace (crates/rayman/src/goal.rs and goal/): a goal is *)
(* started at a baseline of the files, its plan is published before the      *)
(* first change, validations record receipts bound to one fingerprint of the *)
(* files, and the goal is closed, archived, superseded, restored or          *)
(* quarantined.  Every command locks the goal file it writes; what it reads  *)
(* besides (the workspace, another goal, pending.json) is not locked, except *)
(* that a quarantine keeps the lock of pending.json.                         *)
(*                                                                           *)
(* A file has one of two contents, a fingerprint is the content of all       *)
(* files, and hashes are exact.  A command under the lock of its goal is one *)
(* step unless something it read earlier is used by a later one.  Goals have *)
(* the current schema; must requirements (duties) have the generic proof     *)
(* kind; legacy migrations, reviews, work packages, lanes, handoffs and      *)
(* authority receipts are not modelled.                                      *)
EXTENDS Naturals, FiniteSets

CONSTANTS
    Goals,
    Duties,       \* must requirements, by their text
    Musts,        \* the duties of each goal
    Paths,
    Lists,        \* the lists of paths that commands declare
    Items,        \* pending items
    GoalOf,       \* the goal an item is bound to
    Owner,        \* "agent", "human", "urgent" (a human, at once) or "external"
    Agents,       \* processes that run rayman commands
    None,
    MaxEdits,     \* bound: changes of files
    MaxCommands   \* bound: commands on goals

ASSUME ConstantsAssumption ==
    /\ Musts \in [Goals -> (SUBSET Duties) \ {{}}]
    /\ GoalOf \in [Items -> Goals]
    /\ Owner \in [Items -> {"agent", "human", "urgent", "external"}]
    /\ Lists \subseteq SUBSET Paths /\ None \notin Goals
    /\ MaxEdits \in Nat /\ MaxCommands \in Nat

Contents == [Paths -> 0 .. 1]
Runs == [duty : Duties, at : Contents, scope : SUBSET Paths]
Intents == [paths : SUBSET Paths, at : Contents]

VARIABLES
    files,     \* the workspace
    goals,     \* the goal files
    pending,   \* pending.json: each item is "unused", "open" or "resolved"
    agents,    \* the command each agent is running
    early,     \* ghost, per goal: changed files no plan had named when they changed
    edits, commands

vars == <<files, goals, pending, agents, early, edits, commands>>

(* plan: the committed paths, {} without a plan receipt; intent: the write-  *)
(* ahead intent.  writes: updated_at, which every write moves to the present *)
(* microsecond, and never back.                                              *)
GoalRecords ==
    [status : {"active", "success", "partial", "blocked"},
     life : {"current", "archived", "superseded"},
     by : Goals \cup {None},
     trusted : BOOLEAN,
     base : Contents,
     plan : SUBSET Paths,
     intent : Intents \cup {None},
     runs : SUBSET Runs,
     claims : SUBSET (Duties \X Paths),
     writes : Nat]

ASSUME NoneAssumption == None \notin GoalRecords /\ None \notin Intents

Idle == [op |-> "idle", goal |-> None, paths |-> {}, at |-> None, seen |-> None]
Holding == {"publish", "confirm", "commit", "quarantine"}

TypeOK ==
    /\ files \in Contents
    /\ \A g \in Goals : goals[g] = None \/ goals[g] \in GoalRecords
    /\ pending \in [Items -> {"unused", "open", "resolved"}]
    /\ \A a \in Agents :
         /\ agents[a].op \in Holding \cup {"idle", "run", "record", "supersede"}
         /\ agents[a].goal \in Goals \cup {None}
         /\ agents[a].seen = None \/ agents[a].seen \in GoalRecords
    /\ early \in [Goals -> SUBSET Paths]
    /\ edits \in 0 .. MaxEdits /\ commands \in 0 .. MaxCommands

Init ==
    /\ files = [p \in Paths |-> 0]
    /\ goals = [g \in Goals |-> None]
    /\ pending = [i \in Items |-> "unused"]
    /\ agents = [a \in Agents |-> Idle]
    /\ early = [g \in Goals |-> {}]
    /\ edits = 0 /\ commands = 0

----------------------------------------------------------------------------
(* What the records say                                                      *)

Started(g) == goals[g] # None
Current(rec) == rec # None /\ rec.life = "current"

(* An unfinished publication spoils the contract, but not that of a goal     *)
(* retired as partial or blocked.                                            *)
SchemaOK(rec) ==
    rec.intent = None \/ (rec.life = "archived" /\ rec.status \in {"partial", "blocked"})

Delta(rec, at) == {p \in Paths : at[p] # rec.base[p]}

(* goal_plan_delta: two changed files need a plan, and a plan must name all. *)
Planned(rec, at) ==
    IF rec.plan = {} THEN Cardinality(Delta(rec, at)) < 2 ELSE Delta(rec, at) \subseteq rec.plan

RunsAt(rec, at) == {run \in rec.runs : run.at = at}
Impacts(rec) == rec.claims \cup UNION {{run.duty} \X run.scope : run \in rec.runs}

(* Every duty, and every path it was said to touch, has a receipt at the     *)
(* same fingerprint.                                                         *)
ReceiptsCover(rec, g, at) ==
    /\ \A d \in Musts[g] : \E run \in RunsAt(rec, at) : run.duty = d
    /\ \A impact \in Impacts(rec) :
         \E run \in RunsAt(rec, at) : run.duty = impact[1] /\ impact[2] \in run.scope

(* No gap of goal_success_receipt_gaps at this fingerprint                   *)
Proven(rec, g, at) ==
    /\ SchemaOK(rec) /\ ReceiptsCover(rec, g, at)
    /\ Planned(rec, at)
    /\ Delta(rec, at) \subseteq UNION {run.scope : run \in RunsAt(rec, at)}

(* historical_success_fingerprint: an earlier fingerprint serves as well.    *)
Historical(rec, g) == \E run \in rec.runs : ReceiptsCover(rec, g, run.at)

Open(g) == {i \in Items : GoalOf[i] = g /\ pending[i] = "open"}

----------------------------------------------------------------------------
(* Locks, and the helpers of the commands                                    *)

Locked(g) == \E a \in Agents : agents[a].op \in Holding /\ agents[a].goal = g
PendingLocked == \E a \in Agents : agents[a].op = "quarantine"

(* Goal g is loaded under its lock, by a process that has nothing else to do *)
Opens(g) == Started(g) /\ ~Locked(g)
Begins(a, g) == agents[a] = Idle /\ Opens(g)

Counts == commands < MaxCommands /\ commands' = commands + 1
Run(a, command) == agents' = [agents EXCEPT ![a] = command]
Ends(a) == Run(a, Idle)
Stamped(rec) == [rec EXCEPT !.writes = @ + 1]
Write(g, rec) == goals' = [goals EXCEPT ![g] = Stamped(rec)]

(* The process dies or the command gives up; the system frees its locks.     *)
Dies(a) ==
    /\ agents[a] # Idle
    /\ Ends(a)
    /\ UNCHANGED <<files, goals, pending, early, edits, commands>>

----------------------------------------------------------------------------
(* Start, and the plan                                                       *)

Start(g) ==
    /\ Counts
    /\ ~Started(g)
    /\ Write(g, [status |-> "active", life |-> "current", by |-> None, trusted |-> FALSE,
                 base |-> files, plan |-> {}, intent |-> None, runs |-> {},
                 claims |-> {}, writes |-> 0])
    /\ UNCHANGED <<files, pending, agents, early, edits>>

Plannable(a, g) == Begins(a, g) /\ goals[g].status = "active" /\ Current(goals[g])

Precheck(a, g, paths) ==
    /\ Counts
    /\ Run(a, [Idle EXCEPT !.op = "publish", !.goal = g, !.paths = paths, !.at = files])
    /\ UNCHANGED <<files, goals, pending, early, edits>>

BeginPlan(a, g, paths) ==
    /\ Plannable(a, g)
    /\ goals[g].plan = {} /\ goals[g].intent = None /\ paths # {}
    /\ files = goals[g].base
    /\ Precheck(a, g, paths)

BeginExtension(a, g, paths) ==
    LET rec == goals[g]  added == paths \ rec.plan IN
    /\ Plannable(a, g)
    /\ rec.plan # {} /\ rec.intent = None /\ added # {}
    /\ Delta(rec, files) \subseteq rec.plan
    /\ \A p \in added : files[p] = rec.base[p]
    /\ Precheck(a, g, rec.plan \cup added)

(* The same plan again, over the files its precheck had seen                 *)
RetryWhenFilesMatch(g) == files = goals[g].intent.at
RetryPlan(a, g) ==
    /\ Counts
    /\ Plannable(a, g)
    /\ goals[g].intent # None
    /\ RetryWhenFilesMatch(g)
    /\ Run(a, [Idle EXCEPT !.op = "commit", !.goal = g])
    /\ UNCHANGED <<files, goals, pending, early, edits>>

PublishPlan(a) ==
    LET g == agents[a].goal IN
    /\ agents[a].op = "publish"
    /\ Write(g, [goals[g] EXCEPT !.intent = [paths |-> agents[a].paths, at |-> agents[a].at]])
    /\ Run(a, [agents[a] EXCEPT !.op = "confirm"])
    /\ UNCHANGED <<files, pending, early, edits, commands>>

(* A drift leaves the intent, and with it a contract no gate accepts.        *)
ConfirmNothing(a) == TRUE
Confirmed(a) == files = agents[a].at
ConfirmPlan(a) ==
    /\ agents[a].op = "confirm"
    /\ IF Confirmed(a) THEN Run(a, [agents[a] EXCEPT !.op = "commit"]) ELSE Ends(a)
    /\ UNCHANGED <<files, goals, pending, early, edits, commands>>

CommitPlan(a) ==
    LET g == agents[a].goal IN
    /\ agents[a].op = "commit"
    /\ Write(g, [goals[g] EXCEPT !.plan = goals[g].intent.paths, !.intent = None])
    /\ Ends(a)
    /\ UNCHANGED <<files, pending, early, edits, commands>>

----------------------------------------------------------------------------
(* Evidence and receipts                                                     *)

RecordEvidence(g, d, scope) ==
    /\ Counts
    /\ Opens(g) /\ Current(goals[g]) /\ goals[g].status # "success"
    /\ Write(g, [goals[g] EXCEPT !.claims = @ \cup ({d} \X scope)])
    /\ UNCHANGED <<files, pending, agents, early, edits>>

(* `goal validate` runs the command with no lock held, ...                   *)
BeginRun(a) ==
    /\ Counts
    /\ agents[a] = Idle /\ (\E g \in Goals : Started(g))
    /\ Run(a, [Idle EXCEPT !.op = "run", !.at = files])
    /\ UNCHANGED <<files, goals, pending, early, edits>>

EndRun(a) ==
    /\ agents[a].op = "run"
    /\ IF files = agents[a].at THEN Run(a, [agents[a] EXCEPT !.op = "record"]) ELSE Ends(a)
    /\ UNCHANGED <<files, goals, pending, early, edits, commands>>

(* ... and records what it saw, whatever the status has become meanwhile.    *)
(* No step before this one depends on its goal, duty and declared paths.     *)
RecordReceipt(a, g, d, scope) ==
    LET rec == goals[g] IN
    /\ agents[a].op = "record" /\ ~Locked(g)
    /\ Current(rec) /\ SchemaOK(rec)
    /\ Planned(rec, files)
    /\ rec.plan # {} => scope \subseteq rec.plan
    /\ Write(g, [rec EXCEPT !.runs =
                   @ \cup {[duty |-> d, at |-> agents[a].at, scope |-> scope]}])
    /\ Ends(a)
    /\ UNCHANGED <<files, pending, early, edits, commands>>

----------------------------------------------------------------------------
(* The end of a goal                                                         *)

CloseSuccess(g) ==
    /\ Counts
    /\ Opens(g) /\ Current(goals[g])
    /\ Proven(goals[g], g, files)
    /\ Write(g, [goals[g] EXCEPT !.status = "success"])
    /\ UNCHANGED <<files, pending, agents, early, edits>>

(* success is terminal; blocked needs a boundary that is nobody's but a      *)
(* human's or the outside's.                                                 *)
Closable(g) == goals[g].status # "success"
CloseUnfinished(g, status) ==
    /\ Counts
    /\ Opens(g) /\ Current(goals[g]) /\ Closable(g)
    /\ status = "blocked" => Open(g) # {} /\ \A i \in Open(g) : Owner[i] # "agent"
    /\ Write(g, [goals[g] EXCEPT !.status = status])
    /\ UNCHANGED <<files, pending, agents, early, edits>>

Archive(g) ==
    LET rec == goals[g] IN
    /\ Counts
    /\ Opens(g) /\ Current(rec) /\ rec.status # "active"
    /\ rec.status = "success" =>
         /\ SchemaOK(rec)
         /\ Proven(rec, g, files) \/ Historical(rec, g)
    /\ Write(g, [rec EXCEPT !.life = "archived", !.trusted = TRUE])
    /\ UNCHANGED <<files, pending, agents, early, edits>>

(* The replacement is read without its lock, ...                             *)
BeginSupersede(a, r) ==
    /\ Counts
    /\ agents[a] = Idle
    /\ Current(goals[r]) /\ SchemaOK(goals[r])
    /\ Run(a, [Idle EXCEPT !.op = "supersede", !.goal = r, !.seen = goals[r]])
    /\ UNCHANGED <<files, goals, pending, early, edits>>

TransferNothing(g, r) == TRUE
DutiesTransferred(g, r) ==
    \/ goals[g].status = "success" /\ Historical(goals[g], g)
    \/ Musts[g] \subseteq Musts[r]

(* ... and judged as it was read, under the lock of the goal it replaces.    *)
Supersede(a, g) ==
    LET r == agents[a].goal  seen == agents[a].seen IN
    /\ agents[a].op = "supersede" /\ g # r /\ ~Locked(g)
    /\ Current(goals[g]) /\ SchemaOK(goals[g])
    /\ seen.status = "success" /\ Proven(seen, r, files)
    /\ DutiesTransferred(g, r)
    /\ Write(g, [goals[g] EXCEPT !.life = "superseded", !.by = r, !.trusted = TRUE])
    /\ Ends(a)
    /\ UNCHANGED <<files, pending, early, edits, commands>>

Quarantined(rec) == rec.life = "archived" /\ ~rec.trusted

MarkCurrent(g) ==
    /\ Counts
    /\ Opens(g) /\ ~Current(goals[g]) /\ ~Quarantined(goals[g])
    /\ Write(g, [goals[g] EXCEPT !.life = "current", !.by = None, !.trusted = FALSE])
    /\ UNCHANGED <<files, pending, agents, early, edits>>

(* quarantine_invalid_history of a current success: nothing pending, and no  *)
(* archive would be trusted.  pending.json stays locked up to the write.     *)
BeginQuarantine(a, g) ==
    /\ Counts
    /\ Begins(a, g) /\ ~PendingLocked
    /\ Current(goals[g]) /\ goals[g].status = "success"
    /\ Open(g) = {}
    /\ Run(a, [Idle EXCEPT !.op = "quarantine", !.goal = g])
    /\ UNCHANGED <<files, goals, pending, early, edits>>

Quarantine(a) ==
    LET g == agents[a].goal  rec == goals[g] IN
    /\ agents[a].op = "quarantine"
    /\ SchemaOK(rec)
    /\ ~Proven(rec, g, files) /\ ~Historical(rec, g)
    /\ Write(g, [rec EXCEPT !.life = "archived", !.trusted = FALSE])
    /\ Ends(a)
    /\ UNCHANGED <<files, pending, early, edits, commands>>

----------------------------------------------------------------------------
(* Pending items, and the people who edit the files                          *)

PendingUnlocked == TRUE
PendingFree == ~PendingLocked
AddItem(i) ==
    /\ PendingFree
    /\ pending[i] = "unused"
    /\ pending' = [pending EXCEPT ![i] = "open"]
    /\ UNCHANGED <<files, goals, agents, early, edits, commands>>

ResolveItem(i) ==
    /\ PendingFree
    /\ pending[i] = "open"
    /\ pending' = [pending EXCEPT ![i] = "resolved"]
    /\ UNCHANGED <<files, goals, agents, early, edits, commands>>

Named(rec) == rec.plan \cup (IF rec.intent = None THEN {} ELSE rec.intent.paths)
Edit(p) ==
    /\ edits < MaxEdits
    /\ files' = [files EXCEPT ![p] = 1 - @]
    /\ early' = [g \in Goals |->
                   IF ~Started(g) THEN {}
                   ELSE IF files'[p] = goals[g].base[p] THEN early[g] \ {p}
                   ELSE IF p \in Named(goals[g]) THEN early[g]
                   ELSE early[g] \cup {p}]
    /\ edits' = edits + 1
    /\ UNCHANGED <<goals, pending, agents, commands>>

----------------------------------------------------------------------------
(* The commands of several steps, one per agent; any process may run one of  *)
(* the others meanwhile.                                                     *)
LongCommand(a) ==
    \/ Dies(a) \/ PublishPlan(a) \/ ConfirmPlan(a) \/ CommitPlan(a)
    \/ BeginRun(a) \/ EndRun(a) \/ Quarantine(a)
    \/ \E g \in Goals :
         \/ RetryPlan(a, g) \/ BeginSupersede(a, g) \/ Supersede(a, g) \/ BeginQuarantine(a, g)
         \/ \E paths \in Lists : BeginPlan(a, g, paths) \/ BeginExtension(a, g, paths)
         \/ \E d \in Musts[g], scope \in Lists : RecordReceipt(a, g, d, scope)

ShortCommand(g) ==
    \/ Start(g) \/ CloseSuccess(g) \/ Archive(g) \/ MarkCurrent(g)
    \/ \E status \in {"partial", "blocked"} : CloseUnfinished(g, status)
    \/ \E d \in Musts[g], scope \in Lists : RecordEvidence(g, d, scope)

Next ==
    \/ \E a \in Agents : LongCommand(a)
    \/ \E g \in Goals : ShortCommand(g)
    \/ \E i \in Items : AddItem(i) \/ ResolveItem(i)
    \/ \E p \in Paths : Edit(p)

Spec == Init /\ [][Next]_vars

----------------------------------------------------------------------------
(* A committed plan was on disk before the files it names were changed: no   *)
(* file that differs from the baseline was already different when a plan     *)
(* that names it was written (record_plan, extend_plan and their retries).   *)
PlanPrecedesChange ==
    \A g \in Goals : Started(g) => goals[g].plan \cap early[g] = {}

(* A goal that was superseded before it was finished has a replacement that  *)
(* succeeded, and every duty of the goal has a receipt there, all of them    *)
(* for one state of the files (supersede, close, validate, mark_current).    *)
NoDutyDropped ==
    \A g \in Goals :
        Started(g) /\ goals[g].life = "superseded" /\ goals[g].status # "success" =>
            LET r == goals[goals[g].by] IN
            /\ r.status = "success"
            /\ \E run \in r.runs : \A d \in Musts[g] :
                 \E other \in r.runs : other.at = run.at /\ other.duty = d

(* A step that takes a goal out of sight as untrusted history leaves none of *)
(* its pending items open (quarantine_invalid_history against pending add).  *)
NoBoundaryHidden ==
    [][\A g \in Goals :
         Started(g) /\ ~Quarantined(goals[g]) /\ Quarantined(goals[g])' => Open(g)' = {}]_vars
=============================================================================
