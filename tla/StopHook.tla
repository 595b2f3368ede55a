------------------------------ MODULE StopHook ------------------------------
(* The Stop hook (crates/rayman/src/codex_hook.rs) with the frontier of a    *)
(* goal (goal/pending.rs): it lets a turn end when no goal is current, when  *)
(* every current goal is complete or waits for something outside, or when    *)
(* the turn ends with the rendered questions for a human.  It takes no lock: *)
(* it reads the goal files one after the other, pending.json and the         *)
(* workspace several times, while the commands of GoalLifecycle go on.       *)
(*                                                                           *)
(* The answer is what counts: a check whose failure makes the answer "block" *)
(* blocks at once.  The workspace is activated and its records can be read.  *)
EXTENDS GoalLifecycle

CONSTANT MaxStops      \* bound: evaluations of the hook

ASSUME StopsAssumption == MaxStops \in Nat

VARIABLES
    hook,        \* the evaluation in progress
    \* ghosts of the evaluation: the states of the files since its start, the
    \* goals that have been current and unsettled all the while, and whether
    \* the goals and the items were at one instant what the hook had read
    views, unsettled, whole

hookVars == <<hook, views, unsettled, whole>>
allVars == <<vars, hookVars>>

NoHook == [pc |-> "idle", stops |-> 0, seen |-> [g \in Goals |-> None], at |-> None,
           open |-> {}, left |-> {}, goal |-> None, ready |-> {},
           asked |-> {}]

(* seen: the goals as listed; open: the pending items before the frontiers;  *)
(* left: the goals a pass has still to look at; goal: the complete one it    *)
(* checks; ready: those with a question for a human; asked: the questions    *)
HookTypeOK ==
    /\ hook.pc \in {"idle", "list", "capture", "pending", "judge", "complete", "recheck",
                    "render", "relist", "again", "verify",
                    "rerender", "silent", "allowed", "observed"}
    /\ hook.stops \in 0 .. MaxStops
    /\ \A g \in Goals : hook.seen[g] \in {None} \cup GoalRecords
    /\ hook.at = None \/ hook.at \in Contents
    /\ hook.open \subseteq Items /\ hook.left \subseteq Goals
    /\ hook.goal \in Goals \cup {None} /\ hook.ready \subseteq Goals
    /\ hook.asked \subseteq Items

OpenItems == {i \in Items : pending[i] = "open"}

(* The questions for a human that need not wait for the agent                *)
Askable(items) ==
    {i \in items : \/ Owner[i] = "urgent"
                   \/ Owner[i] = "human" /\ \A j \in items : Owner[j] # "agent"}

(* frontier_report: what the record of a goal and its open items ask for     *)
Frontier(rec, items) ==
    IF Askable(items) # {} THEN "ready"
    ELSE IF \E i \in items : Owner[i] = "agent" THEN "continue"
    ELSE IF \E i \in items : Owner[i] = "external" THEN "wait"
    ELSE IF rec.status = "success" THEN "complete"
    ELSE "continue"

Listed == {g \in Goals : Current(hook.seen[g])}
Goes(pc) == hook' = [hook EXCEPT !.pc = pc]
Blocks == hook' = [NoHook EXCEPT !.stops = hook.stops]
Reads == UNCHANGED vars

----------------------------------------------------------------------------
BeginStop ==
    /\ hook.pc = "idle" /\ hook.stops < MaxStops
    /\ hook' = [NoHook EXCEPT !.pc = "list", !.stops = hook.stops + 1, !.left = Goals]
    /\ Reads

(* list_with_issues reads the files in the order of the directory; without a *)
(* current goal the turn may end.                                            *)
ReadGoal(g) ==
    /\ hook.pc = "list" /\ g \in hook.left
    /\ hook' = [hook EXCEPT !.seen[g] = goals[g], !.left = @ \ {g}]
    /\ Reads

Listing ==
    /\ hook.pc = "list" /\ hook.left = {}
    /\ Goes(IF Listed = {} THEN "silent" ELSE "capture")
    /\ Reads

CaptureFiles ==
    /\ hook.pc = "capture"
    /\ hook' = [hook EXCEPT !.pc = "pending", !.at = files]
    /\ Reads

PendingBefore ==
    /\ hook.pc = "pending"
    /\ hook' = [hook EXCEPT !.pc = "judge", !.open = OpenItems, !.left = Listed]
    /\ Reads

(* The frontier of each current goal, as it was listed, with the items of    *)
(* this moment; the order of the goals is left open.                         *)
Judge(g) ==
    LET frontier == Frontier(hook.seen[g], Open(g)) IN
    /\ hook.pc = "judge" /\ g \in hook.left
    /\ IF ~SchemaOK(hook.seen[g]) \/ frontier = "continue" THEN Blocks
       ELSE hook' = [hook EXCEPT !.left = @ \ {g},
                                 !.ready = IF frontier = "ready" THEN @ \cup {g} ELSE @,
                                 !.pc = IF frontier = "complete" THEN "complete" ELSE @,
                                 !.goal = IF frontier = "complete" THEN g ELSE None]
    /\ Reads

(* checked_frontier_report reads a complete goal again, ...                  *)
UnmovedAny(g) == TRUE
Unmoved(g) == goals[g] = hook.seen[g]
ReadAgain ==
    /\ hook.pc = "complete"
    /\ IF Unmoved(hook.goal) THEN Goes("recheck") ELSE Blocks
    /\ Reads

(* ... and the receipts must hold for the files now and as first captured.   *)
ProvenComplete(g) == \A at \in {files, hook.at} : Proven(hook.seen[g], g, at)
CheckComplete ==
    /\ hook.pc = "recheck"
    /\ IF ProvenComplete(hook.goal) THEN hook' = [hook EXCEPT !.pc = "judge", !.goal = None]
       ELSE Blocks
    /\ Reads

PendingAfter ==
    /\ hook.pc = "judge" /\ hook.left = {}
    /\ IF OpenItems # hook.open THEN Blocks
       ELSE Goes(IF hook.ready = {} THEN "allowed" ELSE "render")
    /\ Reads

(* The last message of the turn is the text rendered for the ready goals, or *)
(* it is not.                                                                *)
Questions == UNION {Askable(Open(g)) : g \in hook.ready}
Renderable == \A g \in hook.ready : Frontier(hook.seen[g], Open(g)) = "ready"
Asked ==
    /\ hook.pc = "render" /\ Renderable
    /\ hook' = [hook EXCEPT !.pc = "relist", !.left = Goals, !.asked = Questions]
    /\ Reads
NotAsked == hook.pc = "render" /\ Blocks /\ Reads

(* Confirmation: everything is read once more and must be what it was.       *)
Confirm(g) ==
    /\ hook.pc = "relist" /\ g \in hook.left
    /\ IF Unmoved(g) THEN hook' = [hook EXCEPT !.left = @ \ {g}] ELSE Blocks
    /\ Reads

ConfirmPending ==
    /\ \/ hook.pc = "relist" /\ hook.left = {} /\ OpenItems = hook.open /\ Goes("again")
       \/ hook.pc = "relist" /\ hook.left = {} /\ OpenItems # hook.open /\ Blocks
       \/ hook.pc = "again" /\ OpenItems = hook.open /\ Goes("verify")
       \/ hook.pc = "again" /\ OpenItems # hook.open /\ Blocks
    /\ Reads

ConfirmFiles ==
    /\ hook.pc = "verify"
    /\ IF files = hook.at THEN Goes("rerender") ELSE Blocks
    /\ Reads

RenderAgain ==
    /\ hook.pc = "rerender"
    /\ IF Renderable /\ Questions = hook.asked THEN Goes("observed") ELSE Blocks
    /\ Reads

Stopped == hook.pc \in {"silent", "allowed", "observed"}
FinishStop == Stopped /\ Blocks /\ Reads

HookStep ==
    \/ BeginStop \/ Listing \/ CaptureFiles \/ PendingBefore \/ ReadAgain \/ CheckComplete
    \/ PendingAfter \/ Asked \/ NotAsked \/ ConfirmPending \/ ConfirmFiles \/ RenderAgain
    \/ FinishStop
    \/ \E g \in Goals : ReadGoal(g) \/ Judge(g) \/ Confirm(g)

----------------------------------------------------------------------------
(* A goal is settled if it is not current, if it waits for a human who is    *)
(* asked or for something outside, or if it is complete for files that the   *)
(* evaluation could see.                                                     *)
Settled(g) ==
    Current(goals[g]) =>
        \/ Frontier(goals[g], Open(g)) \in {"ready", "wait"}
        \/ /\ Frontier(goals[g], Open(g)) = "complete"
           /\ \E at \in views : Proven(goals[g], g, at)

AsRead ==
    /\ hook.pc \notin {"list", "capture", "pending"}
    /\ goals = hook.seen /\ OpenItems = hook.open

(* Each step notes the state it leaves.                                      *)
Watch ==
    IF hook'.pc = "idle" THEN views' = {} /\ unsettled' = Goals /\ whole' = FALSE
    ELSE IF hook.pc = "idle"
    THEN views' = {files} /\ unsettled' = Goals /\ whole' = FALSE
    ELSE IF Stopped THEN UNCHANGED <<views, unsettled, whole>>
    ELSE /\ views' = views \cup {files'}
         /\ unsettled' = {g \in unsettled : ~Settled(g)}
         /\ whole' = (whole \/ AsRead)

StopInit == Init /\ hook = NoHook /\ views = {} /\ unsettled = Goals /\ whole = FALSE

StopNext ==
    /\ \/ HookStep
       \/ Next /\ UNCHANGED hook
    /\ Watch

StopSpec == StopInit /\ [][StopNext]_allVars

----------------------------------------------------------------------------
(* A turn ends only when it has earned it: every goal that was current from  *)
(* the first read on was settled at some instant since, and if the hook saw  *)
(* the question for the human, the goals and pending items it decided upon   *)
(* existed together at one instant (evaluate_stop_event_with_phase_hook      *)
(* against the commands and edits of other processes).                       *)
StopIsEarned ==
    /\ Stopped => unsettled = {}
    /\ hook.pc = "observed" => whole
=============================================================================
