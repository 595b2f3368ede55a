------------------------ MODULE GoalLifecycleProofs ------------------------
(* Proofs about GoalLifecycle and StopHook for every set of goals, duties,   *)
(* paths, items and agents: the types, that a plan precedes the changes it   *)
(* names, that no duty is dropped by a replacement, that no boundary is      *)
(* hidden, and that the hook lets a turn end only when it is earned.         *)
EXTENDS StopHook, TLAPS

AgentRecords ==
    [op : Holding \cup {"idle", "run", "record", "supersede"},
     goal : Goals \cup {None},
     paths : SUBSET Paths,
     at : Contents \cup {None},
     seen : GoalRecords \cup {None}]

(* TypeOK with the types of whole functions and commands *)
Types ==
    /\ files \in Contents
    /\ goals \in [Goals -> GoalRecords \cup {None}]
    /\ pending \in [Items -> {"unused", "open", "resolved"}]
    /\ agents \in [Agents -> AgentRecords]
    /\ early \in [Goals -> SUBSET Paths]
    /\ edits \in 0 .. MaxEdits /\ commands \in 0 .. MaxCommands

(* The lock of a goal file has one holder. *)
OneHolder ==
    \A a, b \in Agents :
        /\ agents[a].op \in Holding /\ agents[b].op \in Holding
        /\ agents[a].goal = agents[b].goal
        => a = b

(* Where these contents are those of the files, a path may be planned: it is *)
(* in the plan already, or as it was at the baseline.                        *)
Plans(rec, paths, at) == \A p \in paths : p \in rec.plan \/ at[p] = rec.base[p]

(* What a command under way has established *)
Knows(a) ==
    LET me == agents[a]  g == me.goal IN
    /\ me.op \in Holding => g \in Goals /\ Started(g)
    /\ me.op \in {"publish", "confirm"} => me.at \in Contents /\ Plans(goals[g], me.paths, me.at)
    /\ me.op = "confirm" => goals[g].intent = [paths |-> me.paths, at |-> me.at]
    /\ me.op = "commit" => goals[g].intent # None /\ goals[g].intent.paths \cap early[g] = {}
    /\ me.op = "quarantine" => Open(g) = {}
    /\ me.op = "run" => me.at \in Contents
    /\ me.op = "record" => me.at \in Contents
AgentsKnow == \A a \in Agents : Knows(a)

IntentsArePlans ==
    \A g \in Goals : Started(g) /\ goals[g].intent # None =>
        Plans(goals[g], goals[g].intent.paths, goals[g].intent.at)

EarlyDiffers ==
    \A g \in Goals : IF Started(g) THEN \A p \in early[g] : files[p] # goals[g].base[p]
                     ELSE early[g] = {}

(* What no command takes back from a goal: its baseline, its success and its *)
(* receipts                                                                  *)
Keeps(rec, new) ==
    /\ new # None /\ new.base = rec.base
    /\ rec.status = "success" => new.status = "success"
    /\ rec.runs \subseteq new.runs

SeenIsKept ==
    \A a \in Agents : agents[a].op = "supersede" =>
        /\ agents[a].goal \in Goals /\ Started(agents[a].goal)
        /\ agents[a].seen \in GoalRecords
        /\ Keeps(agents[a].seen, goals[agents[a].goal])

ReplacementsExist ==
    \A g \in Goals : Started(g) /\ goals[g].life = "superseded" =>
        goals[g].by \in Goals /\ Started(goals[g].by)

IndInv ==
    /\ Types
    /\ OneHolder
    /\ AgentsKnow
    /\ IntentsArePlans
    /\ EarlyDiffers
    /\ PlanPrecedesChange
    /\ SeenIsKept
    /\ ReplacementsExist
    /\ NoDutyDropped

(* No step takes a goal file back: it is left alone or written anew. *)
Forward ==
    \A g \in Goals :
        \/ goals'[g] = goals[g]
        \/ /\ goals'[g] \in GoalRecords
           /\ Started(g) => goals[g].writes < goals'[g].writes

----------------------------------------------------------------------------
LEMMA NoneIsNoRecord ==
  /\ \A rec \in GoalRecords : rec # None
  /\ \A intent \in Intents : intent # None
  BY NoneAssumption

LEMMA IdleType == Idle \in AgentRecords
  BY DEF Idle, AgentRecords

LEMMA KeepsIsReflexive ==
  ASSUME NEW rec \in GoalRecords PROVE Keeps(rec, rec)
  BY NoneIsNoRecord DEF Keeps

LEMMA KeepsIsTransitive ==
  ASSUME NEW x, NEW y, NEW z, Keeps(x, y), Keeps(y, z) PROVE Keeps(x, z)
  BY DEF Keeps

LEMMA InitIndInv == Init => IndInv
  <1> SUFFICES ASSUME Init PROVE IndInv
    OBVIOUS
  <1>1. \A g \in Goals : goals[g] = None
    BY DEF Init
  <1>2. \A a \in Agents : agents[a].op = "idle"
    BY DEF Init, Idle
  <1>3. Types
    BY <1>1, IdleType, ConstantsAssumption DEF Init, Types, Contents, Started
  <1>4. AgentsKnow /\ OneHolder /\ SeenIsKept
    BY <1>2 DEF AgentsKnow, Knows, OneHolder, SeenIsKept, Holding
  <1>5. /\ IntentsArePlans /\ EarlyDiffers /\ PlanPrecedesChange
        /\ ReplacementsExist /\ NoDutyDropped
    BY <1>1 DEF Init, IntentsArePlans, EarlyDiffers, PlanPrecedesChange, ReplacementsExist,
       NoDutyDropped, Started
  <1> QED
    BY <1>3, <1>4, <1>5 DEF IndInv

----------------------------------------------------------------------------
(* Steps that write no goal                                                  *)

(* A command that goes on without a lock, gives up, or only reads            *)
LEMMA AgentStep ==
  ASSUME IndInv, NEW a \in Agents, NEW command \in AgentRecords,
         Run(a, command),
         UNCHANGED <<files, goals, pending, early, edits>>,
         commands' \in 0 .. MaxCommands, commands <= commands',
         command.op \in Holding =>
            \/ agents[a].op \in Holding /\ command.goal = agents[a].goal
            \/ command.goal \in Goals /\ Started(command.goal) /\ ~Locked(command.goal),
         Knows(a)',
         command.op = "supersede" =>
            /\ command.goal \in Goals /\ Started(command.goal)
            /\ command.seen = goals[command.goal]
  PROVE  IndInv' /\ Forward
  <1>1. /\ agents' = [agents EXCEPT ![a] = command]
        /\ \A b \in Agents : b # a => agents'[b] = agents[b]
        /\ agents'[a] = command
    BY DEF Run, IndInv, Types
  <1>2. Types'
    BY <1>1, ConstantsAssumption DEF IndInv, Types, Started, GoalRecords
  <1>3. OneHolder'
    BY <1>1 DEF IndInv, OneHolder, Locked
  <1>4. AgentsKnow'
    <2>1. ASSUME NEW b \in Agents, b # a PROVE Knows(b)'
      BY <1>1, <2>1 DEF IndInv, AgentsKnow, Knows, Open, Started, Plans
    <2> QED
      BY <2>1 DEF AgentsKnow
  <1>5. SeenIsKept'
    <2>1. command.op = "supersede" =>
             command.seen \in GoalRecords /\ Keeps(command.seen, goals[command.goal])
      BY KeepsIsReflexive DEF IndInv, Types, Started
    <2> QED
      BY <1>1, <2>1 DEF IndInv, SeenIsKept, Started
  <1>6. /\ IntentsArePlans' /\ EarlyDiffers' /\ PlanPrecedesChange'
        /\ ReplacementsExist' /\ NoDutyDropped'
    BY DEF IndInv, IntentsArePlans, EarlyDiffers, PlanPrecedesChange, ReplacementsExist,
       NoDutyDropped, Started, Plans
  <1>7. Forward
    BY DEF Forward
  <1> QED
    BY <1>7, <1>2, <1>3, <1>4, <1>5, <1>6 DEF IndInv

LEMMA CommandsAreCounted ==
  ASSUME IndInv, Counts \/ UNCHANGED commands
  PROVE  commands' \in 0 .. MaxCommands /\ commands <= commands'
  BY ConstantsAssumption DEF IndInv, Types, Counts

LEMMA DiesStep ==
  ASSUME IndInv, NEW a \in Agents, Dies(a) PROVE IndInv' /\ Forward
  <1>1. Run(a, Idle) /\ Idle.op = "idle"
    BY DEF Dies, Ends, Idle
  <1>2. Knows(a)'
    BY <1>1 DEF Run, IndInv, Types, Knows, Holding
  <1> QED
    BY <1>1, <1>2, AgentStep, CommandsAreCounted, IdleType DEF Dies, Holding

LEMMA BeginPlanStep ==
  ASSUME IndInv, NEW a \in Agents, NEW g \in Goals, NEW paths \in Lists, BeginPlan(a, g, paths)
  PROVE  IndInv' /\ Forward
  <1> DEFINE command == [Idle EXCEPT !.op = "publish", !.goal = g, !.paths = paths, !.at = files]
  <1>1. /\ command \in AgentRecords /\ command.op = "publish" /\ command.goal = g
        /\ command.paths = paths /\ command.at = files
    BY IdleType, ConstantsAssumption DEF IndInv, Types, AgentRecords, Idle, Holding
  <1>2. /\ Run(a, command) /\ Counts /\ UNCHANGED <<files, goals, pending, early, edits>>
        /\ Started(g) /\ ~Locked(g) /\ files = goals[g].base
    BY DEF BeginPlan, Precheck, Plannable, Begins, Opens
  <1>3. agents'[a] = command
    BY <1>2 DEF Run, IndInv, Types
  <1>4. Knows(a)'
    BY <1>1, <1>2, <1>3 DEF Knows, Plans, Started, IndInv, Types, Holding
  <1> QED
    BY <1>1, <1>2, <1>4, AgentStep, CommandsAreCounted DEF Holding

LEMMA BeginExtensionStep ==
  ASSUME IndInv, NEW a \in Agents, NEW g \in Goals, NEW paths \in Lists,
         BeginExtension(a, g, paths)
  PROVE  IndInv' /\ Forward
  <1> DEFINE rec == goals[g]
             all == rec.plan \cup (paths \ rec.plan)
             command == [Idle EXCEPT !.op = "publish", !.goal = g, !.paths = all, !.at = files]
  <1>1. /\ Run(a, command) /\ Counts /\ UNCHANGED <<files, goals, pending, early, edits>>
        /\ Started(g) /\ ~Locked(g)
        /\ \A p \in paths \ rec.plan : files[p] = rec.base[p]
    BY DEF BeginExtension, Precheck, Plannable, Begins, Opens
  <1>2. rec \in GoalRecords
    BY <1>1 DEF Started, IndInv, Types
  <1>3. all \in SUBSET Paths
    BY <1>2, ConstantsAssumption DEF GoalRecords
  <1>4. /\ command \in AgentRecords /\ command.op = "publish" /\ command.goal = g
        /\ command.paths = all /\ command.at = files
    BY <1>3, IdleType DEF IndInv, Types, AgentRecords, Idle, Holding
  <1>5. agents'[a] = command
    BY <1>1 DEF Run, IndInv, Types
  <1>6. Knows(a)'
    BY <1>1, <1>4, <1>5 DEF Knows, Plans, Started, IndInv, Types, Holding
  <1> QED
    BY <1>1, <1>4, <1>6, AgentStep, CommandsAreCounted DEF Holding

(* With the files of the intent, none of its paths is early: an early file   *)
(* differs from the baseline and is in no plan.                              *)
LEMMA PlansAreNotEarly ==
  ASSUME IndInv, NEW g \in Goals, Started(g), NEW paths, Plans(goals[g], paths, files)
  PROVE  paths \cap early[g] = {}
  BY DEF IndInv, Plans, EarlyDiffers, PlanPrecedesChange

LEMMA RetryPlanStep ==
  ASSUME IndInv, NEW a \in Agents, NEW g \in Goals, RetryPlan(a, g) PROVE IndInv' /\ Forward
  <1> DEFINE command == [Idle EXCEPT !.op = "commit", !.goal = g]
  <1>1. /\ command \in AgentRecords /\ command.op = "commit" /\ command.goal = g
    BY IdleType DEF AgentRecords, Idle, Holding
  <1>2. /\ Run(a, command) /\ Counts /\ UNCHANGED <<files, goals, pending, early, edits>>
        /\ Started(g) /\ ~Locked(g)
        /\ goals[g].intent # None /\ files = goals[g].intent.at
    BY DEF RetryPlan, RetryWhenFilesMatch, Plannable, Begins, Opens
  <1>3. goals[g].intent.paths \cap early[g] = {}
    BY <1>2, PlansAreNotEarly DEF IndInv, IntentsArePlans
  <1>4. agents'[a] = command
    BY <1>2 DEF Run, IndInv, Types
  <1>5. Knows(a)'
    BY <1>1, <1>2, <1>3, <1>4 DEF Knows, Started, Holding
  <1> QED
    BY <1>1, <1>2, <1>5, AgentStep, CommandsAreCounted DEF Holding

LEMMA ConfirmPlanStep ==
  ASSUME IndInv, NEW a \in Agents, ConfirmPlan(a) PROVE IndInv' /\ Forward
  <1> DEFINE g == agents[a].goal
             command == [agents[a] EXCEPT !.op = "commit"]
  <1>1. CASE ~Confirmed(a)
    <2>1. Run(a, Idle) /\ Idle.op = "idle"
      BY <1>1 DEF ConfirmPlan, Ends, Idle
    <2>2. Knows(a)'
      BY <2>1 DEF Run, IndInv, Types, Knows, Holding
    <2> QED
      BY <2>1, <2>2, AgentStep, CommandsAreCounted, IdleType DEF ConfirmPlan, Holding
  <1>2. CASE Confirmed(a)
    <2>1. /\ Run(a, command) /\ agents[a].op = "confirm" /\ files = agents[a].at
          /\ UNCHANGED <<files, goals, pending, early, edits, commands>>
      BY <1>2 DEF ConfirmPlan, Confirmed
    <2>2. command \in AgentRecords /\ command.op = "commit" /\ command.goal = g
      BY DEF IndInv, Types, AgentRecords, Holding
    <2>3. /\ g \in Goals /\ Started(g)
          /\ Plans(goals[g], agents[a].paths, files)
          /\ goals[g].intent = [paths |-> agents[a].paths, at |-> files]
      BY <2>1 DEF IndInv, AgentsKnow, Knows, Holding
    <2>4. goals[g].intent.paths \cap early[g] = {}
      BY <2>3, PlansAreNotEarly
    <2>5. goals[g].intent # None
      <3>1. agents[a].paths \in SUBSET Paths
        BY DEF IndInv, Types, AgentRecords
      <3> QED
        BY <2>3, <3>1, NoneIsNoRecord DEF IndInv, Types, Intents
    <2>6. agents'[a] = command
      BY <2>1 DEF Run, IndInv, Types
    <2>7. Knows(a)'
      BY <2>1, <2>2, <2>3, <2>4, <2>5, <2>6 DEF Knows, Started, Holding
    <2> QED
      BY <2>1, <2>2, <2>7, AgentStep, CommandsAreCounted DEF Holding
  <1> QED
    BY <1>1, <1>2

LEMMA BeginRunStep ==
  ASSUME IndInv, NEW a \in Agents, BeginRun(a) PROVE IndInv' /\ Forward
  <1> DEFINE command == [Idle EXCEPT !.op = "run", !.at = files]
  <1>1. command \in AgentRecords /\ command.op = "run" /\ command.at = files
    BY IdleType DEF IndInv, Types, AgentRecords, Idle
  <1>2. Run(a, command) /\ Counts /\ UNCHANGED <<files, goals, pending, early, edits>>
    BY DEF BeginRun
  <1>3. Knows(a)'
    BY <1>1, <1>2 DEF Run, IndInv, Types, Knows, Holding
  <1> QED
    BY <1>1, <1>2, <1>3, AgentStep, CommandsAreCounted DEF Holding

LEMMA EndRunStep ==
  ASSUME IndInv, NEW a \in Agents, EndRun(a) PROVE IndInv' /\ Forward
  <1> DEFINE command == IF files = agents[a].at THEN [agents[a] EXCEPT !.op = "record"] ELSE Idle
  <1>1. /\ Run(a, command) /\ agents[a].op = "run"
        /\ UNCHANGED <<files, goals, pending, early, edits, commands>>
    BY DEF EndRun, Ends
  <1>2. /\ command \in AgentRecords /\ command.op \in {"record", "idle"}
        /\ command.op = "record" => command.at = files
    BY IdleType DEF IndInv, Types, AgentRecords, Idle, Holding
  <1>3. agents'[a] = command
    BY <1>1 DEF Run, IndInv, Types
  <1>4. Knows(a)'
    BY <1>1, <1>2, <1>3 DEF IndInv, Types, Knows, Holding
  <1> QED
    BY <1>1, <1>2, <1>4, AgentStep, CommandsAreCounted DEF Holding

LEMMA BeginSupersedeStep ==
  ASSUME IndInv, NEW a \in Agents, NEW r \in Goals, BeginSupersede(a, r) PROVE IndInv' /\ Forward
  <1> DEFINE command == [Idle EXCEPT !.op = "supersede", !.goal = r, !.seen = goals[r]]
  <1>1. /\ Run(a, command) /\ Counts /\ UNCHANGED <<files, goals, pending, early, edits>>
        /\ Started(r)
    BY DEF BeginSupersede, Current, Started
  <1>2. /\ command \in AgentRecords /\ command.op = "supersede" /\ command.goal = r
        /\ command.seen = goals[r]
    BY <1>1, IdleType DEF IndInv, Types, AgentRecords, Idle, Started
  <1>3. Knows(a)'
    BY <1>1, <1>2 DEF Run, IndInv, Types, Knows, Holding
  <1> QED
    BY <1>1, <1>2, <1>3, AgentStep, CommandsAreCounted DEF Holding

LEMMA BeginQuarantineStep ==
  ASSUME IndInv, NEW a \in Agents, NEW g \in Goals, BeginQuarantine(a, g) PROVE IndInv' /\ Forward
  <1> DEFINE command == [Idle EXCEPT !.op = "quarantine", !.goal = g]
  <1>1. command \in AgentRecords /\ command.op = "quarantine" /\ command.goal = g
    BY IdleType DEF AgentRecords, Idle, Holding
  <1>2. /\ Run(a, command) /\ Counts /\ UNCHANGED <<files, goals, pending, early, edits>>
        /\ Started(g) /\ ~Locked(g) /\ Open(g) = {}
    BY DEF BeginQuarantine, Begins, Opens
  <1>3. Knows(a)'
    BY <1>1, <1>2 DEF Run, IndInv, Types, Knows, Holding, Open, Started
  <1> QED
    BY <1>1, <1>2, <1>3, AgentStep, CommandsAreCounted DEF Holding

----------------------------------------------------------------------------
(* Steps that write a goal                                                   *)

(* r is a replacement that every duty of g has reached.                      *)
Replaced(g, r) ==
    /\ r.status = "success"
    /\ \E run \in r.runs : \A d \in Musts[g] :
         \E other \in r.runs : other.at = run.at /\ other.duty = d

LEMMA ReplacedIsKept ==
  ASSUME NEW g \in Goals, NEW r, NEW new, Replaced(g, r), Keeps(r, new)
  PROVE  Replaced(g, new)
  BY DEF Replaced, Keeps

(* Whoever supersedes a goal says what it is replaced by; nothing else needs *)
(* to know about superseded goals.                                           *)
LEMMA ReplacementsStay ==
  ASSUME IndInv,
         \A g \in Goals : Started(g) => Keeps(goals[g], goals'[g]),
         \A g \in Goals : Started(g)' /\ goals'[g].life = "superseded" =>
            \/ /\ Started(g) /\ goals[g].life = "superseded"
               /\ goals'[g].by = goals[g].by /\ goals'[g].status = goals[g].status
            \/ /\ goals'[g].by \in Goals /\ Started(goals'[g].by)
               /\ goals'[g].status # "success" => Replaced(g, goals[goals'[g].by])
  PROVE  ReplacementsExist' /\ NoDutyDropped'
  <1>1. ASSUME NEW g \in Goals, Started(g)', goals'[g].life = "superseded"
        PROVE  /\ goals'[g].by \in Goals /\ goals'[goals'[g].by] # None
               /\ goals'[g].status # "success" => Replaced(g, goals'[goals'[g].by])
    <2> DEFINE r == goals'[g].by
    <2>1. r \in Goals /\ Started(r)
      BY <1>1 DEF IndInv, ReplacementsExist
    <2>2. goals'[g].status # "success" => Replaced(g, goals[r])
      BY <1>1 DEF IndInv, NoDutyDropped, Replaced
    <2>3. Keeps(goals[r], goals'[r])
      BY <2>1
    <2>4. goals'[r] # None
      BY <2>3 DEF Keeps
    <2> QED
      BY <2>1, <2>2, <2>3, <2>4, ReplacedIsKept
  <1>2. ReplacementsExist'
    BY <1>1 DEF ReplacementsExist, Started
  <1>3. NoDutyDropped'
    BY <1>1 DEF NoDutyDropped, Replaced
  <1> QED
    BY <1>2, <1>3

LEMMA SeenStays ==
  ASSUME IndInv,
         \A g \in Goals : Started(g) => Keeps(goals[g], goals'[g]),
         \A a \in Agents : agents'[a].op = "supersede" => agents'[a] = agents[a]
  PROVE  SeenIsKept'
  BY KeepsIsTransitive DEF IndInv, SeenIsKept, Keeps, Started

(* Every write is stamped, and changes nothing else. *)
LEMMA StampedFacts ==
  ASSUME NEW rec \in GoalRecords
  PROVE  /\ Stamped(rec) \in GoalRecords /\ Stamped(rec).writes = rec.writes + 1
         /\ Stamped(rec).status = rec.status /\ Stamped(rec).life = rec.life
         /\ Stamped(rec).by = rec.by /\ Stamped(rec).trusted = rec.trusted
         /\ Stamped(rec).base = rec.base /\ Stamped(rec).plan = rec.plan
         /\ Stamped(rec).intent = rec.intent /\ Stamped(rec).runs = rec.runs
  BY DEF Stamped, GoalRecords

LEMMA Written ==
  ASSUME IndInv, NEW h \in Goals, NEW rec \in GoalRecords, Write(h, rec)
  PROVE  /\ goals'[h] = Stamped(rec) /\ goals'[h] \in GoalRecords
         /\ \A g \in Goals : g # h => goals'[g] = goals[g]
         /\ goals' \in [Goals -> GoalRecords \cup {None}]
  <1>1. Stamped(rec) \in GoalRecords
    BY StampedFacts
  <1> QED
    BY <1>1 DEF IndInv, Types, Write

(* A started goal is written, and neither its plan nor its intent.           *)
LEMMA WriteStep ==
  ASSUME IndInv, NEW g \in Goals, NEW rec \in GoalRecords, Started(g),
         Write(g, rec), Keeps(goals[g], rec),
         rec.plan = goals[g].plan, rec.intent = goals[g].intent,
         rec.writes = goals[g].writes,
         UNCHANGED <<files, pending, early, edits>>,
         commands' \in 0 .. MaxCommands, commands <= commands',
         UNCHANGED agents \/ \E a \in Agents : Ends(a),
         rec.life = "superseded" =>
            /\ rec.by \in Goals /\ Started(rec.by)
            /\ rec.status # "success" => Replaced(g, goals[rec.by])
  PROVE  IndInv' /\ Forward
  <1> DEFINE new == Stamped(rec)
  <1>1. /\ goals'[g] = new /\ \A h \in Goals : h # g => goals'[h] = goals[h]
        /\ goals' \in [Goals -> GoalRecords \cup {None}] /\ new \in GoalRecords
        /\ new.plan = rec.plan /\ new.intent = rec.intent /\ new.life = rec.life
        /\ new.by = rec.by /\ new.status = rec.status
        /\ new.base = rec.base /\ new.runs = rec.runs
        /\ new.writes = goals[g].writes + 1 /\ goals[g].writes \in Nat
    <2>1. goals[g].writes \in Nat
      BY DEF IndInv, Types, Started, GoalRecords
    <2> QED
      BY <2>1, Written, StampedFacts
  <1>0. Keeps(goals[g], new)
    BY <1>1, NoneIsNoRecord DEF Keeps
  <1> HIDE DEF new
  <1>2. /\ agents' \in [Agents -> AgentRecords]
        /\ \A a \in Agents : agents'[a] = agents[a] \/ agents'[a].op = "idle"
    <2>1. Idle.op = "idle"
      BY DEF Idle
    <2> QED
      BY <2>1, IdleType DEF IndInv, Types, Ends, Run
  <1>3. \A h \in Goals : Started(h) => Keeps(goals[h], goals'[h])
    BY <1>0, <1>1, KeepsIsReflexive DEF IndInv, Types, Started
  <1>4. \A h \in Goals : /\ Started(h)' <=> Started(h)
                         /\ Started(h) => /\ goals'[h].base = goals[h].base
                                          /\ goals'[h].plan = goals[h].plan
                                          /\ goals'[h].intent = goals[h].intent
    BY <1>1, <1>3 DEF Keeps, Started
  <1>5. Types'
    BY <1>1, <1>2 DEF IndInv, Types
  <1>6. OneHolder'
    BY <1>2 DEF IndInv, OneHolder, Holding
  <1>7. AgentsKnow'
    <2> SUFFICES ASSUME NEW a \in Agents, agents'[a] = agents[a] PROVE Knows(a)'
      BY <1>2 DEF AgentsKnow, Knows, Holding
    <2>1. Knows(a)
      BY DEF IndInv, AgentsKnow
    <2> QED
      BY <1>4, <2>1 DEF Knows, Plans, Open, Holding
  <1>8. IntentsArePlans' /\ EarlyDiffers' /\ PlanPrecedesChange'
    BY <1>4 DEF IndInv, IntentsArePlans, EarlyDiffers, PlanPrecedesChange, Plans
  <1>9. SeenIsKept'
    BY <1>2, <1>3, SeenStays
  <1>10. ReplacementsExist' /\ NoDutyDropped'
    BY <1>1, <1>3, ReplacementsStay DEF Started
  <1>11. Forward
    BY <1>1 DEF Forward
  <1> QED
    BY <1>11, <1>5, <1>6, <1>7, <1>8, <1>9, <1>10 DEF IndInv

LEMMA GoalIsTyped ==
  ASSUME IndInv, NEW g \in Goals, Started(g)
  PROVE  goals[g] \in GoalRecords
  BY DEF IndInv, Types, Started

(* A receipt or a claim is added to a goal.                                  *)
LEMMA RecordEvidenceStep ==
  ASSUME IndInv, NEW g \in Goals, NEW d \in Musts[g], NEW scope \in Lists,
         RecordEvidence(g, d, scope)
  PROVE  IndInv' /\ Forward
  <1> DEFINE rec == [goals[g] EXCEPT !.claims = @ \cup ({d} \X scope)]
  <1>1. /\ Counts /\ Started(g) /\ goals[g].life = "current" /\ Write(g, rec)
        /\ UNCHANGED <<files, pending, agents, early, edits>>
    BY DEF RecordEvidence, Opens, Current
  <1>2. goals[g] \in GoalRecords
    BY <1>1, GoalIsTyped
  <1>3. {d} \X scope \subseteq Duties \X Paths
    BY ConstantsAssumption
  <1>4. /\ rec \in GoalRecords /\ Keeps(goals[g], rec)
        /\ rec.plan = goals[g].plan /\ rec.intent = goals[g].intent
        /\ rec.life = "current" /\ rec.writes = goals[g].writes
    BY <1>1, <1>2, <1>3, NoneIsNoRecord DEF GoalRecords, Keeps
  <1>5. commands' \in 0 .. MaxCommands /\ commands <= commands'
    BY <1>1, CommandsAreCounted
  <1> QED
    BY <1>1, <1>4, <1>5, WriteStep

LEMMA RecordReceiptStep ==
  ASSUME IndInv, NEW a \in Agents, NEW g \in Goals, NEW d \in Musts[g], NEW scope \in Lists,
         RecordReceipt(a, g, d, scope)
  PROVE  IndInv' /\ Forward
  <1> DEFINE run == [duty |-> d, at |-> agents[a].at, scope |-> scope]
             rec == [goals[g] EXCEPT !.runs = @ \cup {run}]
  <1>1. /\ agents[a].op = "record" /\ Started(g) /\ goals[g].life = "current"
        /\ Write(g, rec) /\ Ends(a)
        /\ UNCHANGED <<files, pending, early, edits, commands>>
    BY DEF RecordReceipt, Current, Started
  <1>2. goals[g] \in GoalRecords
    BY <1>1, GoalIsTyped
  <1>3. run \in Runs
    BY <1>1, ConstantsAssumption DEF IndInv, AgentsKnow, Knows, Runs
  <1>4. /\ rec \in GoalRecords /\ Keeps(goals[g], rec)
        /\ rec.plan = goals[g].plan /\ rec.intent = goals[g].intent
        /\ rec.life = "current" /\ rec.writes = goals[g].writes
    BY <1>1, <1>2, <1>3, NoneIsNoRecord DEF GoalRecords, Keeps
  <1> QED
    BY <1>1, <1>2, <1>4, WriteStep, CommandsAreCounted

(* A goal gets another status, life or replacement, and nothing else. *)
LEMMA MoveStep ==
  ASSUME IndInv, NEW g \in Goals, Started(g), NEW rec \in GoalRecords, Write(g, rec),
         goals[g].status = "success" => rec.status = "success",
         /\ rec.base = goals[g].base /\ rec.plan = goals[g].plan
         /\ rec.intent = goals[g].intent /\ rec.runs = goals[g].runs
         /\ rec.writes = goals[g].writes,
         Counts \/ UNCHANGED commands,
         UNCHANGED <<files, pending, early, edits>>,
         UNCHANGED agents \/ \E a \in Agents : Ends(a),
         rec.life = "superseded" =>
            /\ rec.by \in Goals /\ Started(rec.by)
            /\ rec.status # "success" => Replaced(g, goals[rec.by])
  PROVE  IndInv' /\ Forward
  <1>1. Keeps(goals[g], rec)
    BY NoneIsNoRecord DEF Keeps
  <1> QED
    BY <1>1, WriteStep, CommandsAreCounted

LEMMA CloseSuccessStep ==
  ASSUME IndInv, NEW g \in Goals, CloseSuccess(g) PROVE IndInv' /\ Forward
  <1> DEFINE rec == [goals[g] EXCEPT !.status = "success"]
  <1>1. /\ Counts /\ Started(g) /\ goals[g].life = "current" /\ Write(g, rec)
        /\ UNCHANGED <<files, pending, agents, early, edits>>
    BY DEF CloseSuccess, Opens, Current
  <1>2. goals[g] \in GoalRecords
    BY <1>1, GoalIsTyped
  <1>3. /\ rec \in GoalRecords /\ rec.status = "success" /\ rec.life = "current"
        /\ rec.base = goals[g].base /\ rec.plan = goals[g].plan
        /\ rec.intent = goals[g].intent /\ rec.runs = goals[g].runs
        /\ rec.writes = goals[g].writes
    BY <1>1, <1>2 DEF GoalRecords
  <1> QED
    BY <1>1, <1>2, <1>3, MoveStep

LEMMA CloseUnfinishedStep ==
  ASSUME IndInv, NEW g \in Goals, NEW status \in {"partial", "blocked"},
         CloseUnfinished(g, status)
  PROVE  IndInv' /\ Forward
  <1> DEFINE rec == [goals[g] EXCEPT !.status = status]
  <1>1. /\ Counts /\ Started(g) /\ goals[g].life = "current" /\ goals[g].status # "success"
        /\ Write(g, rec) /\ UNCHANGED <<files, pending, agents, early, edits>>
    BY DEF CloseUnfinished, Closable, Opens, Current
  <1>2. goals[g] \in GoalRecords
    BY <1>1, GoalIsTyped
  <1>3. /\ rec \in GoalRecords /\ rec.life = "current"
        /\ rec.base = goals[g].base /\ rec.plan = goals[g].plan
        /\ rec.intent = goals[g].intent /\ rec.runs = goals[g].runs
        /\ rec.writes = goals[g].writes
    BY <1>1, <1>2 DEF GoalRecords
  <1> QED
    BY <1>1, <1>2, <1>3, MoveStep

LEMMA ArchiveStep ==
  ASSUME IndInv, NEW g \in Goals, Archive(g) PROVE IndInv' /\ Forward
  <1> DEFINE rec == [goals[g] EXCEPT !.life = "archived", !.trusted = TRUE]
  <1>1. /\ Counts /\ Started(g) /\ Write(g, rec)
        /\ UNCHANGED <<files, pending, agents, early, edits>>
    BY DEF Archive, Opens
  <1>2. goals[g] \in GoalRecords
    BY <1>1, GoalIsTyped
  <1>3. /\ rec \in GoalRecords /\ rec.life = "archived" /\ rec.status = goals[g].status
        /\ rec.base = goals[g].base /\ rec.plan = goals[g].plan
        /\ rec.intent = goals[g].intent /\ rec.runs = goals[g].runs
        /\ rec.writes = goals[g].writes
    BY <1>2 DEF GoalRecords
  <1> QED
    BY <1>1, <1>2, <1>3, MoveStep

(* What was read of the replacement, a success with receipts for every duty, *)
(* is still so, whatever happened to it meanwhile.                           *)
LEMMA SupersedeStep ==
  ASSUME IndInv, NEW a \in Agents, NEW g \in Goals, Supersede(a, g) PROVE IndInv' /\ Forward
  <1> DEFINE r == agents[a].goal
             seen == agents[a].seen
             rec == [goals[g] EXCEPT !.life = "superseded", !.by = r, !.trusted = TRUE]
  <1>1. /\ agents[a].op = "supersede" /\ Started(g) /\ Write(g, rec) /\ Ends(a)
        /\ seen.status = "success" /\ Proven(seen, r, files) /\ DutiesTransferred(g, r)
        /\ UNCHANGED <<files, pending, early, edits, commands>>
    BY DEF Supersede, Current, Started
  <1>2. goals[g] \in GoalRecords
    BY <1>1, GoalIsTyped
  <1>3. r \in Goals /\ Started(r) /\ Keeps(seen, goals[r])
    BY <1>1 DEF IndInv, SeenIsKept
  <1>4. ASSUME goals[g].status # "success" PROVE Replaced(g, goals[r])
    <2>1. Musts[g] \subseteq Musts[r] /\ Musts[g] # {}
      BY <1>1, <1>4, ConstantsAssumption DEF DutiesTransferred
    <2>2. \A d \in Musts[g] : \E run \in seen.runs : run.at = files /\ run.duty = d
      BY <1>1, <2>1 DEF Proven, ReceiptsCover, RunsAt
    <2>3. Replaced(g, seen)
      BY <1>1, <2>1, <2>2 DEF Replaced
    <2> QED
      BY <1>3, <2>3, ReplacedIsKept
  <1>5. /\ rec \in GoalRecords /\ rec.life = "superseded" /\ rec.by = r
        /\ rec.status = goals[g].status
        /\ rec.base = goals[g].base /\ rec.plan = goals[g].plan
        /\ rec.intent = goals[g].intent /\ rec.runs = goals[g].runs
        /\ rec.writes = goals[g].writes
    BY <1>2, <1>3 DEF GoalRecords
  <1> QED
    BY <1>1, <1>2, <1>3, <1>4, <1>5, MoveStep

LEMMA MarkCurrentStep ==
  ASSUME IndInv, NEW g \in Goals, MarkCurrent(g) PROVE IndInv' /\ Forward
  <1> DEFINE rec == [goals[g] EXCEPT !.life = "current", !.by = None, !.trusted = FALSE]
  <1>1. /\ Counts /\ Started(g) /\ Write(g, rec)
        /\ UNCHANGED <<files, pending, agents, early, edits>>
    BY DEF MarkCurrent, Opens
  <1>2. goals[g] \in GoalRecords
    BY <1>1, GoalIsTyped
  <1>3. /\ rec \in GoalRecords /\ rec.life = "current" /\ rec.status = goals[g].status
        /\ rec.base = goals[g].base /\ rec.plan = goals[g].plan
        /\ rec.intent = goals[g].intent /\ rec.runs = goals[g].runs
        /\ rec.writes = goals[g].writes
    BY <1>2 DEF GoalRecords
  <1> QED
    BY <1>1, <1>2, <1>3, MoveStep

LEMMA QuarantineStep ==
  ASSUME IndInv, NEW a \in Agents, Quarantine(a) PROVE IndInv' /\ Forward
  <1> DEFINE g == agents[a].goal
             rec == [goals[g] EXCEPT !.life = "archived", !.trusted = FALSE]
  <1>1. /\ agents[a].op = "quarantine" /\ Write(g, rec) /\ Ends(a)
        /\ UNCHANGED <<files, pending, early, edits, commands>>
    BY DEF Quarantine
  <1>2. g \in Goals /\ Started(g)
    BY <1>1 DEF IndInv, AgentsKnow, Knows, Holding
  <1>3. goals[g] \in GoalRecords
    BY <1>1, <1>2, GoalIsTyped
  <1>4. /\ rec \in GoalRecords /\ rec.life = "archived" /\ rec.status = goals[g].status
        /\ rec.base = goals[g].base /\ rec.plan = goals[g].plan
        /\ rec.intent = goals[g].intent /\ rec.runs = goals[g].runs
        /\ rec.writes = goals[g].writes
    BY <1>3 DEF GoalRecords
  <1> QED
    BY <1>1, <1>2, <1>3, <1>4, MoveStep

LEMMA StartStep ==
  ASSUME IndInv, NEW g \in Goals, Start(g) PROVE IndInv' /\ Forward
  <1> DEFINE rec == [status |-> "active", life |-> "current", by |-> None, trusted |-> FALSE,
                     base |-> files, plan |-> {}, intent |-> None, runs |-> {},
                     claims |-> {}, writes |-> 0]
  <1>1. /\ Counts /\ ~Started(g) /\ Write(g, rec)
        /\ UNCHANGED <<files, pending, agents, early, edits>>
    BY DEF Start
  <1>2. rec \in GoalRecords
    BY ConstantsAssumption DEF IndInv, Types, GoalRecords
  <1> HIDE DEF rec
  <1>3. /\ goals'[g] = Stamped(rec) /\ \A h \in Goals : h # g => goals'[h] = goals[h]
        /\ goals' \in [Goals -> GoalRecords \cup {None}] /\ goals'[g] \in GoalRecords
    BY <1>1, <1>2, Written
  <1>12. /\ goals'[g] # None /\ goals'[g].base = files /\ goals'[g].plan = {}
         /\ goals'[g].intent = None /\ goals'[g].life = "current"
    <2>1. /\ rec.base = files /\ rec.plan = {} /\ rec.intent = None /\ rec.life = "current"
      BY DEF rec
    <2> QED
      BY <1>2, <1>3, <2>1, StampedFacts, NoneIsNoRecord
  <1>4. \A h \in Goals : Started(h) => h # g /\ goals'[h] = goals[h] /\ Started(h)'
    BY <1>1, <1>3 DEF Started
  <1>5. Types'
    BY <1>1, <1>3, CommandsAreCounted DEF IndInv, Types
  <1>6. OneHolder'
    BY <1>1 DEF IndInv, OneHolder
  <1>7. AgentsKnow'
    <2> SUFFICES ASSUME NEW a \in Agents PROVE Knows(a)'
      BY DEF AgentsKnow
    <2>1. Knows(a)
      BY DEF IndInv, AgentsKnow
    <2> QED
      BY <1>1, <1>4, <2>1 DEF Knows, Open, Holding
  <1>8. IntentsArePlans' /\ EarlyDiffers' /\ PlanPrecedesChange'
    BY <1>1, <1>3, <1>4, <1>12 DEF IndInv, IntentsArePlans, EarlyDiffers, PlanPrecedesChange,
       Started
  <1>9. \A h \in Goals : Started(h) => Keeps(goals[h], goals'[h])
    BY <1>4, GoalIsTyped, KeepsIsReflexive
  <1>10. SeenIsKept'
    BY <1>1, <1>9, SeenStays
  <1>11. ReplacementsExist' /\ NoDutyDropped'
    BY <1>3, <1>9, <1>12, ReplacementsStay DEF Started
  <1>13. Forward
    BY <1>3, <1>1 DEF Forward
  <1> QED
    BY <1>13, <1>5, <1>6, <1>7, <1>8, <1>10, <1>11 DEF IndInv

(* A plan is written by the holder of its goal: what the others hold are     *)
(* other goals.                                                              *)
LEMMA PlanWriteStep ==
  ASSUME IndInv, NEW a \in Agents, agents[a].op \in Holding,
         NEW plan \in SUBSET Paths, NEW intent \in Intents \cup {None},
         LET g == agents[a].goal IN
           /\ Write(g, [goals[g] EXCEPT !.plan = plan, !.intent = intent])
           /\ plan \cap early[g] = {}
           /\ intent # None => /\ plan = goals[g].plan
                               /\ Plans(goals[g], intent.paths, intent.at),
         NEW command \in AgentRecords, Run(a, command), Knows(a)',
         command.op \in Holding => command.goal = agents[a].goal,
         command.op # "supersede",
         UNCHANGED <<files, pending, early, edits, commands>>
  PROVE  IndInv' /\ Forward
  <1> DEFINE g == agents[a].goal
             rec == [goals[g] EXCEPT !.plan = plan, !.intent = intent]
  <1>1. g \in Goals /\ Started(g)
    BY DEF IndInv, AgentsKnow, Knows
  <1>2. goals[g] \in GoalRecords
    BY <1>1, GoalIsTyped
  <1>3. /\ rec \in GoalRecords /\ rec.plan = plan /\ rec.intent = intent
        /\ rec.life = goals[g].life /\ rec.by = goals[g].by /\ rec.status = goals[g].status
        /\ rec.base = goals[g].base /\ rec.runs = goals[g].runs
        /\ rec.writes = goals[g].writes /\ goals[g].writes \in Nat
    BY <1>2 DEF GoalRecords
  <1>4. /\ \A h \in Goals : h # g => goals'[h] = goals[h]
        /\ goals' \in [Goals -> GoalRecords \cup {None}]
        /\ goals'[g] \in GoalRecords
        /\ goals'[g].plan = plan /\ goals'[g].intent = intent
        /\ goals'[g].life = goals[g].life /\ goals'[g].by = goals[g].by
        /\ goals'[g].status = goals[g].status
        /\ goals'[g].base = goals[g].base /\ goals'[g].runs = goals[g].runs
        /\ goals'[g].writes = goals[g].writes + 1
    BY <1>1, <1>3, Written, StampedFacts
  <1>5. /\ agents'[a] = command /\ \A b \in Agents : b # a => agents'[b] = agents[b]
        /\ agents' \in [Agents -> AgentRecords]
    BY DEF Run, IndInv, Types
  <1>6. \A h \in Goals : /\ Started(h)' <=> Started(h)
                         /\ Started(h) => Keeps(goals[h], goals'[h])
    BY <1>1, <1>3, <1>4, GoalIsTyped, KeepsIsReflexive, NoneIsNoRecord DEF Keeps, Started
  <1>7. Types'
    BY <1>4, <1>5 DEF IndInv, Types
  <1>8. OneHolder'
    BY <1>5 DEF IndInv, OneHolder
  <1>9. AgentsKnow'
    <2>1. ASSUME NEW b \in Agents, b # a PROVE Knows(b)'
      <3>1. Knows(b) /\ agents'[b] = agents[b]
        BY <1>5, <2>1 DEF IndInv, AgentsKnow
      <3>2. agents[b].op \in Holding => agents[b].goal # g
        BY <2>1 DEF IndInv, OneHolder
      <3>3. agents[b].op \in Holding =>
              agents[b].goal \in Goals /\ goals'[agents[b].goal] = goals[agents[b].goal]
        BY <1>4, <3>1, <3>2 DEF Knows
      <3> HIDE DEF g, rec
      <3> QED
        BY <3>1, <3>3 DEF Knows, Plans, Open, Started, Holding
    <2> QED
      BY <2>1 DEF AgentsKnow
  <1>10. IntentsArePlans' /\ EarlyDiffers' /\ PlanPrecedesChange'
    <2>1. ASSUME NEW h \in Goals, Started(h), goals'[h].intent # None
          PROVE  Plans(goals'[h], goals'[h].intent.paths, goals'[h].intent.at)
      <3>1. CASE h = g
        <4>1. Plans(goals[g], intent.paths, intent.at) /\ plan = goals[g].plan
          BY <1>3, <1>4, <2>1, <3>1
        <4>2. /\ goals'[h].plan = goals[h].plan /\ goals'[h].base = goals[h].base
              /\ goals'[h].intent = intent
          BY <1>3, <1>4, <3>1, <4>1
        <4> QED
          BY <3>1, <4>1, <4>2 DEF Plans
      <3>2. CASE h # g
        BY <1>4, <2>1, <3>2 DEF IndInv, IntentsArePlans
      <3> QED
        BY <3>1, <3>2
    <2>2. IntentsArePlans'
      BY <1>6, <2>1 DEF IntentsArePlans, Plans
    <2>3. EarlyDiffers'
      BY <1>6 DEF IndInv, EarlyDiffers, Keeps
    <2>4. PlanPrecedesChange'
      <3>1. goals'[g].plan \cap early[g] = {}
        BY <1>3, <1>4
      <3>2. \A h \in Goals : Started(h)' /\ h # g => goals'[h].plan \cap early[h] = {}
        BY <1>4, <1>6 DEF IndInv, PlanPrecedesChange
      <3> QED
        BY <3>1, <3>2 DEF PlanPrecedesChange
    <2> QED
      BY <2>2, <2>3, <2>4
  <1>11. SeenIsKept'
    BY <1>5, <1>6, SeenStays
  <1>12. ReplacementsExist' /\ NoDutyDropped'
    BY <1>3, <1>4, <1>6, ReplacementsStay DEF Started
  <1>20. Forward
    BY <1>3, <1>4 DEF Forward
  <1> QED
    BY <1>20, <1>7, <1>8, <1>9, <1>10, <1>11, <1>12 DEF IndInv

LEMMA PublishPlanStep ==
  ASSUME IndInv, NEW a \in Agents, PublishPlan(a) PROVE IndInv' /\ Forward
  <1> DEFINE g == agents[a].goal
             intent == [paths |-> agents[a].paths, at |-> agents[a].at]
             command == [agents[a] EXCEPT !.op = "confirm"]
  <1>1. /\ agents[a].op = "publish" /\ Write(g, [goals[g] EXCEPT !.intent = intent])
        /\ Run(a, command) /\ UNCHANGED <<files, pending, early, edits, commands>>
    BY DEF PublishPlan
  <1>2. /\ g \in Goals /\ Started(g) /\ agents[a].at \in Contents
        /\ Plans(goals[g], agents[a].paths, agents[a].at)
    BY <1>1 DEF IndInv, AgentsKnow, Knows, Holding
  <1>3. /\ agents[a] \in AgentRecords /\ command \in AgentRecords
        /\ command.op = "confirm" /\ command.goal = g
        /\ command.paths = agents[a].paths /\ command.at = agents[a].at
    BY DEF IndInv, Types, AgentRecords, Holding
  <1>4. goals[g] \in GoalRecords /\ goals[g].plan \in SUBSET Paths
    BY <1>2, GoalIsTyped DEF GoalRecords
  <1>5. intent \in Intents
    BY <1>2, <1>3 DEF Intents, AgentRecords
  <1>6. [goals[g] EXCEPT !.intent = intent]
          = [goals[g] EXCEPT !.plan = goals[g].plan, !.intent = intent]
    BY <1>4 DEF GoalRecords
  <1>7. goals[g].plan \cap early[g] = {}
    BY <1>2 DEF IndInv, PlanPrecedesChange
  <1>8. Knows(a)'
    <2>1. agents'[a] = command
      BY <1>1 DEF Run, IndInv, Types
    <2> DEFINE rec == [goals[g] EXCEPT !.intent = intent]
    <2>2. /\ rec \in GoalRecords /\ rec.intent = intent
          /\ rec.plan = goals[g].plan /\ rec.base = goals[g].base
      BY <1>4, <1>5 DEF GoalRecords
    <2>4. Write(g, rec)
      BY <1>1
    <2> HIDE DEF rec
    <2>3. /\ goals'[g].intent = intent /\ goals'[g] # None
          /\ goals'[g].plan = goals[g].plan /\ goals'[g].base = goals[g].base
      BY <1>2, <2>2, <2>4, Written, StampedFacts, NoneIsNoRecord
    <2> QED
      BY <1>2, <1>3, <2>1, <2>3 DEF Knows, Plans, Started, Holding
  <1> QED
    BY <1>1, <1>2, <1>3, <1>4, <1>5, <1>6, <1>7, <1>8, PlanWriteStep DEF Holding

LEMMA CommitPlanStep ==
  ASSUME IndInv, NEW a \in Agents, CommitPlan(a) PROVE IndInv' /\ Forward
  <1> DEFINE g == agents[a].goal
             paths == goals[g].intent.paths
  <1>1. /\ agents[a].op = "commit"
        /\ Write(g, [goals[g] EXCEPT !.plan = paths, !.intent = None])
        /\ Run(a, Idle) /\ UNCHANGED <<files, pending, early, edits, commands>>
    BY DEF CommitPlan, Ends
  <1>2. /\ g \in Goals /\ Started(g) /\ goals[g].intent # None /\ paths \cap early[g] = {}
    BY <1>1 DEF IndInv, AgentsKnow, Knows, Holding
  <1>3. paths \in SUBSET Paths
    BY <1>2, GoalIsTyped DEF GoalRecords, Intents
  <1>4. Idle.op = "idle"
    BY DEF Idle
  <1>5. Knows(a)'
    BY <1>1, <1>4 DEF Run, IndInv, Types, Knows, Holding
  <1> QED
    BY <1>1, <1>2, <1>3, <1>4, <1>5, IdleType, PlanWriteStep DEF Holding

----------------------------------------------------------------------------
(* Pending items and edits                                                   *)

LEMMA ItemStep ==
  ASSUME IndInv, NEW i \in Items, AddItem(i) \/ ResolveItem(i) PROVE IndInv' /\ Forward
  <1>1. /\ pending' \in [Items -> {"unused", "open", "resolved"}]
        /\ ~PendingLocked /\ UNCHANGED <<files, goals, agents, early, edits, commands>>
    BY DEF AddItem, ResolveItem, PendingFree, IndInv, Types
  <1>2. Types'
    BY <1>1 DEF IndInv, Types, Started
  <1>3. AgentsKnow'
    BY <1>1 DEF IndInv, AgentsKnow, Knows, Plans, Started, PendingLocked
  <1>4. /\ OneHolder' /\ IntentsArePlans' /\ EarlyDiffers' /\ PlanPrecedesChange'
        /\ SeenIsKept' /\ ReplacementsExist' /\ NoDutyDropped'
    BY <1>1 DEF IndInv, OneHolder, IntentsArePlans, EarlyDiffers, PlanPrecedesChange,
       SeenIsKept, ReplacementsExist, NoDutyDropped, Started, Plans
  <1>5. Forward
    BY <1>1 DEF Forward
  <1> QED
    BY <1>5, <1>2, <1>3, <1>4 DEF IndInv

LEMMA EditStep ==
  ASSUME IndInv, NEW p \in Paths, Edit(p) PROVE IndInv' /\ Forward
  <1>1. /\ edits < MaxEdits /\ edits' = edits + 1
        /\ files' = [files EXCEPT ![p] = 1 - @]
        /\ UNCHANGED <<goals, pending, agents, commands>>
    BY DEF Edit
  <1>2. files' \in Contents /\ \A q \in Paths : q # p => files'[q] = files[q]
    BY <1>1 DEF IndInv, Types, Contents
  <1>3. \A g \in Goals :
          early'[g] = IF ~Started(g) THEN {}
                      ELSE IF files'[p] = goals[g].base[p] THEN early[g] \ {p}
                      ELSE IF p \in Named(goals[g]) THEN early[g]
                      ELSE early[g] \cup {p}
    BY DEF Edit
  <1>4. early' \in [Goals -> SUBSET Paths]
    BY DEF Edit, IndInv, Types
  <1>5. Types'
    BY <1>1, <1>2, <1>4, ConstantsAssumption DEF IndInv, Types, Started
  <1>6. ASSUME NEW g \in Goals, Started(g)
        PROVE  /\ \A q \in early'[g] : files'[q] # goals[g].base[q]
               /\ goals[g].plan \cap early'[g] = {}
    <2>1. /\ \A q \in early[g] : files[q] # goals[g].base[q]
          /\ goals[g].plan \cap early[g] = {} /\ early[g] \subseteq Paths
      BY <1>6 DEF IndInv, Types, EarlyDiffers, PlanPrecedesChange
    <2>2. CASE files'[p] = goals[g].base[p]
      BY <1>2, <1>3, <1>6, <2>1, <2>2
    <2>3. CASE files'[p] # goals[g].base[p]
      <3>1. /\ early'[g] \subseteq early[g] \cup {p}
            /\ p \in early'[g] => p \in early[g] \/ p \notin goals[g].plan
        BY <1>3, <1>6, <2>3 DEF Named
      <3> QED
        BY <1>2, <2>1, <2>3, <3>1
    <2> QED
      BY <2>2, <2>3
  <1>9. EarlyDiffers' /\ PlanPrecedesChange'
    BY <1>1, <1>3, <1>6 DEF EarlyDiffers, PlanPrecedesChange, Started
  <1>7. AgentsKnow'
    <2> SUFFICES ASSUME NEW a \in Agents PROVE Knows(a)'
      BY DEF AgentsKnow
    <2>1. Knows(a)
      BY DEF IndInv, AgentsKnow
    <2>2. ASSUME agents[a].op = "commit"
          PROVE  goals[agents[a].goal].intent.paths \cap early'[agents[a].goal] = {}
      BY <1>3, <2>1, <2>2 DEF Knows, Named, Holding
    <2> QED
      BY <1>1, <2>1, <2>2 DEF Knows, Plans, Open, Started, Holding
  <1>8. /\ OneHolder' /\ IntentsArePlans' /\ SeenIsKept' /\ ReplacementsExist' /\ NoDutyDropped'
    BY <1>1 DEF IndInv, OneHolder, IntentsArePlans, SeenIsKept, ReplacementsExist,
       NoDutyDropped, Started, Plans
  <1>10. Forward
    BY <1>1 DEF Forward
  <1> QED
    BY <1>10, <1>5, <1>7, <1>8, <1>9 DEF IndInv

----------------------------------------------------------------------------
LEMMA NextIndInv == IndInv /\ [Next]_vars => IndInv' /\ Forward
  <1> SUFFICES ASSUME IndInv, [Next]_vars PROVE IndInv' /\ Forward
    OBVIOUS
  <1>1. ASSUME NEW a \in Agents, LongCommand(a) PROVE IndInv' /\ Forward
    BY <1>1, DiesStep, PublishPlanStep, ConfirmPlanStep, CommitPlanStep, BeginRunStep,
       EndRunStep, QuarantineStep, RetryPlanStep, BeginSupersedeStep, SupersedeStep,
       BeginQuarantineStep, BeginPlanStep, BeginExtensionStep, RecordReceiptStep
       DEF LongCommand
  <1>2. ASSUME NEW g \in Goals, ShortCommand(g) PROVE IndInv' /\ Forward
    BY <1>2, StartStep, CloseSuccessStep, ArchiveStep, MarkCurrentStep, CloseUnfinishedStep,
       RecordEvidenceStep DEF ShortCommand
  <1>3. CASE UNCHANGED vars
    BY <1>3 DEF vars, IndInv, Types, OneHolder, AgentsKnow, Knows, IntentsArePlans, EarlyDiffers,
       PlanPrecedesChange, SeenIsKept, ReplacementsExist, NoDutyDropped, Started, Plans, Open, Forward
  <1> QED
    BY <1>1, <1>2, <1>3, ItemStep, EditStep DEF Next

(* What the commands under way know and what the goal files say              *)
THEOREM Invariance == Spec => []IndInv
  BY InitIndInv, NextIndInv, PTL DEF Spec

(* Every variable keeps its type. *)
THEOREM TypeCorrect == Spec => []TypeOK
  <1>1. IndInv => TypeOK
    BY DEF IndInv, Types, TypeOK, AgentRecords
  <1> QED
    BY <1>1, Invariance, PTL

(* No committed plan names a file that was changed before the plan did: the  *)
(* write-ahead intent and the second look at the files see to it, whatever   *)
(* is edited between any two steps and however often a retry is needed.      *)
THEOREM PlansSafe == Spec => []PlanPrecedesChange
  <1>1. IndInv => PlanPrecedesChange
    BY DEF IndInv
  <1> QED
    BY <1>1, Invariance, PTL

(* A replacement, read without its lock, still covers every duty of the goal *)
(* it replaced, now and for ever.                                            *)
THEOREM DutiesSafe == Spec => []NoDutyDropped
  <1>1. IndInv => NoDutyDropped
    BY DEF IndInv
  <1> QED
    BY <1>1, Invariance, PTL

(* Only a quarantine takes a goal out of sight.  A write that leaves life    *)
(* and trust alone, or makes the goal trusted or not archived, does not.     *)
Hides(g) == Started(g) /\ ~Quarantined(goals[g]) /\ Quarantined(goals'[g])

LEMMA Overwritten ==
  ASSUME IndInv, NEW h \in Goals, NEW rec, Write(h, rec)
  PROVE  goals'[h] = Stamped(rec) /\ \A g \in Goals : g # h => goals'[g] = goals[g]
  BY DEF IndInv, Types, Write

LEMMA VisibleWrite ==
  ASSUME NEW h \in Goals,
         \A g \in Goals : g # h => goals'[g] = goals[g],
         Started(h) /\ Quarantined(goals'[h]) => Quarantined(goals[h])
  PROVE  \A g \in Goals : ~Hides(g)
  BY DEF Hides

LEMMA OnlyQuarantineHides ==
  ASSUME IndInv, [Next]_vars, NEW g \in Goals, Hides(g)
  PROVE  \E a \in Agents : Quarantine(a) /\ agents[a].goal = g
  <1>1. goals' # goals
    BY DEF Hides
  <1>2. ASSUME NEW a \in Agents, PublishPlan(a) \/ CommitPlan(a) PROVE FALSE
    <2> DEFINE h == agents[a].goal
    <2>1. h \in Goals /\ goals[h] \in GoalRecords
      BY <1>2, GoalIsTyped DEF PublishPlan, CommitPlan, IndInv, AgentsKnow, Knows, Holding
    <2>2. CASE PublishPlan(a)
      <3> DEFINE rec == [goals[h] EXCEPT !.intent = [paths |-> agents[a].paths, at |-> agents[a].at]]
      <3>1. Write(h, rec)
        BY <2>2 DEF PublishPlan
      <3>2. Stamped(rec).life = goals[h].life /\ Stamped(rec).trusted = goals[h].trusted
        BY <2>1 DEF GoalRecords, Stamped
      <3> QED
        BY <2>1, <3>1, <3>2, Overwritten, VisibleWrite DEF Quarantined
    <2>3. CASE CommitPlan(a)
      <3> DEFINE rec == [goals[h] EXCEPT !.plan = goals[h].intent.paths, !.intent = None]
      <3>1. Write(h, rec)
        BY <2>3 DEF CommitPlan
      <3>2. Stamped(rec).life = goals[h].life /\ Stamped(rec).trusted = goals[h].trusted
        BY <2>1 DEF GoalRecords, Stamped
      <3> QED
        BY <2>1, <3>1, <3>2, Overwritten, VisibleWrite DEF Quarantined
    <2> QED
      BY <1>2, <2>2, <2>3
  <1>3. ASSUME NEW h \in Goals, NEW d \in Musts[h], NEW scope \in Lists,
               (\E a \in Agents : RecordReceipt(a, h, d, scope)) \/ RecordEvidence(h, d, scope)
        PROVE  FALSE
    <2>1. goals[h] \in GoalRecords /\ goals[h].life = "current"
      BY <1>3, GoalIsTyped DEF RecordReceipt, RecordEvidence, Opens, Current, Started
    <2>2. CASE \E a \in Agents : RecordReceipt(a, h, d, scope)
      <3>1. PICK a \in Agents : RecordReceipt(a, h, d, scope)
        BY <2>2
      <3> DEFINE run == [duty |-> d, at |-> agents[a].at, scope |-> scope]
                 rec == [goals[h] EXCEPT !.runs = @ \cup {run}]
      <3>2. Write(h, rec)
        BY <3>1 DEF RecordReceipt
      <3>3. Stamped(rec).life = "current"
        BY <2>1 DEF GoalRecords, Stamped
      <3> QED
        BY <3>2, <3>3, Overwritten, VisibleWrite DEF Quarantined
    <2>3. CASE RecordEvidence(h, d, scope)
      <3> DEFINE rec == [goals[h] EXCEPT !.claims = @ \cup ({d} \X scope)]
      <3>1. Write(h, rec)
        BY <2>3 DEF RecordEvidence
      <3>2. Stamped(rec).life = "current"
        BY <2>1 DEF GoalRecords, Stamped
      <3> QED
        BY <3>1, <3>2, Overwritten, VisibleWrite DEF Quarantined
    <2> QED
      BY <1>3, <2>2, <2>3
  <1>4. ASSUME NEW h \in Goals,
               \/ CloseSuccess(h) \/ \E status \in {"partial", "blocked"} : CloseUnfinished(h, status)
               \/ \E a \in Agents : Supersede(a, h)
        PROVE  FALSE
    <2>1. goals[h] \in GoalRecords /\ goals[h].life = "current"
      BY <1>4, GoalIsTyped DEF CloseSuccess, CloseUnfinished, Supersede, Opens, Current, Started
    <2>2. CASE CloseSuccess(h)
      <3> DEFINE rec == [goals[h] EXCEPT !.status = "success"]
      <3>1. Write(h, rec)
        BY <2>2 DEF CloseSuccess
      <3>2. Stamped(rec).life = "current"
        BY <2>1 DEF GoalRecords, Stamped
      <3> QED
        BY <3>1, <3>2, Overwritten, VisibleWrite DEF Quarantined
    <2>3. CASE \E status \in {"partial", "blocked"} : CloseUnfinished(h, status)
      <3>1. PICK status \in {"partial", "blocked"} : CloseUnfinished(h, status)
        BY <2>3
      <3> DEFINE rec == [goals[h] EXCEPT !.status = status]
      <3>2. Write(h, rec)
        BY <3>1 DEF CloseUnfinished
      <3>3. Stamped(rec).life = "current"
        BY <2>1 DEF GoalRecords, Stamped
      <3> QED
        BY <3>2, <3>3, Overwritten, VisibleWrite DEF Quarantined
    <2>4. CASE \E a \in Agents : Supersede(a, h)
      <3>1. PICK a \in Agents : Supersede(a, h)
        BY <2>4
      <3> DEFINE rec == [goals[h] EXCEPT !.life = "superseded", !.by = agents[a].goal,
                                         !.trusted = TRUE]
      <3>2. Write(h, rec)
        BY <3>1 DEF Supersede
      <3>3. Stamped(rec).life = "superseded"
        BY <2>1 DEF GoalRecords, Stamped
      <3> QED
        BY <3>2, <3>3, Overwritten, VisibleWrite DEF Quarantined
    <2> QED
      BY <1>4, <2>2, <2>3, <2>4
  <1>5. ASSUME NEW h \in Goals, Archive(h) \/ MarkCurrent(h) \/ Start(h) PROVE FALSE
    <2>1. Archive(h) \/ MarkCurrent(h) => goals[h] \in GoalRecords
      BY GoalIsTyped DEF Archive, MarkCurrent, Opens
    <2>2. CASE Archive(h)
      <3> DEFINE rec == [goals[h] EXCEPT !.life = "archived", !.trusted = TRUE]
      <3>1. Write(h, rec)
        BY <2>2 DEF Archive
      <3>2. Stamped(rec).trusted
        BY <2>1, <2>2 DEF GoalRecords, Stamped
      <3> QED
        BY <3>1, <3>2, Overwritten, VisibleWrite DEF Quarantined
    <2>3. CASE MarkCurrent(h)
      <3> DEFINE rec == [goals[h] EXCEPT !.life = "current", !.by = None, !.trusted = FALSE]
      <3>1. Write(h, rec)
        BY <2>3 DEF MarkCurrent
      <3>2. Stamped(rec).life = "current"
        BY <2>1, <2>3 DEF GoalRecords, Stamped
      <3> QED
        BY <3>1, <3>2, Overwritten, VisibleWrite DEF Quarantined
    <2>4. CASE Start(h)
      BY <2>4, VisibleWrite, Overwritten DEF Start
    <2> QED
      BY <1>5, <2>2, <2>3, <2>4
  <1>6. ASSUME NEW a \in Agents, LongCommand(a)
        PROVE  Quarantine(a)
    <2>1. \/ PublishPlan(a) \/ CommitPlan(a) \/ Quarantine(a)
          \/ \E h \in Goals :
               \/ Supersede(a, h)
               \/ \E d \in Musts[h], scope \in Lists : RecordReceipt(a, h, d, scope)
      BY <1>1, <1>6 DEF LongCommand, Dies, ConfirmPlan, BeginRun, EndRun, RetryPlan,
         BeginSupersede, BeginQuarantine, BeginPlan, BeginExtension, Precheck
    <2> QED
      BY <1>2, <1>3, <1>4, <2>1
  <1>7. ASSUME NEW h \in Goals, ShortCommand(h) PROVE FALSE
    BY <1>3, <1>4, <1>5, <1>7 DEF ShortCommand
  <1>8. PICK a \in Agents : Quarantine(a)
    BY <1>1, <1>6, <1>7 DEF Next, vars, AddItem, ResolveItem, Edit
  <1>9. agents[a].goal \in Goals
    BY <1>8 DEF Quarantine, IndInv, AgentsKnow, Knows, Holding
  <1>10. agents[a].goal = g
    BY <1>8, <1>9, Overwritten DEF Quarantine, Hides
  <1> QED
    BY <1>8, <1>10

(* A goal is hidden only with no item of it open: pending.json stays locked  *)
(* from the check to the write, so nothing is added in between.              *)
THEOREM BoundariesSafe == Spec => NoBoundaryHidden
  <1>1. ASSUME IndInv, [Next]_vars, NEW g \in Goals, Hides(g) PROVE Open(g)' = {}
    <2>1. PICK a \in Agents : Quarantine(a) /\ agents[a].goal = g
      BY <1>1, OnlyQuarantineHides
    <2>2. Open(g) = {} /\ pending' = pending
      <3>1. Knows(a) /\ agents[a].op = "quarantine" /\ pending' = pending
        BY <1>1, <2>1 DEF Quarantine, IndInv, AgentsKnow
      <3> QED
        BY <2>1, <3>1 DEF Knows
    <2> QED
      BY <2>2 DEF Open
  <1>2. IndInv /\ [Next]_vars =>
          [\A g \in Goals : Started(g) /\ ~Quarantined(goals[g]) /\ Quarantined(goals[g])'
                              => Open(g)' = {}]_vars
    BY <1>1 DEF Hides, Quarantined
  <1> QED
    BY <1>2, Invariance, PTL DEF Spec, NoBoundaryHidden
----------------------------------------------------------------------------
(* The Stop hook                                                             *)

HookRecords ==
    [pc : {"idle", "list", "capture", "pending", "judge", "complete", "recheck", "render",
           "relist", "again", "verify", "rerender", "silent", "allowed", "observed"},
     stops : Nat,
     seen : [Goals -> GoalRecords \cup {None}],
     at : Contents \cup {None},
     open : SUBSET Items,
     left : SUBSET Goals,
     goal : Goals \cup {None},
     ready : SUBSET Goals,
     asked : SUBSET Items]

HookTypes == hook \in HookRecords /\ unsettled \subseteq Goals

(* rec was read before now was on disk: a goal file never becomes again what *)
(* it was before a write.                                                    *)
Past(rec, now) ==
    rec # None => /\ now # None /\ rec.writes <= now.writes
                  /\ rec.writes = now.writes => rec = now

(* Each goal that has been read was then as it was read; one that was not    *)
(* current has settled itself.                                               *)
ReadsArePast ==
    hook.pc # "idle" =>
        \A g \in Goals :
            \/ hook.pc = "list" /\ g \in hook.left
            \/ /\ Past(hook.seen[g], goals[g])
               /\ Current(hook.seen[g]) \/ g \notin unsettled

CaptureIsSeen ==
    hook.pc \notin {"idle", "list", "capture", "silent"} => hook.at \in views

(* Whom the frontiers have passed is settled, but for the complete goal that *)
(* is being checked: it is settled if it still is what was read and proven   *)
(* for the files first captured.                                             *)
ProvenAsRead(g) == Proven(hook.seen[g], g, hook.at)
PassedAreSettled ==
    /\ hook.pc = "judge" => \A g \in Goals \ hook.left : g \notin unsettled
    /\ hook.pc \in {"complete", "recheck"} =>
         /\ hook.goal \in Goals
         /\ \A g \in Goals \ hook.left : g # hook.goal => g \notin unsettled
    /\ \/ hook.pc = "complete" /\ goals[hook.goal] = hook.seen[hook.goal]
       \/ hook.pc = "recheck"
       => (ProvenAsRead(hook.goal) => hook.goal \notin unsettled)
    /\ hook.pc \in {"render", "relist", "again", "verify", "rerender",
                    "silent", "allowed", "observed"} => unsettled = {}

(* If the goals are still what was listed, they were so when pending.json    *)
(* was read the first time.                                                  *)
SightIsWhole ==
    /\ hook.pc \in {"judge", "complete", "recheck", "render"} /\ goals = hook.seen
         => whole \/ OpenItems = hook.open
    /\ hook.pc = "relist" /\ (\A g \in hook.left : goals[g] = hook.seen[g]) => whole
    /\ hook.pc \in {"again", "verify", "rerender", "observed"} => whole

HookInv == HookTypes /\ ReadsArePast /\ CaptureIsSeen /\ PassedAreSettled /\ SightIsWhole

----------------------------------------------------------------------------
LEMMA NoReturn ==
  ASSUME IndInv, Forward, NEW g \in Goals, NEW rec \in GoalRecords \cup {None},
         Past(rec, goals[g])
  PROVE  Past(rec, goals'[g]) /\ (goals'[g] = rec => goals[g] = rec)
  <1>1. goals[g] \in GoalRecords \cup {None}
    BY DEF IndInv, Types
  <1>2. /\ goals[g] # None => goals[g].writes \in Nat
        /\ rec # None => rec.writes \in Nat
        /\ goals'[g] \in GoalRecords => goals'[g] # None /\ goals'[g].writes \in Nat
    BY <1>1, NoneIsNoRecord DEF GoalRecords
  <1>3. CASE goals'[g] = goals[g]
    BY <1>3
  <1>4. CASE /\ goals'[g] \in GoalRecords
             /\ Started(g) => goals[g].writes < goals'[g].writes
    BY <1>2, <1>4 DEF Past, Started
  <1> QED
    BY <1>3, <1>4 DEF Forward

LEMMA NoGoalsReturn ==
  ASSUME IndInv, IndInv', Forward, HookInv, hook.pc # "idle", hook.pc # "list",
         goals' = hook.seen
  PROVE  goals = hook.seen
  <1>1. hook.seen \in [Goals -> GoalRecords \cup {None}]
    BY DEF HookInv, HookTypes, HookRecords
  <1>2. ASSUME NEW g \in Goals PROVE goals[g] = hook.seen[g]
    BY <1>1, NoReturn DEF HookInv, ReadsArePast
  <1> QED
    BY <1>1, <1>2 DEF IndInv, Types

(* What a step in the middle of an evaluation notes                          *)
LEMMA Watched ==
  ASSUME Watch, hook.pc # "idle", hook'.pc # "idle"
  PROVE  /\ unsettled' \subseteq unsettled /\ views \subseteq views' /\ (whole => whole')
         /\ ~Stopped => /\ \A g \in Goals : Settled(g) => g \notin unsettled'
                        /\ files' \in views'
                        /\ AsRead => whole'
  BY DEF Watch

(* A command, an edit or a pending item in the middle of an evaluation       *)
LEMMA OthersStep ==
  ASSUME IndInv, IndInv', HookInv, Forward, UNCHANGED hook, Watch PROVE HookInv'
  <1>1. CASE hook.pc = "idle"
    BY <1>1 DEF Watch, HookInv, HookTypes, ReadsArePast, CaptureIsSeen, PassedAreSettled,
       SightIsWhole
  <1>2. CASE hook.pc # "idle"
    <2>1. /\ unsettled' \subseteq unsettled /\ views \subseteq views' /\ (whole => whole')
          /\ ~Stopped /\ AsRead => whole'
      BY <1>2, Watched
    <2>2. HookTypes'
      BY <2>1 DEF HookInv, HookTypes
    <2>3. ReadsArePast'
      <3>1. \A g \in Goals : hook.seen[g] \in GoalRecords \cup {None}
        BY DEF HookInv, HookTypes, HookRecords
      <3> QED
        BY <1>2, <2>1, <3>1, NoReturn DEF HookInv, ReadsArePast
    <2>4. CaptureIsSeen'
      BY <2>1 DEF HookInv, CaptureIsSeen
    <2>5. PassedAreSettled'
      <3>1. hook.pc = "complete" /\ goals'[hook.goal] = hook.seen[hook.goal]
              => goals[hook.goal] = hook.seen[hook.goal]
        <4>1. hook.seen[hook.goal] \in GoalRecords \cup {None} \/ hook.goal \notin Goals
          BY DEF HookInv, HookTypes, HookRecords
        <4> QED
          BY <4>1, NoReturn DEF HookInv, ReadsArePast, PassedAreSettled
      <3> QED
        BY <2>1, <3>1 DEF HookInv, PassedAreSettled, ProvenAsRead
    <2>6. SightIsWhole'
      <3>1. ASSUME hook.pc \in {"judge", "complete", "recheck", "render"}, goals' = hook.seen
            PROVE  whole'
        <4>1. goals = hook.seen
          BY <1>2, <3>1, NoGoalsReturn
        <4>2. whole \/ AsRead
          BY <3>1, <4>1 DEF HookInv, SightIsWhole, AsRead
        <4> QED
          BY <2>1, <3>1, <4>2 DEF Stopped
      <3>2. ASSUME hook.pc = "relist", \A g \in hook.left : goals'[g] = hook.seen[g]
            PROVE  whole'
        <4>1. ASSUME NEW g \in hook.left PROVE goals[g] = hook.seen[g]
          <5>1. g \in Goals /\ hook.seen[g] \in GoalRecords \cup {None}
            BY DEF HookInv, HookTypes, HookRecords
          <5> QED
            BY <3>2, <5>1, NoReturn DEF HookInv, ReadsArePast
        <4> QED
          BY <2>1, <3>2, <4>1 DEF HookInv, SightIsWhole
      <3>3. hook.pc \in {"again", "verify", "rerender", "observed"} => whole'
        BY <2>1 DEF HookInv, SightIsWhole
      <3> QED
        BY <3>1, <3>2, <3>3 DEF SightIsWhole
    <2> QED
      BY <2>2, <2>3, <2>4, <2>5, <2>6 DEF HookInv
  <1> QED
    BY <1>1, <1>2

(* The hook answers, or blocks.                                              *)
LEMMA BlocksStep ==
  ASSUME HookInv, Watch, Blocks PROVE HookInv'
  <1>1. hook' \in HookRecords /\ hook'.pc = "idle"
    BY DEF Blocks, NoHook, HookInv, HookTypes, HookRecords
  <1> QED
    BY <1>1 DEF Watch, HookInv, HookTypes, ReadsArePast, CaptureIsSeen, PassedAreSettled,
       SightIsWhole

LEMMA BeginStopStep ==
  ASSUME HookInv, Watch, BeginStop PROVE HookInv'
  <1>1. hook.pc = "idle" /\ UNCHANGED vars /\ hook \in HookRecords
    BY DEF BeginStop, Reads, HookInv, HookTypes
  <1>2. NoHook \in HookRecords
    BY DEF NoHook, HookRecords
  <1> DEFINE count == hook.stops + 1
  <1>3. hook' = [NoHook EXCEPT !.pc = "list", !.stops = count, !.left = Goals]
    BY DEF BeginStop
  <1>5. count \in Nat
    BY <1>1 DEF HookRecords
  <1> HIDE DEF count
  <1>4. hook' \in HookRecords /\ hook'.pc = "list" /\ hook'.left = Goals
    BY <1>2, <1>3, <1>5 DEF HookRecords
  <1> QED
    BY <1>1, <1>4 DEF Watch, HookInv, HookTypes, ReadsArePast, CaptureIsSeen, PassedAreSettled,
       SightIsWhole

LEMMA ReadGoalStep ==
  ASSUME IndInv, HookInv, Watch, NEW g \in Goals, ReadGoal(g) PROVE HookInv'
  <1> DEFINE seen == [hook.seen EXCEPT ![g] = goals[g]]
  <1>1. /\ hook.pc = "list" /\ hook \in HookRecords /\ UNCHANGED vars
        /\ hook' = [hook EXCEPT !.seen = seen, !.left = @ \ {g}]
    BY DEF ReadGoal, Reads, HookInv, HookTypes, HookRecords
  <1>2. /\ seen \in [Goals -> GoalRecords \cup {None}] /\ seen[g] = goals[g]
        /\ \A h \in Goals : h # g => seen[h] = hook.seen[h]
    BY <1>1 DEF HookRecords, IndInv, Types
  <1> HIDE DEF seen
  <1>3. /\ hook' \in HookRecords /\ hook'.pc = "list" /\ hook'.seen = seen
        /\ hook'.left = hook.left \ {g}
    BY <1>1, <1>2 DEF HookRecords
  <1>4. /\ unsettled' \subseteq unsettled
        /\ \A h \in Goals : Settled(h) => h \notin unsettled'
    BY <1>1, <1>3, Watched DEF Stopped
  <1>5. ReadsArePast'
    <2>1. Past(seen[g], goals[g])
      BY <1>2 DEF Past, IndInv, Types, GoalRecords
    <2>2. Current(seen[g]) \/ g \notin unsettled'
      BY <1>2, <1>4 DEF Settled
    <2>3. \A h \in Goals : h # g =>
            \/ h \in hook.left \ {g}
            \/ Past(seen[h], goals[h]) /\ (Current(seen[h]) \/ h \notin unsettled')
      BY <1>1, <1>2, <1>4 DEF HookInv, ReadsArePast
    <2> QED
      BY <1>1, <1>3, <2>1, <2>2, <2>3 DEF ReadsArePast, vars
  <1>6. HookTypes'
    BY <1>3, <1>4 DEF HookTypes, HookInv
  <1>7. CaptureIsSeen' /\ PassedAreSettled' /\ SightIsWhole'
    BY <1>3 DEF CaptureIsSeen, PassedAreSettled, SightIsWhole
  <1> QED
    BY <1>5, <1>6, <1>7 DEF HookInv

(* A step that only looks again, with what it keeps of the record of the     *)
(* evaluation                                                                *)
Looks(pc) ==
    /\ hook' \in HookRecords /\ hook'.pc = pc
    /\ hook'.seen = hook.seen /\ hook'.at = hook.at /\ hook'.open = hook.open
    /\ UNCHANGED vars

LEMMA GoesLooks ==
  ASSUME HookInv, Reads,
         NEW pc \in {"judge", "capture", "complete", "recheck", "render", "relist", "again",
                     "verify", "rerender", "silent", "allowed", "observed"},
         Goes(pc)
  PROVE  Looks(pc) /\ hook'.left = hook.left /\ hook'.goal = hook.goal
  BY DEF HookInv, HookTypes, HookRecords, Goes, Reads, Looks

LEMMA LooksFacts ==
  ASSUME IndInv, HookInv, Watch, NEW pc, pc \notin {"idle", "list"}, Looks(pc),
         hook.pc # "idle", ~Stopped, hook.pc = "list" => hook.left = {}
  PROVE  /\ HookTypes' /\ ReadsArePast'
         /\ unsettled' \subseteq unsettled /\ views \subseteq views' /\ (whole => whole')
         /\ \A g \in Goals : Settled(g) => g \notin unsettled'
         /\ files \in views'
         /\ AsRead => whole'
         /\ UNCHANGED <<files, goals, OpenItems>>
  <1>1. UNCHANGED <<files, goals, OpenItems>>
    BY DEF Looks, vars, OpenItems
  <1>2. /\ unsettled' \subseteq unsettled /\ views \subseteq views' /\ (whole => whole')
        /\ \A g \in Goals : Settled(g) => g \notin unsettled'
        /\ files \in views'
        /\ AsRead => whole'
    BY <1>1, Watched DEF Looks
  <1>3. HookTypes'
    BY <1>2 DEF HookInv, HookTypes, Looks
  <1>4. ReadsArePast'
    BY <1>1, <1>2 DEF HookInv, ReadsArePast, Looks
  <1> QED
    BY <1>1, <1>2, <1>3, <1>4

LEMMA ListingStep ==
  ASSUME IndInv, HookInv, Watch, Listing PROVE HookInv'
  <1> DEFINE pc == IF Listed = {} THEN "silent" ELSE "capture"
  <1>1. Looks(pc) /\ hook.pc = "list" /\ hook.left = {}
    BY GoesLooks DEF Listing
  <1>2. HookTypes' /\ ReadsArePast' /\ unsettled' \subseteq unsettled
    BY <1>1, LooksFacts DEF Stopped
  <1>3. Listed = {} => unsettled = {}
    BY <1>1 DEF Listed, HookInv, HookTypes, ReadsArePast
  <1> QED
    BY <1>1, <1>2, <1>3 DEF HookInv, CaptureIsSeen, PassedAreSettled, SightIsWhole, Looks

LEMMA CaptureFilesStep ==
  ASSUME IndInv, HookInv, Watch, CaptureFiles PROVE HookInv'
  <1>1. /\ hook.pc = "capture" /\ hook' \in HookRecords /\ hook'.pc = "pending"
        /\ hook'.seen = hook.seen /\ hook'.at = files /\ UNCHANGED vars
    BY DEF CaptureFiles, Reads, HookInv, HookTypes, HookRecords, IndInv, Types
  <1>2. files' = files /\ goals' = goals
    BY <1>1 DEF vars
  <1>3. unsettled' \subseteq unsettled /\ files' \in views'
    BY <1>1, Watched DEF Stopped
  <1> QED
    BY <1>1, <1>2, <1>3 DEF HookInv, HookTypes, ReadsArePast, CaptureIsSeen, PassedAreSettled,
       SightIsWhole

LEMMA PendingBeforeStep ==
  ASSUME IndInv, HookInv, Watch, PendingBefore PROVE HookInv'
  <1>1. Listed \subseteq Goals /\ OpenItems \subseteq Items
    BY DEF Listed, OpenItems
  <1>2. /\ hook.pc = "pending" /\ hook' \in HookRecords /\ hook'.pc = "judge"
        /\ hook'.seen = hook.seen /\ hook'.at = hook.at /\ hook'.open = OpenItems
        /\ hook'.left = Listed /\ UNCHANGED vars
    BY <1>1 DEF PendingBefore, Reads, HookInv, HookTypes, HookRecords
  <1>3. goals' = goals /\ OpenItems' = OpenItems
    BY <1>2 DEF vars, OpenItems
  <1>4. unsettled' \subseteq unsettled /\ views \subseteq views'
    BY <1>2, Watched
  <1>5. HookTypes' /\ ReadsArePast' /\ CaptureIsSeen' /\ SightIsWhole'
    BY <1>2, <1>3, <1>4 DEF HookInv, HookTypes, ReadsArePast, CaptureIsSeen, SightIsWhole
  <1>6. PassedAreSettled'
    <2>1. \A g \in Goals \ Listed : g \notin unsettled
      BY <1>2 DEF HookInv, ReadsArePast, Listed
    <2> QED
      BY <1>2, <1>4, <2>1 DEF PassedAreSettled
  <1> QED
    BY <1>5, <1>6 DEF HookInv

(* A goal that waits is settled whatever its record; a complete one if the   *)
(* record is still the one that was listed.                                  *)
LEMMA JudgeStep ==
  ASSUME IndInv, HookInv, Watch, NEW g \in Goals, Judge(g) PROVE HookInv'
  <1> DEFINE frontier == Frontier(hook.seen[g], Open(g))
  <1>1. CASE ~SchemaOK(hook.seen[g]) \/ frontier = "continue"
    BY <1>1, BlocksStep DEF Judge
  <1>2. CASE ~(~SchemaOK(hook.seen[g]) \/ frontier = "continue")
    <2> DEFINE ready == IF frontier = "ready" THEN hook.ready \cup {g} ELSE hook.ready
               pc == IF frontier = "complete" THEN "complete" ELSE hook.pc
               goal == IF frontier = "complete" THEN g ELSE None
    <2>1. /\ hook.pc = "judge" /\ g \in hook.left /\ UNCHANGED vars
          /\ hook' = [hook EXCEPT !.left = @ \ {g}, !.ready = ready, !.pc = pc, !.goal = goal]
      BY <1>2 DEF Judge, Reads, HookInv, HookTypes, HookRecords
    <2>2. /\ ready \in SUBSET Goals /\ goal \in Goals \cup {None} /\ pc \in {"judge", "complete"}
          /\ hook \in HookRecords
      BY <2>1 DEF HookInv, HookTypes, HookRecords
    <2>3. /\ frontier \in {"ready", "wait", "complete"}
          /\ (pc = "complete") <=> (frontier = "complete")
          /\ frontier = "complete" => goal = g
      BY <1>2, <2>1 DEF Frontier
    <2> HIDE DEF ready, pc, goal
    <2>4. /\ Looks(pc) /\ hook'.left = hook.left \ {g} /\ hook'.goal = goal
      BY <2>1, <2>2 DEF HookRecords, Looks
    <2>5. /\ HookTypes' /\ ReadsArePast'
          /\ unsettled' \subseteq unsettled /\ views \subseteq views' /\ (whole => whole')
          /\ Settled(g) => g \notin unsettled'
          /\ AsRead => whole'
          /\ UNCHANGED <<files, goals, OpenItems>>
      BY <2>1, <2>2, <2>4, LooksFacts DEF Stopped
    <2>6. frontier # "complete" => Settled(g)
      BY <2>3 DEF Settled, Frontier
    <2>7. frontier = "complete" /\ goals[g] = hook.seen[g] /\ ProvenAsRead(g) => Settled(g)
      <3>1. hook.at \in views
        BY <2>1 DEF HookInv, CaptureIsSeen
      <3> QED
        BY <3>1 DEF Settled, ProvenAsRead
    <2>8. PassedAreSettled'
      <3>1. \A h \in Goals \ hook.left : h \notin unsettled
        BY <2>1 DEF HookInv, PassedAreSettled
      <3>2. goals' = goals /\ ProvenAsRead(g)' = ProvenAsRead(g)
        BY <2>4, <2>5 DEF ProvenAsRead, Looks
      <3>3. CASE frontier = "complete"
        <4>1. hook'.pc = "complete" /\ hook'.goal = g
          BY <2>3, <2>4, <3>3 DEF Looks
        <4>2. goals'[g] = hook'.seen[g] /\ ProvenAsRead(g)' => g \notin unsettled'
          BY <2>4, <2>5, <2>7, <3>2, <3>3 DEF Looks
        <4> QED
          BY <2>4, <2>5, <3>1, <4>1, <4>2 DEF PassedAreSettled
      <3>4. CASE frontier # "complete"
        <4>1. hook'.pc = "judge"
          BY <2>2, <2>3, <2>4, <3>4 DEF Looks
        <4> QED
          BY <2>4, <2>5, <2>6, <3>1, <3>4, <4>1 DEF PassedAreSettled
      <3> QED
        BY <3>3, <3>4
    <2>9. CaptureIsSeen' /\ SightIsWhole'
      BY <2>1, <2>2, <2>4, <2>5 DEF HookInv, CaptureIsSeen, SightIsWhole, Looks
    <2> QED
      BY <2>5, <2>8, <2>9 DEF HookInv
  <1> QED
    BY <1>1, <1>2

LEMMA ReadAgainStep ==
  ASSUME IndInv, HookInv, Watch, ReadAgain PROVE HookInv'
  <1>1. CASE ~Unmoved(hook.goal)
    BY <1>1, BlocksStep DEF ReadAgain
  <1>2. CASE Unmoved(hook.goal)
    <2>1. hook.pc = "complete" /\ Looks("recheck") /\ UNCHANGED <<hook.left, hook.goal>>
      BY <1>2, GoesLooks DEF ReadAgain
    <2>2. /\ HookTypes' /\ ReadsArePast' /\ UNCHANGED <<goals, OpenItems>>
          /\ unsettled' \subseteq unsettled /\ views \subseteq views' /\ (whole => whole')
      BY <2>1, LooksFacts DEF Stopped
    <2>3. PassedAreSettled'
      BY <1>2, <2>1, <2>2 DEF HookInv, PassedAreSettled, ProvenAsRead, Unmoved, Looks
    <2>4. CaptureIsSeen' /\ SightIsWhole'
      BY <2>1, <2>2 DEF HookInv, CaptureIsSeen, SightIsWhole, Looks
    <2> QED
      BY <2>2, <2>3, <2>4 DEF HookInv
  <1> QED
    BY <1>1, <1>2

LEMMA CheckCompleteStep ==
  ASSUME IndInv, HookInv, Watch, CheckComplete PROVE HookInv'
  <1>1. CASE ~ProvenComplete(hook.goal)
    BY <1>1, BlocksStep DEF CheckComplete
  <1>2. CASE ProvenComplete(hook.goal)
    <2>1. hook.pc = "recheck" /\ Looks("judge") /\ UNCHANGED hook.left
      BY <1>2 DEF CheckComplete, Reads, Looks, HookInv, HookTypes, HookRecords
    <2>2. /\ HookTypes' /\ ReadsArePast' /\ UNCHANGED <<goals, OpenItems>>
          /\ unsettled' \subseteq unsettled /\ views \subseteq views' /\ (whole => whole')
      BY <2>1, LooksFacts DEF Stopped
    <2>3. hook.goal \notin unsettled
      BY <1>2, <2>1 DEF HookInv, PassedAreSettled, ProvenAsRead, ProvenComplete
    <2>4. PassedAreSettled'
      BY <2>1, <2>2, <2>3 DEF HookInv, PassedAreSettled, Looks
    <2>5. CaptureIsSeen' /\ SightIsWhole'
      BY <2>1, <2>2 DEF HookInv, CaptureIsSeen, SightIsWhole, Looks
    <2> QED
      BY <2>2, <2>4, <2>5 DEF HookInv
  <1> QED
    BY <1>1, <1>2

LEMMA PendingAfterStep ==
  ASSUME IndInv, HookInv, Watch, PendingAfter PROVE HookInv'
  <1>1. CASE OpenItems # hook.open
    BY <1>1, BlocksStep DEF PendingAfter
  <1>2. CASE OpenItems = hook.open
    <2> DEFINE pc == IF hook.ready = {} THEN "allowed" ELSE "render"
    <2>1. hook.pc = "judge" /\ hook.left = {} /\ Looks(pc)
      BY <1>2, GoesLooks DEF PendingAfter
    <2>2. /\ HookTypes' /\ ReadsArePast' /\ UNCHANGED <<goals, OpenItems>>
          /\ unsettled' \subseteq unsettled /\ views \subseteq views'
      BY <2>1, LooksFacts DEF Stopped
    <2>3. unsettled = {}
      BY <2>1 DEF HookInv, HookTypes, PassedAreSettled
    <2> QED
      BY <1>2, <2>1, <2>2, <2>3 DEF HookInv, CaptureIsSeen, PassedAreSettled, SightIsWhole, Looks
  <1> QED
    BY <1>1, <1>2

LEMMA AskedStep ==
  ASSUME IndInv, HookInv, Watch, Asked PROVE HookInv'
  <1>1. Questions \subseteq Items
    BY DEF Questions, Askable, Open
  <1>2. hook.pc = "render" /\ Looks("relist") /\ hook'.left = Goals
    BY <1>1 DEF Asked, Reads, Looks, HookInv, HookTypes, HookRecords
  <1>3. /\ HookTypes' /\ ReadsArePast' /\ UNCHANGED <<goals, OpenItems>>
        /\ unsettled' \subseteq unsettled /\ views \subseteq views' /\ (whole => whole')
        /\ AsRead => whole'
    BY <1>2, LooksFacts DEF Stopped
  <1>4. ASSUME \A g \in Goals : goals[g] = hook.seen[g] PROVE whole'
    <2>1. goals = hook.seen
      BY <1>4 DEF IndInv, Types, HookInv, HookTypes, HookRecords
    <2> QED
      BY <1>2, <1>3, <2>1 DEF HookInv, SightIsWhole, AsRead
  <1> QED
    BY <1>2, <1>3, <1>4 DEF HookInv, CaptureIsSeen, PassedAreSettled, SightIsWhole, Looks

LEMMA ConfirmStep ==
  ASSUME IndInv, HookInv, Watch, NEW g \in Goals, Confirm(g) PROVE HookInv'
  <1>1. CASE ~Unmoved(g)
    BY <1>1, BlocksStep DEF Confirm
  <1>2. CASE Unmoved(g)
    <2>1. hook.pc = "relist" /\ Looks("relist") /\ hook'.left = hook.left \ {g}
      BY <1>2 DEF Confirm, Reads, Looks, HookInv, HookTypes, HookRecords
    <2>2. /\ HookTypes' /\ ReadsArePast' /\ UNCHANGED goals
          /\ unsettled' \subseteq unsettled /\ views \subseteq views' /\ (whole => whole')
      BY <2>1, LooksFacts DEF Stopped
    <2> QED
      BY <1>2, <2>1, <2>2 DEF HookInv, CaptureIsSeen, PassedAreSettled, SightIsWhole, Looks,
         Unmoved
  <1> QED
    BY <1>1, <1>2

(* pending.json, the files and the questions once more                       *)
LEMMA ConfirmedStep ==
  ASSUME IndInv, HookInv, Watch, NEW pc \in {"again", "verify", "rerender", "observed"},
         hook.pc \in {"relist", "again", "verify", "rerender"}, Looks(pc),
         hook.pc = "relist" => hook.left = {}
  PROVE  HookInv'
  <1>1. /\ HookTypes' /\ ReadsArePast'
        /\ unsettled' \subseteq unsettled /\ views \subseteq views' /\ (whole => whole')
    BY LooksFacts DEF Stopped
  <1>2. unsettled = {} /\ whole
    BY DEF HookInv, PassedAreSettled, SightIsWhole
  <1> QED
    BY <1>1, <1>2 DEF HookInv, CaptureIsSeen, PassedAreSettled, SightIsWhole, Looks

LEMMA ConfirmsStep ==
  ASSUME IndInv, HookInv, Watch, ConfirmPending \/ ConfirmFiles \/ RenderAgain PROVE HookInv'
  <1>1. CASE ConfirmPending
    BY <1>1, GoesLooks, ConfirmedStep, BlocksStep DEF ConfirmPending
  <1>2. CASE ConfirmFiles
    BY <1>2, GoesLooks, ConfirmedStep, BlocksStep DEF ConfirmFiles
  <1>3. CASE RenderAgain
    BY <1>3, GoesLooks, ConfirmedStep, BlocksStep DEF RenderAgain
  <1> QED
    BY <1>1, <1>2, <1>3

LEMMA NextHookInv == IndInv /\ HookInv /\ [StopNext]_allVars => IndInv' /\ HookInv'
  <1> SUFFICES ASSUME IndInv, HookInv, [StopNext]_allVars PROVE IndInv' /\ HookInv'
    OBVIOUS
  <1>1. CASE HookStep /\ Watch
    <2>1. UNCHANGED vars
      BY <1>1 DEF HookStep, BeginStop, Listing, CaptureFiles, PendingBefore, ReadAgain,
         CheckComplete, PendingAfter, Asked, NotAsked, ConfirmPending, ConfirmFiles, RenderAgain,
         FinishStop, ReadGoal, Judge, Confirm, Reads
    <2>2. IndInv'
      BY <2>1, NextIndInv
    <2>3. HookInv'
      BY <1>1, BeginStopStep, ListingStep, CaptureFilesStep, PendingBeforeStep, ReadAgainStep,
         CheckCompleteStep, PendingAfterStep, AskedStep, ConfirmsStep, BlocksStep, ReadGoalStep,
         JudgeStep, ConfirmStep DEF HookStep, NotAsked, FinishStop
    <2> QED
      BY <2>2, <2>3
  <1>2. CASE Next /\ UNCHANGED hook /\ Watch
    BY <1>2, NextIndInv, OthersStep
  <1>3. CASE UNCHANGED allVars
    <2>1. UNCHANGED vars /\ UNCHANGED <<hook, views, unsettled, whole>>
      BY <1>3 DEF allVars, hookVars
    <2>2. IndInv' /\ goals' = goals /\ pending' = pending
      BY <2>1, NextIndInv DEF vars
    <2>3. HookInv'
      BY <2>1, <2>2 DEF HookInv, HookTypes, ReadsArePast, CaptureIsSeen, PassedAreSettled,
         ProvenAsRead, SightIsWhole, OpenItems
    <2> QED
      BY <2>2, <2>3
  <1> QED
    BY <1>1, <1>2, <1>3 DEF StopNext

THEOREM StopInvariance == StopSpec => [](IndInv /\ HookInv)
  <1>1. StopInit => IndInv /\ HookInv
    <2>1. StopInit => IndInv
      BY InitIndInv DEF StopInit
    <2>2. ASSUME StopInit PROVE hook \in HookRecords /\ hook.pc = "idle"
      BY <2>2 DEF StopInit, NoHook, HookRecords
    <2> QED
      BY <2>1, <2>2 DEF StopInit, HookInv, HookTypes, ReadsArePast, CaptureIsSeen,
         PassedAreSettled, SightIsWhole
  <1> QED
    BY <1>1, NextHookInv, PTL DEF StopSpec

(* The bound on evaluations, which the proofs above never need.              *)
LEMMA StopsAreCounted ==
  ASSUME HookInv, hook.stops <= MaxStops, [StopNext]_allVars PROVE hook'.stops <= MaxStops
  <1> DEFINE Same == hook'.stops = hook.stops
  <1>1. hook \in HookRecords
    BY DEF HookInv, HookTypes
  <1>2. CASE BeginStop
    BY <1>1, <1>2, StopsAssumption DEF BeginStop, NoHook, HookRecords
  <1>3. ASSUME Blocks PROVE Same
    BY <1>3 DEF Blocks, NoHook
  <1>4. ASSUME NEW pc, Goes(pc) PROVE Same
    BY <1>1, <1>4 DEF Goes, HookRecords
  <1>5. ASSUME NEW g \in Goals, ReadGoal(g) \/ Judge(g) \/ Confirm(g) PROVE Same
    <2>1. CASE ReadGoal(g) \/ Confirm(g)
      BY <1>1, <1>3, <2>1 DEF ReadGoal, Confirm, HookRecords
    <2>2. CASE Judge(g)
      <3>1. CASE Blocks
        BY <1>3, <3>1
      <3>2. CASE ~Blocks
        BY <1>1, <2>2, <3>2 DEF Judge, HookRecords
      <3> QED
        BY <3>1, <3>2
    <2> QED
      BY <1>5, <2>1, <2>2
  <1>6. CASE CaptureFiles \/ PendingBefore \/ CheckComplete \/ Asked
    BY <1>1, <1>3, <1>6 DEF CaptureFiles, PendingBefore, CheckComplete, Asked, HookRecords
  <1>7. CASE \/ Listing \/ ReadAgain \/ PendingAfter \/ NotAsked \/ ConfirmPending
             \/ ConfirmFiles \/ RenderAgain \/ FinishStop
    BY <1>3, <1>4, <1>7 DEF Listing, ReadAgain, PendingAfter, NotAsked, ConfirmPending,
       ConfirmFiles, RenderAgain, FinishStop
  <1>8. CASE UNCHANGED hook
    BY <1>8
  <1> QED
    BY <1>2, <1>5, <1>6, <1>7, <1>8 DEF StopNext, HookStep, allVars, hookVars

(* The record of an evaluation and its count keep their types.               *)
THEOREM HookTypeCorrect == StopSpec => []HookTypeOK
  <1>1. StopInit => hook.stops <= MaxStops
    BY StopsAssumption DEF StopInit, NoHook
  <1>2. HookInv /\ hook.stops <= MaxStops /\ [StopNext]_allVars => (hook.stops <= MaxStops)'
    BY StopsAreCounted
  <1>3. HookInv /\ hook.stops <= MaxStops => HookTypeOK
    <2> SUFFICES ASSUME HookInv, hook.stops <= MaxStops PROVE HookTypeOK
      OBVIOUS
    <2>1. hook \in HookRecords
      BY DEF HookInv, HookTypes
    <2>2. hook.stops \in 0 .. MaxStops
      BY <2>1, StopsAssumption DEF HookRecords
    <2> QED
      BY <2>1, <2>2 DEF HookTypeOK, HookRecords
  <1> QED
    BY <1>1, <1>2, <1>3, StopInvariance, PTL DEF StopSpec

(* A turn ends only when every goal that was current was settled meanwhile,  *)
(* and a turn that ends with a question saw the goals and the pending items  *)
(* of one instant: the records, read one after the other and without a lock, *)
(* are read twice, and no goal file becomes again what it was before.        *)
THEOREM StopSafe == StopSpec => []StopIsEarned
  <1>1. HookInv => StopIsEarned
    BY DEF HookInv, PassedAreSettled, SightIsWhole, StopIsEarned, Stopped
  <1> QED
    BY <1>1, StopInvariance, PTL
=============================================================================
