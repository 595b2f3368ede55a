-------------------------- MODULE CheckpointProofs --------------------------
(* Proofs about the two modules on checkpoints.                              *)
(* CheckpointMigration, for every set of migrations and saves and any number *)
(* of interruptions: its types, and that the workspace is never led to rows  *)
(* older than a save that was reported as made.                              *)
(* CheckpointRestore, for any number of files, deaths, errors and writes of  *)
(* others.  For any number of stores: its types, and that a state file       *)
(* written under its lock is never replaced.  For one store, the default     *)
(* one: that a restore that ended restored or undid everything, and that a   *)
(* whole snapshot to go back to is never missing.                            *)
EXTENDS CheckpointMigration, CheckpointRestore, FiniteSetTheorems, SequenceTheorems, TLAPS

(* First part: CheckpointMigration.                                          *)
States == {"none", "prepared", "publishing", "committed", "rollback_preparing",
           "rolling_back", "rolled_back"}
Journals == [state : States, base : {None} \cup Databases, rows : SUBSET Saves]

Unexposed == {"intend", "deactivate", "announce", "transition", "deny", "preparing",
              "install", "seed", "final", "expose"}
PublishSteps  == {"lock", "check", "activate", "commit", "consume"} \cup Unexposed
RollbackSteps == {"lock", "check", "disable", "snapshot", "swap", "restore", "withdraw", "settle"}

CommandIsTyped ==
    \/ command = Idle
    \/ \E t \in Migrations, step \in PublishSteps :
          command = [op |-> "publish", of |-> t, at |-> step]
    \/ \E t \in Migrations, step \in RollbackSteps :
          command = [op |-> "rollback", of |-> t, at |-> step]

(* TypeOK with the types of the journal and of the command                   *)
Types ==
    /\ TypeOK
    /\ journal \in [Migrations -> Journals]
    /\ \A t \in Migrations : journal[t].state # "none" => journal[t].base # None
    /\ CommandIsTyped

(* A command beyond its lock is alone with the store.                        *)
LockExcludes == command.at \notin {"none", "lock"} => lease = None

(* The saves reported as made, or about to be                                *)
Made == acknowledged \cup {s \in Saves : at[s] = "applied"}

(* The final marker tells where the latest rows are, whatever else is there. *)
HomeIsLatest ==
    IF Exposed THEN store # None /\ Made \subseteq store.rows
               ELSE vault # None /\ Made \subseteq vault.rows

(* The store is that of the one migration that was ever committed, its       *)
(* marker is there until its withdrawal put the latest rows into the vault.  *)
RecordsAgree ==
    /\ Exposed => store # None /\ store.object = marker.of
    /\ route.active => Exposed
    /\ \A t \in Migrations :
          LET state == journal[t].state IN
          /\ state \in {"committed", "rollback_preparing", "rolling_back", "rolled_back"} =>
                store # None /\ store.object = t
          /\ state \in {"committed", "rollback_preparing"} => marker = [kind |-> "final", of |-> t]
          /\ state \in {"rolling_back", "rolled_back"} /\ ~Exposed => vault.object = t
          /\ state # "none" => journal[t].base.object # t
          /\ vault # None /\ vault.object = t => state \in {"rolling_back", "rolled_back"}

(* What a command has established at each step                               *)
CommandIsSound ==
    /\ command.op = "publish" =>
          /\ command.at \in Unexposed => ~Exposed /\ vault = mine.base
          /\ command.at = "intend" => mine.state \in {"prepared", "publishing"}
          /\ command.at \in Unexposed \ {"intend"} => mine.state = "publishing"
          /\ command.at \in {"seed", "final", "expose"} => store = Staged
          /\ command.at \in {"activate", "commit"} =>
                marker = [kind |-> "final", of |-> t0] /\ mine.state \in {"publishing", "committed"}
    /\ command.op = "rollback" =>
          /\ command.at = "disable" => mine.state \in {"rollback_preparing", "rolling_back"}
          /\ command.at = "snapshot" => mine.state = "rollback_preparing"
          /\ command.at \in {"swap", "restore", "withdraw", "settle"} => mine.state = "rolling_back"
          /\ command.at \in {"snapshot", "swap", "restore", "withdraw"} => ~route.active
          /\ command.at \in {"restore", "withdraw"} => store.rows = mine.rows
          /\ command.at = "restore" => Exposed
          /\ command.at = "withdraw" =>
                vault # None /\ vault.object = t0 /\ mine.rows \subseteq vault.rows

IndInv ==
    /\ Types
    /\ LockExcludes
    /\ HomeIsLatest
    /\ RecordsAgree
    /\ CommandIsSound

----------------------------------------------------------------------------
LEMMA InitIndInv == Init => IndInv
  <1> SUFFICES ASSUME Init PROVE IndInv
    OBVIOUS
  <1> USE DEF Init
  <1>1. Original \in Databases /\ Original # None
    BY NoneAssumption DEF Original, Databases
  <1>2. TypeOK
    BY <1>1 DEF TypeOK, Kinds
  <1>3. Types
    BY <1>2 DEF Types, Journals, States, CommandIsTyped
  <1>4. ~Exposed /\ Made = {} /\ command.at = "none" /\ command.op = "none"
    BY DEF Exposed, Made, Idle
  <1>5. LockExcludes /\ HomeIsLatest
    BY <1>1, <1>4 DEF LockExcludes, HomeIsLatest
  <1>6. RecordsAgree
    BY <1>4, ConstantsAssumption DEF RecordsAgree, Original
  <1>7. CommandIsSound
    BY <1>4 DEF CommandIsSound
  <1> QED
    BY <1>3, <1>5, <1>6, <1>7 DEF IndInv

(* A command has a migration, and its journal.                               *)
LEMMA CommandFacts ==
  ASSUME Types, command.at # "none"
  PROVE  /\ t0 \in Migrations /\ mine \in Journals
         /\ command.op \in {"publish", "rollback"}
         /\ command = [op |-> command.op, of |-> t0, at |-> command.at]
         /\ command.op = "publish" => command.at \in PublishSteps
         /\ command.op = "rollback" => command.at \in RollbackSteps
  BY DEF Types, CommandIsTyped, Idle, t0, mine

LEMMA GoFacts ==
  ASSUME Types, command.at # "none", NEW step, Go(step),
         command.op = "publish" => step \in PublishSteps,
         command.op = "rollback" => step \in RollbackSteps
  PROVE  /\ command' = [op |-> command.op, of |-> t0, at |-> step]
         /\ t0' = t0 /\ CommandIsTyped'
  <1>1. /\ t0 \in Migrations /\ command.op \in {"publish", "rollback"}
        /\ command = [op |-> command.op, of |-> t0, at |-> command.at]
    BY CommandFacts
  <1>2. command' = [op |-> command.op, of |-> t0, at |-> step]
    BY <1>1 DEF Go
  <1>3. t0' = t0
    BY <1>2 DEF t0
  <1>4. CommandIsTyped'
    BY <1>1, <1>2 DEF CommandIsTyped
  <1> QED
    BY <1>2, <1>3, <1>4

LEMMA RecordFacts ==
  ASSUME Types, command.at # "none", NEW state \in States, mine.state # "none", Record(state)
  PROVE  /\ journal' \in [Migrations -> Journals]
         /\ journal'[t0] = [state |-> state, base |-> mine.base, rows |-> mine.rows]
         /\ \A t \in Migrations \ {t0} : journal'[t] = journal[t]
         /\ \A t \in Migrations : journal'[t].state # "none" => journal'[t].base # None
  <1>1. t0 \in Migrations /\ mine \in Journals
    BY CommandFacts
  <1> DEFINE new == [state |-> state, base |-> mine.base, rows |-> mine.rows]
  <1>2. new \in Journals
    BY <1>1 DEF Journals
  <1>3. /\ journal \in [Migrations -> Journals]
        /\ [journal[t0] EXCEPT !.state = state] = new
    BY <1>1 DEF mine, Types, Journals
  <1>4. journal' = [journal EXCEPT ![t0] = new]
    BY <1>3 DEF Record
  <1> QED
    BY <1>1, <1>2, <1>3, <1>4 DEF Types, mine

(* Rows and markers where they were: only the saves that were lost are no    *)
(* longer expected.                                                          *)
LEMMA NothingMoves ==
  ASSUME IndInv, UNCHANGED <<vault, marker, journal, store, route>>, Made' \subseteq Made
  PROVE  HomeIsLatest' /\ RecordsAgree'
  <1>1. HomeIsLatest'
    BY DEF IndInv, HomeIsLatest, Exposed
  <1>2. RecordsAgree'
    BY DEF IndInv, RecordsAgree, Exposed
  <1> QED
    BY <1>1, <1>2

(* A command that ends has nothing left to know.                             *)
LEMMA DoneStep ==
  ASSUME IndInv, Done,
         UNCHANGED <<local, marker, slots, denied, journal, store, route, clients>>,
         transition' \in {None} \cup Migrations
  PROVE  IndInv'
  <1> USE DEF local, clients
  <1>1. TypeOK' /\ Types'
    BY DEF IndInv, Types, TypeOK, CommandIsTyped, Done
  <1>2. LockExcludes' /\ CommandIsSound'
    BY DEF LockExcludes, CommandIsSound, Done, Idle
  <1>3. Made' = Made
    BY DEF Made
  <1> QED
    BY <1>1, <1>2, <1>3, NothingMoves DEF IndInv

----------------------------------------------------------------------------
(* Saves.                                                                    *)

LEMMA SaveLocallyStep ==
  ASSUME IndInv, NEW s \in Saves, SaveLocally(s)
  PROVE  IndInv'
  <1> USE DEF SaveLocally, controls, protected
  <1>1. /\ vault # None /\ vault \in Databases /\ ~Exposed /\ ~Pinned /\ Types
    BY DEF VaultServes, Exposed, IndInv, Types, TypeOK
  <1>2. /\ vault' = [object |-> vault.object, rows |-> vault.rows \cup {s}]
        /\ vault' \in Databases /\ vault' # None /\ vault'.object = vault.object
        /\ vault.rows \subseteq vault'.rows /\ s \in vault'.rows
    BY <1>1, NoneAssumption DEF Databases
  <1>3. TypeOK'
    BY <1>1, <1>2 DEF Types, TypeOK
  <1>4. Types'
    BY <1>1, <1>3 DEF Types, CommandIsTyped
  <1>5. Made' \subseteq Made \cup {s}
    BY <1>1 DEF Made, Types, TypeOK
  <1>6. HomeIsLatest'
    BY <1>1, <1>2, <1>5 DEF IndInv, HomeIsLatest, Exposed
  <1>7. RecordsAgree'
    BY <1>1, <1>2 DEF IndInv, RecordsAgree, Exposed
  <1>8. command.at \in {"none", "lock", "check", "withdraw", "settle"}
    BY <1>1 DEF Pinned
  <1>9. CommandIsSound'
    BY <1>2, <1>8 DEF IndInv, CommandIsSound, Unexposed, Exposed, mine, t0, Staged
  <1>10. LockExcludes'
    BY DEF IndInv, LockExcludes
  <1> QED
    BY <1>4, <1>6, <1>7, <1>9, <1>10 DEF IndInv

(* A save that moves without writing a row.                                  *)
LEMMA WaitingSave ==
  ASSUME IndInv, UNCHANGED <<local, controls, protected, command>>, TypeOK', LockExcludes',
         Made' \subseteq Made
  PROVE  IndInv'
  <1> USE DEF local, controls, protected
  <1>1. Types'
    BY DEF IndInv, Types, CommandIsTyped
  <1>2. CommandIsSound'
    BY DEF IndInv, CommandIsSound, Exposed, mine, t0, Staged
  <1> QED
    BY <1>1, <1>2, NothingMoves DEF IndInv

LEMMA WaitingSteps ==
  ASSUME IndInv, NEW s \in Saves,
         SeeRoute(s) \/ Acquire(s) \/ ApplyRefused(s) \/ Answer(s) \/ Lapse
  PROVE  IndInv'
  <1> USE DEF local, controls, protected, clients
  <1>1. TypeOK /\ LockExcludes
    BY DEF IndInv, Types
  <1>2. CASE SeeRoute(s)
    <2>1. TypeOK' /\ LockExcludes' /\ Made' \subseteq Made
      BY <1>1, <1>2 DEF SeeRoute, TypeOK, LockExcludes, Made
    <2> QED
      BY <1>2, <2>1, WaitingSave DEF SeeRoute
  <1>3. CASE Acquire(s)
    <2>1. TypeOK' /\ LockExcludes' /\ Made' \subseteq Made
      BY <1>1, <1>3 DEF Acquire, LockIsFree, TypeOK, LockExcludes, Made
    <2> QED
      BY <1>3, <2>1, WaitingSave DEF Acquire
  <1>4. CASE ApplyRefused(s)
    <2>1. TypeOK' /\ LockExcludes' /\ Made' \subseteq Made
      BY <1>1, <1>4 DEF ApplyRefused, TypeOK, LockExcludes, Made
    <2> QED
      BY <1>4, <2>1, WaitingSave DEF ApplyRefused
  <1>5. CASE Answer(s)
    <2>1. TypeOK' /\ LockExcludes' /\ Made' \subseteq Made
      BY <1>1, <1>5 DEF Answer, TypeOK, LockExcludes, Made
    <2> QED
      BY <1>5, <2>1, WaitingSave DEF Answer
  <1>6. CASE Lapse
    <2>1. TypeOK' /\ LockExcludes' /\ Made' \subseteq Made
      BY <1>1, <1>6 DEF Lapse, TypeOK, LockExcludes, Made
    <2> QED
      BY <1>6, <2>1, WaitingSave DEF Lapse
  <1> QED
    BY <1>2, <1>3, <1>4, <1>5, <1>6

(* The worker applies a save only while no command holds the lock, and only  *)
(* under the final marker.                                                   *)
LEMMA ApplyStep ==
  ASSUME IndInv, NEW s \in Saves, Apply(s)
  PROVE  IndInv'
  <1> USE DEF Apply, MayApply, local, controls
  <1>1. /\ Types /\ Exposed /\ store # None /\ store \in Databases
        /\ command.at \in {"none", "lock"}
    BY ConstantsAssumption DEF IndInv, Types, TypeOK, RecordsAgree, LockExcludes
  <1>2. /\ store' = [object |-> store.object, rows |-> store.rows \cup {s}]
        /\ store' \in Databases /\ store' # None /\ store'.object = store.object
        /\ store.rows \subseteq store'.rows /\ s \in store'.rows
    BY <1>1, NoneAssumption DEF Databases
  <1>3. TypeOK'
    BY <1>1, <1>2 DEF Types, TypeOK
  <1>4. Types'
    BY <1>1, <1>3 DEF Types, CommandIsTyped
  <1>5. Made' \subseteq Made \cup {s}
    BY <1>1 DEF Made, Types, TypeOK
  <1>6. HomeIsLatest'
    BY <1>1, <1>2, <1>5 DEF IndInv, HomeIsLatest, Exposed
  <1>7. RecordsAgree'
    BY <1>1, <1>2 DEF IndInv, RecordsAgree, Exposed
  <1>8. CommandIsSound'
    BY <1>1 DEF CommandIsSound, Unexposed
  <1>9. LockExcludes'
    BY DEF IndInv, LockExcludes
  <1> QED
    BY <1>4, <1>6, <1>7, <1>8, <1>9 DEF IndInv

----------------------------------------------------------------------------
(* Commands begin.                                                           *)

LEMMA PrepareStep ==
  ASSUME IndInv, NEW t \in Migrations, Prepare(t)
  PROVE  IndInv'
  <1> USE DEF Prepare, local, controls, clients
  <1>1. Types /\ vault \in Databases /\ journal[t] \in Journals
    BY DEF IndInv, Types, TypeOK
  <1> DEFINE new == [state |-> "prepared", base |-> vault, rows |-> journal[t].rows]
  <1>2. new \in Journals
    BY <1>1 DEF Journals, States
  <1>0. /\ journal \in [Migrations -> Journals]
        /\ journal[t] = [state |-> journal[t].state, base |-> journal[t].base,
                          rows |-> journal[t].rows]
    BY <1>1 DEF Types, Journals
  <1> DEFINE started == [state |-> "prepared", base |-> journal[t].base, rows |-> journal[t].rows]
  <1>3. journal' = [journal EXCEPT ![t] = new]
    <2>1. [journal[t] EXCEPT !.state = "prepared"] = started
      BY <1>0
    <2>2. [started EXCEPT !.base = vault] = new
      OBVIOUS
    <2>3. journal' = [journal EXCEPT ![t] =
                        [[journal[t] EXCEPT !.state = "prepared"] EXCEPT !.base = vault]]
      BY <1>0
    <2> QED
      BY <2>1, <2>2, <2>3
  <1>4. /\ journal' \in [Migrations -> Journals] /\ journal'[t] = new
        /\ \A u \in Migrations \ {t} : journal'[u] = journal[u]
    BY <1>0, <1>1, <1>2, <1>3
  <1>5. Types'
    BY <1>1, <1>4 DEF Types, TypeOK, CommandIsTyped
  <1>6. LockExcludes' /\ CommandIsSound'
    BY DEF LockExcludes, CommandIsSound, Idle
  <1>7. HomeIsLatest'
    BY DEF IndInv, HomeIsLatest, Exposed, Made
  <1>8. vault.object # t
    BY DEF IndInv, RecordsAgree
  <1>9. RecordsAgree'
    BY <1>4, <1>8 DEF IndInv, RecordsAgree, Exposed
  <1> QED
    BY <1>5, <1>6, <1>7, <1>9 DEF IndInv

LEMMA BeginStep ==
  ASSUME IndInv, NEW op \in {"publish", "rollback"}, NEW t \in Migrations, Begin(op, t)
  PROVE  IndInv'
  <1> USE DEF Begin, local, controls, protected, clients
  <1>1. command' = [op |-> op, of |-> t, at |-> "lock"]
    OBVIOUS
  <1>2. Types'
    BY <1>1 DEF IndInv, Types, TypeOK, CommandIsTyped, PublishSteps, RollbackSteps
  <1>3. LockExcludes' /\ CommandIsSound'
    BY <1>1 DEF LockExcludes, CommandIsSound, Unexposed
  <1>4. Made' = Made
    BY DEF Made
  <1> QED
    BY <1>2, <1>3, <1>4, NothingMoves DEF IndInv

(* A command that goes on and moves neither rows, markers nor its journal:   *)
(* only what its next step expects is to be shown.                           *)
LEMMA GoStep ==
  ASSUME IndInv, command.at # "none", NEW step, Go(step),
         command.op = "publish" => step \in PublishSteps,
         command.op = "rollback" => step \in RollbackSteps,
         LockExcludes',
         UNCHANGED <<local, marker, denied, journal, store, route, clients>>,
         slots' \in [Migrations -> [Kinds -> {"none", "torn", "whole"}]],
         transition' \in {None} \cup Migrations,
         CommandIsSound'
  PROVE  IndInv'
  <1> USE DEF local, clients
  <1>1. CommandIsTyped' /\ TypeOK /\ Types
    BY GoFacts DEF IndInv, Types
  <1>2. TypeOK'
    BY <1>1 DEF TypeOK
  <1>3. Types'
    BY <1>1, <1>2 DEF Types
  <1>4. Made' = Made
    BY DEF Made
  <1> QED
    BY <1>3, <1>4, NothingMoves DEF IndInv

LEMMA LockSteps ==
  ASSUME IndInv, TakeLock \/ LockTimesOut
  PROVE  IndInv'
  <1> USE DEF local, controls, protected, clients
  <1>1. CASE TakeLock
    <2>1. Types /\ command.at # "none" /\ Go("check") /\ lease' = None
      BY <1>1 DEF TakeLock, IndInv
    <2>2. command'.at = "check" /\ LockExcludes' /\ CommandIsSound'
      BY <2>1, GoFacts DEF LockExcludes, CommandIsSound, PublishSteps, RollbackSteps, Unexposed
    <2> QED
      BY <1>1, <2>1, <2>2, GoStep DEF TakeLock, PublishSteps, RollbackSteps, Types, TypeOK
  <1>2. CASE LockTimesOut
    BY <1>2, DoneStep DEF LockTimesOut, IndInv, Types, TypeOK
  <1> QED
    BY <1>1, <1>2

LEMMA RefusedSteps ==
  ASSUME IndInv,
         \/ CheckRefused \/ InstallRefused \/ RollbackRefused \/ SwapRefused \/ Consume \/ Stop
         \/ \E kind \in Kinds : SlotRefused(kind)
  PROVE  IndInv'
  <1> USE DEF local, controls, protected, clients
  <1>1. Done /\ UNCHANGED <<local, marker, slots, denied, journal, store, route, clients>>
    BY DEF CheckRefused, InstallRefused, RollbackRefused, SwapRefused, Consume, Stop, SlotRefused
  <1>2. transition' \in {None, transition}
    BY DEF CheckRefused, InstallRefused, RollbackRefused, SwapRefused, Consume, Stop, SlotRefused
  <1>3. transition \in {None} \cup Migrations
    BY DEF IndInv, Types, TypeOK
  <1> QED
    BY <1>1, <1>2, <1>3, DoneStep

----------------------------------------------------------------------------
(* publish_checkpoint_migration.                                             *)

LEMMA CheckStep ==
  ASSUME IndInv, Check
  PROVE  IndInv'
  <1> USE DEF Check, At, local, controls, protected, clients
  <1>1. Types /\ command.at # "none" /\ lease = None /\ t0 \in Migrations /\ mine = journal[t0]
    BY CommandFacts DEF IndInv, LockExcludes, mine
  <1>2. /\ transition \in {None} \cup Migrations
        /\ slots \in [Migrations -> [Kinds -> {"none", "torn", "whole"}]]
    BY <1>1 DEF Types, TypeOK
  <1>3. CASE Exposed
    <2>1. Go("activate") /\ marker = [kind |-> "final", of |-> t0]
      BY <1>1, <1>3 DEF PublishAdmitted, IsMine, Exposed, Types, TypeOK, Markers
    <2>2. command' = [op |-> "publish", of |-> t0, at |-> "activate"] /\ t0' = t0
      BY <1>1, <2>1, GoFacts DEF PublishSteps
    <2>3. CommandIsSound' /\ LockExcludes'
      BY <1>1, <1>3, <2>1, <2>2 DEF CommandIsSound, LockExcludes, Unexposed, mine
    <2> QED
      BY <1>1, <1>2, <2>1, <2>3, GoStep DEF PublishSteps
  <1>4. CASE ~Exposed
    <2>1. Go("intend") /\ vault = mine.base /\ mine.state \in {"prepared", "publishing"}
      BY <1>4 DEF PublishAdmitted
    <2>2. command' = [op |-> "publish", of |-> t0, at |-> "intend"] /\ t0' = t0
      BY <1>1, <2>1, GoFacts DEF PublishSteps, Unexposed
    <2>3. CommandIsSound' /\ LockExcludes'
      BY <1>1, <1>4, <2>1, <2>2 DEF CommandIsSound, LockExcludes, Unexposed, mine, Exposed
    <2> QED
      BY <1>1, <1>2, <2>1, <2>3, GoStep DEF PublishSteps, Unexposed
  <1> QED
    BY <1>3, <1>4

LEMMA IntendStep ==
  ASSUME IndInv, Intend
  PROVE  IndInv'
  <1> USE DEF Intend, At, local, controls, clients
  <1>1. /\ Types /\ command.at # "none" /\ lease = None /\ t0 \in Migrations /\ mine = journal[t0]
        /\ ~Exposed /\ vault = mine.base /\ mine.state \in {"prepared", "publishing"}
    BY CommandFacts DEF IndInv, LockExcludes, mine, CommandIsSound, Unexposed
  <1>2. command' = [op |-> "publish", of |-> t0, at |-> "deactivate"] /\ t0' = t0 /\ CommandIsTyped'
    BY <1>1, GoFacts DEF PublishSteps, Unexposed
  <1>3. /\ journal' \in [Migrations -> Journals]
        /\ journal'[t0] = [state |-> "publishing", base |-> mine.base, rows |-> mine.rows]
        /\ \A t \in Migrations \ {t0} : journal'[t] = journal[t]
        /\ \A t \in Migrations : journal'[t].state # "none" => journal'[t].base # None
    BY <1>1, RecordFacts DEF States
  <1>4. Types'
    BY <1>1, <1>2, <1>3 DEF Types, TypeOK
  <1>5. LockExcludes' /\ HomeIsLatest'
    BY <1>1 DEF IndInv, LockExcludes, HomeIsLatest, Exposed, Made
  <1>6. RecordsAgree'
    BY <1>1, <1>3 DEF IndInv, RecordsAgree, Exposed
  <1>7. CommandIsSound'
    BY <1>1, <1>2, <1>3 DEF CommandIsSound, Unexposed, Exposed, mine
  <1> QED
    BY <1>4, <1>5, <1>6, <1>7 DEF IndInv

(* The route is switched with the marker there, and off in any case.         *)
LEMMA RouteStep ==
  ASSUME IndInv, command.at # "none", NEW step, Go(step), NEW active \in BOOLEAN,
         command.op = "publish" => step \in PublishSteps,
         command.op = "rollback" => step \in RollbackSteps,
         LockExcludes',
         route' = [active |-> active, of |-> t0], active => Exposed,
         UNCHANGED <<local, controls, journal, store, clients>>,
         CommandIsSound'
  PROVE  IndInv'
  <1> USE DEF local, controls, clients
  <1>1. CommandIsTyped' /\ Types /\ t0 \in Migrations
    BY GoFacts, CommandFacts DEF IndInv
  <1>2. route' \in [active : BOOLEAN, of : {None} \cup Migrations]
    BY <1>1
  <1>3. TypeOK' /\ Types'
    BY <1>1, <1>2 DEF Types, TypeOK
  <1>4. HomeIsLatest'
    BY DEF IndInv, HomeIsLatest, Exposed, Made
  <1>5. route'.active = active
    OBVIOUS
  <1>6. RecordsAgree'
    BY <1>5 DEF IndInv, RecordsAgree, Exposed
  <1> QED
    BY <1>3, <1>4, <1>6 DEF IndInv

LEMMA DeactivateStep ==
  ASSUME IndInv, Deactivate
  PROVE  IndInv'
  <1> USE DEF Deactivate, At, local, controls, clients
  <1>1. /\ Types /\ command.at # "none" /\ lease = None /\ t0 \in Migrations
        /\ ~Exposed /\ vault = mine.base /\ mine.state = "publishing"
    BY CommandFacts DEF IndInv, LockExcludes, CommandIsSound, Unexposed
  <1>2. command' = [op |-> "publish", of |-> t0, at |-> "announce"] /\ t0' = t0
    BY <1>1, GoFacts DEF PublishSteps, Unexposed
  <1>3. CommandIsSound' /\ LockExcludes'
    BY <1>1, <1>2 DEF CommandIsSound, LockExcludes, Unexposed, Exposed, mine
  <1> QED
    BY <1>1, <1>3, RouteStep DEF PublishSteps, Unexposed

(* A control file is created, filled, or taken.                              *)
LEMMA SlotFacts ==
  ASSUME Types, t0 \in Migrations, NEW kind \in Kinds, NEW state \in {"none", "torn", "whole"},
         SetSlot(kind, state)
  PROVE  slots' \in [Migrations -> [Kinds -> {"none", "torn", "whole"}]]
  <1> DEFINE new == [slots[t0] EXCEPT ![kind] = state]
  <1>1. slots \in [Migrations -> [Kinds -> {"none", "torn", "whole"}]]
    BY DEF Types, TypeOK
  <1>2. new \in [Kinds -> {"none", "torn", "whole"}]
    BY <1>1
  <1>3. slots' = [slots EXCEPT ![t0] = new]
    BY DEF SetSlot
  <1> QED
    BY <1>1, <1>2, <1>3

LEMMA SlotSteps ==
  ASSUME IndInv, NEW kind \in Kinds, CreateSlot(kind) \/ FillSlot(kind)
  PROVE  IndInv'
  <1> USE DEF local, protected, clients
  <1> DEFINE step == IF CreateSlot(kind) THEN kind ELSE Writing[kind]
  <1>1. /\ kind \in Unexposed /\ Writing[kind] \in Unexposed
        /\ Writing[kind] # "intend" /\ kind # "intend"
        /\ kind = "final" <=> Writing[kind] \in {"seed", "final", "expose"}
        /\ kind \in {"seed", "final", "expose"} => kind = "final"
    BY DEF Kinds, Writing, Unexposed
  <1>2. /\ command.op = "publish" /\ command.at \in {kind, Writing[kind]}
        /\ Go(step) /\ step \in {kind, Writing[kind]}
        /\ SetSlot(kind, "torn") \/ SetSlot(kind, "whole")
        /\ UNCHANGED <<local, marker, transition, denied, protected, clients>>
    BY DEF CreateSlot, FillSlot, At
  <1> HIDE DEF step
  <1>3. /\ Types /\ command.at # "none" /\ lease = None /\ t0 \in Migrations
        /\ ~Exposed /\ vault = mine.base /\ mine.state = "publishing"
        /\ kind = "final" => store = Staged
    BY <1>1, <1>2, CommandFacts DEF IndInv, LockExcludes, CommandIsSound, Unexposed
  <1>4. command' = [op |-> "publish", of |-> t0, at |-> step] /\ t0' = t0
    BY <1>1, <1>2, <1>3, GoFacts DEF PublishSteps
  <1>5. CommandIsSound' /\ LockExcludes'
    BY <1>1, <1>2, <1>3, <1>4 DEF CommandIsSound, LockExcludes, Unexposed, Exposed, mine, Staged
  <1>6. slots' \in [Migrations -> [Kinds -> {"none", "torn", "whole"}]]
    BY <1>2, <1>3, SlotFacts
  <1>7. transition \in {None} \cup Migrations
    BY <1>3 DEF Types, TypeOK
  <1> QED
    BY <1>1, <1>2, <1>3, <1>5, <1>6, <1>7, GoStep DEF PublishSteps

LEMMA AnnounceStep ==
  ASSUME IndInv, Announce
  PROVE  IndInv'
  <1> USE DEF Announce, At, local, protected, clients
  <1>1. /\ Types /\ command.at # "none" /\ lease = None /\ t0 \in Migrations
        /\ ~Exposed /\ vault = mine.base /\ mine.state = "publishing"
    BY CommandFacts DEF IndInv, LockExcludes, CommandIsSound, Unexposed
  <1>2. command' = [op |-> "publish", of |-> t0, at |-> "deny"] /\ t0' = t0
    BY <1>1, GoFacts DEF PublishSteps, Unexposed
  <1>3. CommandIsSound' /\ LockExcludes'
    BY <1>1, <1>2 DEF CommandIsSound, LockExcludes, Unexposed, Exposed, mine
  <1>4. /\ slots' \in [Migrations -> [Kinds -> {"none", "torn", "whole"}]]
        /\ transition' \in {None} \cup Migrations
    BY <1>1, SlotFacts DEF Types, TypeOK, Kinds
  <1> QED
    BY <1>1, <1>3, <1>4, GoStep DEF PublishSteps, Unexposed

(* The deny marker is not the final one.                                     *)
LEMMA DenyStep ==
  ASSUME IndInv, Deny
  PROVE  IndInv'
  <1> USE DEF Deny, At, local, protected, clients
  <1>1. /\ Types /\ command.at # "none" /\ lease = None /\ t0 \in Migrations
        /\ ~Exposed /\ vault = mine.base /\ mine.state = "publishing"
    BY CommandFacts DEF IndInv, LockExcludes, CommandIsSound, Unexposed
  <1>2. command' = [op |-> "publish", of |-> t0, at |-> "install"] /\ t0' = t0 /\ CommandIsTyped'
    BY <1>1, GoFacts DEF PublishSteps, Unexposed
  <1>3. /\ slots' \in [Migrations -> [Kinds -> {"none", "torn", "whole"}]]
        /\ marker' \in {marker, [kind |-> "preparing", of |-> t0]}
        /\ marker' # marker => marker = None
    BY <1>1, SlotFacts DEF Types, TypeOK, Kinds, Needed
  <1>4. ~Exposed' /\ marker' \in {None} \cup Markers
    BY <1>1, <1>3 DEF Exposed, Types, TypeOK, Markers
  <1>5. Types'
    BY <1>1, <1>2, <1>3, <1>4 DEF Types, TypeOK
  <1>6. LockExcludes' /\ HomeIsLatest'
    BY <1>1, <1>4 DEF IndInv, LockExcludes, HomeIsLatest, Made
  <1>7. \A t \in Migrations : marker # [kind |-> "final", of |-> t]
    BY <1>1, NoneAssumption DEF Exposed, Markers
  <1>8. RecordsAgree'
    BY <1>1, <1>4, <1>7 DEF IndInv, RecordsAgree
  <1>9. CommandIsSound'
    BY <1>1, <1>2, <1>4 DEF CommandIsSound, Unexposed, mine
  <1> QED
    BY <1>5, <1>6, <1>8, <1>9 DEF IndInv

(* The store that is there, if any, is the stage itself.                     *)
LEMMA InstallStep ==
  ASSUME IndInv, Install
  PROVE  IndInv'
  <1> USE DEF Install, At, local, controls, clients
  <1>1. /\ Types /\ command.at # "none" /\ lease = None /\ t0 \in Migrations
        /\ ~Exposed /\ vault = mine.base /\ mine.state = "publishing" /\ mine = journal[t0]
    BY CommandFacts DEF IndInv, LockExcludes, CommandIsSound, Unexposed, mine
  <1>2. command' = [op |-> "publish", of |-> t0, at |-> "seed"] /\ t0' = t0 /\ CommandIsTyped'
    BY <1>1, GoFacts DEF PublishSteps, Unexposed
  <1>3. vault # None /\ vault \in Databases
    BY <1>1 DEF IndInv, HomeIsLatest, Types, TypeOK
  <1>4. Staged \in Databases /\ Staged # None /\ Staged.object = t0
    BY <1>1, <1>3, NoneAssumption DEF Staged, Databases
  <1>5. Types'
    BY <1>1, <1>2, <1>4 DEF Types, TypeOK
  <1>6. LockExcludes' /\ HomeIsLatest'
    BY <1>1 DEF IndInv, LockExcludes, HomeIsLatest, Exposed, Made
  <1>7. RecordsAgree'
    BY <1>1, <1>4 DEF IndInv, RecordsAgree, Exposed
  <1>8. CommandIsSound'
    BY <1>1, <1>2 DEF CommandIsSound, Unexposed, Exposed, mine, Staged
  <1> QED
    BY <1>5, <1>6, <1>7, <1>8 DEF IndInv

(* Until its marker is exposed the store is a copy of the vault.             *)
LEMMA DisplaceStep ==
  ASSUME IndInv, Displace
  PROVE  IndInv'
  <1> USE DEF Displace, At, local, protected, clients
  <1>1. /\ Types /\ command.at # "none" /\ lease = None /\ t0 \in Migrations
        /\ ~Exposed /\ vault = mine.base /\ mine.state = "publishing" /\ store = Staged
    BY CommandFacts DEF IndInv, LockExcludes, CommandIsSound, Unexposed
  <1>2. command' = [op |-> "publish", of |-> t0, at |-> "expose"] /\ t0' = t0 /\ CommandIsTyped'
    BY <1>1, GoFacts DEF PublishSteps, Unexposed
  <1>3. ~Exposed' /\ \A t \in Migrations : marker # [kind |-> "final", of |-> t]
    BY <1>1, NoneAssumption DEF Exposed, Markers
  <1>4. Types'
    BY <1>1, <1>2 DEF Types, TypeOK
  <1>5. LockExcludes' /\ HomeIsLatest'
    BY <1>1, <1>3 DEF IndInv, LockExcludes, HomeIsLatest, Made
  <1>6. RecordsAgree'
    BY <1>1, <1>3 DEF IndInv, RecordsAgree
  <1>7. CommandIsSound'
    BY <1>1, <1>2, <1>3 DEF CommandIsSound, Unexposed, mine, Staged
  <1> QED
    BY <1>4, <1>5, <1>6, <1>7 DEF IndInv

LEMMA ExposeStep ==
  ASSUME IndInv, Expose
  PROVE  IndInv'
  <1> USE DEF Expose, At, local, protected, clients
  <1>1. /\ Types /\ command.at # "none" /\ lease = None /\ t0 \in Migrations
        /\ ~Exposed /\ vault = mine.base /\ mine.state = "publishing" /\ store = Staged
        /\ mine = journal[t0]
    BY CommandFacts DEF IndInv, LockExcludes, CommandIsSound, Unexposed, mine
  <1>2. command' = [op |-> "publish", of |-> t0, at |-> "activate"] /\ t0' = t0 /\ CommandIsTyped'
    BY <1>1, GoFacts DEF PublishSteps
  <1>3. marker' \in Markers /\ marker' # None /\ Exposed' /\ marker'.of = t0
    BY <1>1, NoneAssumption DEF Exposed, Markers
  <1>4. slots' \in [Migrations -> [Kinds -> {"none", "torn", "whole"}]]
    BY <1>1, SlotFacts DEF Kinds
  <1>5. Types'
    BY <1>1, <1>2, <1>3, <1>4 DEF Types, TypeOK
  <1>6. /\ store # None /\ store.object = t0 /\ store.rows = vault.rows
    BY <1>1, NoneAssumption DEF Staged, IndInv, HomeIsLatest, Databases, Types, TypeOK
  <1>7. LockExcludes' /\ HomeIsLatest'
    BY <1>1, <1>3, <1>6 DEF IndInv, LockExcludes, HomeIsLatest, Made
  <1>8. \A t \in Migrations : marker # [kind |-> "final", of |-> t]
    BY <1>1, NoneAssumption DEF Exposed, Markers
  <1>9. RecordsAgree'
    BY <1>1, <1>3, <1>6, <1>8 DEF IndInv, RecordsAgree
  <1>10. CommandIsSound'
    BY <1>1, <1>2 DEF CommandIsSound, Unexposed, mine
  <1> QED
    BY <1>5, <1>7, <1>9, <1>10 DEF IndInv

LEMMA ActivateStep ==
  ASSUME IndInv, Activate
  PROVE  IndInv'
  <1> USE DEF Activate, At, local, controls, clients
  <1>1. /\ Types /\ command.at # "none" /\ lease = None /\ t0 \in Migrations
        /\ marker = [kind |-> "final", of |-> t0] /\ mine.state \in {"publishing", "committed"}
    BY CommandFacts DEF IndInv, LockExcludes, CommandIsSound
  <1>2. command' = [op |-> "publish", of |-> t0, at |-> "commit"] /\ t0' = t0
    BY <1>1, GoFacts DEF PublishSteps
  <1>3. CommandIsSound' /\ LockExcludes'
    BY <1>1, <1>2 DEF CommandIsSound, LockExcludes, Unexposed, mine
  <1>4. Exposed
    BY <1>1, NoneAssumption DEF Exposed, Markers
  <1> QED
    BY <1>1, <1>3, <1>4, RouteStep DEF PublishSteps

LEMMA CommitStep ==
  ASSUME IndInv, Commit
  PROVE  IndInv'
  <1> USE DEF Commit, At, local, controls, clients
  <1>1. /\ Types /\ command.at # "none" /\ lease = None /\ t0 \in Migrations /\ mine = journal[t0]
        /\ marker = [kind |-> "final", of |-> t0] /\ mine.state \in {"publishing", "committed"}
    BY CommandFacts DEF IndInv, LockExcludes, CommandIsSound, mine
  <1>2. command' = [op |-> "publish", of |-> t0, at |-> "consume"] /\ t0' = t0 /\ CommandIsTyped'
    BY <1>1, GoFacts DEF PublishSteps
  <1>3. /\ journal' \in [Migrations -> Journals]
        /\ journal'[t0] = [state |-> "committed", base |-> mine.base, rows |-> mine.rows]
        /\ \A t \in Migrations \ {t0} : journal'[t] = journal[t]
        /\ \A t \in Migrations : journal'[t].state # "none" => journal'[t].base # None
    BY <1>1, RecordFacts DEF States
  <1>4. Exposed /\ marker.of = t0
    BY <1>1, NoneAssumption DEF Exposed, Markers
  <1>5. Types'
    BY <1>1, <1>2, <1>3 DEF Types, TypeOK
  <1>6. LockExcludes' /\ HomeIsLatest'
    BY <1>1 DEF IndInv, LockExcludes, HomeIsLatest, Exposed, Made
  <1>7. RecordsAgree'
    BY <1>1, <1>3, <1>4 DEF IndInv, RecordsAgree, Exposed
  <1>8. CommandIsSound'
    BY <1>2 DEF CommandIsSound, Unexposed
  <1> QED
    BY <1>5, <1>6, <1>7, <1>8 DEF IndInv

----------------------------------------------------------------------------
(* rollback_checkpoint_migration.                                            *)

LEMMA BeginRollbackStep ==
  ASSUME IndInv, BeginRollback
  PROVE  IndInv'
  <1> USE DEF BeginRollback, At, local, controls, clients
  <1>1. /\ Types /\ command.at # "none" /\ lease = None /\ t0 \in Migrations /\ mine = journal[t0]
        /\ mine.state \in {"committed", "rollback_preparing", "rolling_back"}
    BY CommandFacts DEF IndInv, LockExcludes, mine, RollbackAdmitted
  <1>2. command' = [op |-> "rollback", of |-> t0, at |-> "disable"] /\ t0' = t0 /\ CommandIsTyped'
    BY <1>1, GoFacts DEF RollbackSteps
  <1>3. /\ journal' \in [Migrations -> Journals]
        /\ journal'[t0].base = mine.base
        /\ journal'[t0].state =
             IF mine.state = "committed" THEN "rollback_preparing" ELSE mine.state
        /\ \A t \in Migrations \ {t0} : journal'[t] = journal[t]
        /\ \A t \in Migrations : journal'[t].state # "none" => journal'[t].base # None
    <2>1. CASE mine.state = "committed"
      BY <1>1, <2>1, RecordFacts DEF States
    <2>2. CASE mine.state # "committed"
      BY <1>1, <2>2 DEF Types
    <2> QED
      BY <2>1, <2>2
  <1>4. Types'
    BY <1>1, <1>2, <1>3 DEF Types, TypeOK
  <1>5. LockExcludes' /\ HomeIsLatest'
    BY <1>1 DEF IndInv, LockExcludes, HomeIsLatest, Exposed, Made
  <1>6. RecordsAgree'
    BY <1>1, <1>3 DEF IndInv, RecordsAgree, Exposed
  <1>7. CommandIsSound'
    BY <1>1, <1>2, <1>3 DEF CommandIsSound, mine
  <1> QED
    BY <1>4, <1>5, <1>6, <1>7 DEF IndInv

LEMMA DisableStep ==
  ASSUME IndInv, Disable
  PROVE  IndInv'
  <1> USE DEF Disable, At, local, controls, clients
  <1> DEFINE step == IF mine.state = "rolling_back" THEN "swap" ELSE "snapshot"
  <1>1. /\ Types /\ command.at # "none" /\ lease = None /\ t0 \in Migrations
        /\ mine.state \in {"rollback_preparing", "rolling_back"} /\ Go(step)
        /\ step \in {"swap", "snapshot"}
        /\ mine.state = IF step = "swap" THEN "rolling_back" ELSE "rollback_preparing"
    BY CommandFacts DEF IndInv, LockExcludes, CommandIsSound
  <1> HIDE DEF step
  <1>2. command' = [op |-> "rollback", of |-> t0, at |-> step] /\ t0' = t0
    BY <1>1, GoFacts DEF RollbackSteps
  <1>3. ~route'.active
    OBVIOUS
  <1>4. CommandIsSound' /\ LockExcludes'
    BY <1>1, <1>2, <1>3 DEF CommandIsSound, LockExcludes, mine
  <1> QED
    BY <1>1, <1>4, RouteStep DEF RollbackSteps

(* The journal takes the rows of the store, whose lock the command has.      *)
LEMMA SnapshotStep ==
  ASSUME IndInv, Snapshot
  PROVE  IndInv'
  <1> USE DEF Snapshot, At, local, controls, clients
  <1>1. /\ Types /\ command.at # "none" /\ lease = None /\ t0 \in Migrations /\ mine = journal[t0]
        /\ mine.state = "rollback_preparing" /\ ~route.active /\ mine \in Journals
    BY CommandFacts DEF IndInv, LockExcludes, CommandIsSound, mine
  <1>2. command' = [op |-> "rollback", of |-> t0, at |-> "swap"] /\ t0' = t0 /\ CommandIsTyped'
    BY <1>1, GoFacts DEF RollbackSteps
  <1>3. Exposed /\ store # None /\ store \in Databases
    BY <1>1, NoneAssumption DEF IndInv, RecordsAgree, Exposed, Markers, Types, TypeOK
  <1> DEFINE new == [state |-> "rolling_back", base |-> mine.base, rows |-> store.rows]
  <1>4. /\ new \in Journals /\ journal \in [Migrations -> Journals]
        /\ mine = [state |-> mine.state, base |-> mine.base, rows |-> mine.rows]
    BY <1>1, <1>3 DEF Types, Journals, States, Databases
  <1> DEFINE begun == [state |-> "rolling_back", base |-> mine.base, rows |-> mine.rows]
  <1>5. journal' = [journal EXCEPT ![t0] = new]
    <2>1. [journal[t0] EXCEPT !.state = "rolling_back"] = begun
      BY <1>1, <1>4
    <2>2. [begun EXCEPT !.rows = store.rows] = new
      OBVIOUS
    <2>3. journal' = [journal EXCEPT ![t0] =
                        [[journal[t0] EXCEPT !.state = "rolling_back"] EXCEPT !.rows = store.rows]]
      BY <1>1, <1>4
    <2> QED
      BY <2>1, <2>2, <2>3
  <1>6. /\ journal' \in [Migrations -> Journals] /\ journal'[t0] = new
        /\ \A t \in Migrations \ {t0} : journal'[t] = journal[t]
    BY <1>1, <1>4, <1>5 DEF Types
  <1>7. Types'
    BY <1>1, <1>2, <1>6 DEF Types, TypeOK
  <1>8. LockExcludes' /\ HomeIsLatest'
    BY <1>1 DEF IndInv, LockExcludes, HomeIsLatest, Exposed, Made
  <1>9. RecordsAgree'
    BY <1>1, <1>3, <1>6 DEF IndInv, RecordsAgree, Exposed
  <1>10. CommandIsSound'
    BY <1>1, <1>2, <1>6 DEF CommandIsSound, mine
  <1> QED
    BY <1>7, <1>8, <1>9, <1>10 DEF IndInv

(* A withdrawal that has begun is of the one migration the store is of.      *)
LEMMA OneMigration ==
  ASSUME IndInv, t0 \in Migrations, mine.state = "rolling_back", NEW t \in Migrations,
         journal[t].state \in {"committed", "rollback_preparing", "rolling_back", "rolled_back"}
  PROVE  t = t0
  BY DEF IndInv, RecordsAgree, mine

(* The old vault is moved only while the final marker leads to the store:    *)
(* without it the vault is the one that was carried back.                    *)
LEMMA SwapStep ==
  ASSUME IndInv, Swap
  PROVE  IndInv'
  <1> USE DEF Swap, At, local, controls, protected, clients
  <1>1. /\ Types /\ command.at # "none" /\ lease = None /\ t0 \in Migrations /\ mine = journal[t0]
        /\ mine.state = "rolling_back" /\ ~route.active /\ mine \in Journals
        /\ store.rows = mine.rows
    BY CommandFacts DEF IndInv, LockExcludes, CommandIsSound, mine
  <1>2. /\ transition \in {None} \cup Migrations
        /\ slots \in [Migrations -> [Kinds -> {"none", "torn", "whole"}]]
    BY <1>1 DEF Types, TypeOK
  <1>3. CASE vault = Returned /\ Go("withdraw") /\ UNCHANGED local
    <2>1. command' = [op |-> "rollback", of |-> t0, at |-> "withdraw"] /\ t0' = t0
      BY <1>1, <1>3, GoFacts DEF RollbackSteps
    <2>2. vault # None /\ vault.object = t0 /\ vault.rows = mine.rows
      BY <1>1, <1>3, NoneAssumption DEF Returned, Databases, Journals
    <2>3. CommandIsSound' /\ LockExcludes'
      BY <1>1, <1>3, <2>1, <2>2 DEF CommandIsSound, LockExcludes, mine
    <2> QED
      BY <1>1, <1>2, <1>3, <2>3, GoStep DEF RollbackSteps
  <1>4. CASE MayRestore /\ Go("restore") /\ UNCHANGED local
    <2>1. command' = [op |-> "rollback", of |-> t0, at |-> "restore"] /\ t0' = t0
      BY <1>1, <1>4, GoFacts DEF RollbackSteps
    <2>2. Exposed
      BY <1>4 DEF MayRestore, IndInv, HomeIsLatest
    <2>3. CommandIsSound' /\ LockExcludes'
      BY <1>1, <1>4, <2>1, <2>2 DEF CommandIsSound, LockExcludes, mine, Exposed
    <2> QED
      BY <1>1, <1>2, <1>4, <2>3, GoStep DEF RollbackSteps
  <1>5. CASE /\ vault # None /\ vault = mine.base
             /\ displaced' = [displaced EXCEPT ![t0] = vault] /\ vault' = None
             /\ Go("restore")
    <2>1. command' = [op |-> "rollback", of |-> t0, at |-> "restore"] /\ t0' = t0 /\ CommandIsTyped'
      BY <1>1, <1>5, GoFacts DEF RollbackSteps
    <2>2. Exposed /\ Exposed'
      BY <1>1, <1>5 DEF IndInv, RecordsAgree, Exposed
    <2>3. displaced' \in [Migrations -> {None} \cup Databases]
      BY <1>1, <1>5 DEF Types, TypeOK
    <2>4. Types'
      BY <1>1, <1>5, <2>1, <2>3 DEF Types, TypeOK
    <2>5. LockExcludes' /\ HomeIsLatest'
      BY <1>1, <2>2 DEF IndInv, LockExcludes, HomeIsLatest, Made
    <2>6. RecordsAgree'
      BY <1>5, <2>2 DEF IndInv, RecordsAgree
    <2>7. CommandIsSound'
      BY <1>1, <2>1, <2>2 DEF CommandIsSound, mine
    <2> QED
      BY <2>4, <2>5, <2>6, <2>7 DEF IndInv
  <1> QED
    BY <1>3, <1>4, <1>5

LEMMA RestoreVaultStep ==
  ASSUME IndInv, Restore
  PROVE  IndInv'
  <1> USE DEF Restore, At, controls, protected, clients
  <1>1. /\ Types /\ command.at # "none" /\ lease = None /\ t0 \in Migrations /\ mine = journal[t0]
        /\ mine.state = "rolling_back" /\ ~route.active /\ mine \in Journals
        /\ store.rows = mine.rows /\ Exposed
    BY CommandFacts DEF IndInv, LockExcludes, CommandIsSound, mine
  <1>2. command' = [op |-> "rollback", of |-> t0, at |-> "withdraw"] /\ t0' = t0 /\ CommandIsTyped'
    BY <1>1, GoFacts DEF RollbackSteps
  <1>3. /\ vault' \in Databases /\ vault' # None /\ vault'.object = t0 /\ vault'.rows = mine.rows
    BY <1>1, NoneAssumption DEF Returned, Databases, Journals
  <1>4. Types'
    BY <1>1, <1>2, <1>3 DEF Types, TypeOK
  <1>5. LockExcludes' /\ HomeIsLatest'
    BY <1>1 DEF IndInv, LockExcludes, HomeIsLatest, Exposed, Made
  <1>6. RecordsAgree'
    BY <1>1, <1>3 DEF IndInv, RecordsAgree, Exposed
  <1>7. CommandIsSound'
    BY <1>1, <1>2, <1>3 DEF CommandIsSound, mine
  <1> QED
    BY <1>4, <1>5, <1>6, <1>7 DEF IndInv

(* With the marker goes the store: the vault has its rows by then.           *)
LEMMA WithdrawStep ==
  ASSUME IndInv, Withdraw
  PROVE  IndInv'
  <1> USE DEF Withdraw, At, local, protected, clients
  <1>1. /\ Types /\ command.at # "none" /\ lease = None /\ t0 \in Migrations /\ mine = journal[t0]
        /\ mine.state = "rolling_back" /\ ~route.active /\ store.rows = mine.rows
        /\ vault # None /\ vault.object = t0 /\ mine.rows \subseteq vault.rows
    BY CommandFacts DEF IndInv, LockExcludes, CommandIsSound, mine
  <1>2. command' = [op |-> "rollback", of |-> t0, at |-> "settle"] /\ t0' = t0 /\ CommandIsTyped'
    BY <1>1, GoFacts DEF RollbackSteps
  <1>3. ~Exposed'
    BY DEF Exposed
  <1>4. Types'
    BY <1>1, <1>2 DEF Types, TypeOK
  <1>5. LockExcludes' /\ HomeIsLatest'
    BY <1>1, <1>3 DEF IndInv, LockExcludes, HomeIsLatest, Made
  <1>6. \A t \in Migrations :
           journal[t].state \in {"committed", "rollback_preparing", "rolling_back", "rolled_back"}
             => t = t0
    BY <1>1, OneMigration
  <1>7. RecordsAgree'
    BY <1>1, <1>3, <1>6 DEF IndInv, RecordsAgree
  <1>8. CommandIsSound'
    BY <1>1, <1>2 DEF CommandIsSound, mine
  <1> QED
    BY <1>4, <1>5, <1>7, <1>8 DEF IndInv

LEMMA SettleStep ==
  ASSUME IndInv, Settle
  PROVE  IndInv'
  <1> USE DEF Settle, At, local, controls, clients
  <1>1. /\ Types /\ command.at # "none" /\ t0 \in Migrations /\ mine = journal[t0]
        /\ mine.state = "rolling_back"
    BY CommandFacts DEF IndInv, CommandIsSound, mine
  <1>2. /\ journal' \in [Migrations -> Journals]
        /\ journal'[t0] = [state |-> "rolled_back", base |-> mine.base, rows |-> mine.rows]
        /\ \A t \in Migrations \ {t0} : journal'[t] = journal[t]
        /\ \A t \in Migrations : journal'[t].state # "none" => journal'[t].base # None
    BY <1>1, RecordFacts DEF States
  <1>3. Types'
    BY <1>1, <1>2 DEF Types, TypeOK, CommandIsTyped, Done
  <1>4. LockExcludes' /\ CommandIsSound'
    BY DEF LockExcludes, CommandIsSound, Done, Idle
  <1>5. HomeIsLatest'
    BY DEF IndInv, HomeIsLatest, Exposed, Made
  <1>6. RecordsAgree'
    BY <1>1, <1>2 DEF IndInv, RecordsAgree, Exposed
  <1> QED
    BY <1>3, <1>4, <1>5, <1>6 DEF IndInv

----------------------------------------------------------------------------
LEMMA NextIndInv == IndInv /\ [Next]_vars => IndInv'
  <1> SUFFICES ASSUME IndInv, [Next]_vars PROVE IndInv'
    OBVIOUS
  <1>1. CASE Command
    <2>1. CASE Publish
      BY <2>1, CheckStep, IntendStep, DeactivateStep, SlotSteps, AnnounceStep, DenyStep,
         InstallStep, DisplaceStep, ExposeStep, ActivateStep, CommitStep, RefusedSteps
         DEF Publish
    <2>2. CASE Rollback
      BY <2>2, BeginRollbackStep, DisableStep, SnapshotStep, SwapStep, RestoreVaultStep,
         WithdrawStep, SettleStep, RefusedSteps DEF Rollback
    <2> QED
      BY <1>1, <2>1, <2>2, LockSteps DEF Command
  <1>2. CASE Stop
    BY <1>2, RefusedSteps
  <1>3. CASE Lapse
    <2>1. lease \in Saves
      BY <1>3 DEF Lapse, IndInv, Types, TypeOK
    <2> QED
      BY <1>3, <2>1, WaitingSteps
  <1>4. ASSUME NEW t \in Migrations, Prepare(t) \/ Begin("publish", t) \/ Begin("rollback", t)
        PROVE  IndInv'
    BY <1>4, PrepareStep, BeginStep
  <1>5. ASSUME NEW s \in Saves, Save(s)
        PROVE  IndInv'
    BY <1>5, SaveLocallyStep, WaitingSteps, ApplyStep DEF Save
  <1>6. CASE UNCHANGED vars
    <2> USE <1>6 DEF vars, local, controls, protected, clients
    <2>1. Types'
      BY DEF IndInv, Types, TypeOK, CommandIsTyped
    <2>2. LockExcludes' /\ CommandIsSound'
      BY DEF IndInv, LockExcludes, CommandIsSound, Exposed, mine, t0, Staged
    <2>3. Made' = Made
      BY DEF Made
    <2> QED
      BY <2>1, <2>2, <2>3, NothingMoves DEF IndInv
  <1> QED
    BY <1>1, <1>2, <1>3, <1>4, <1>5, <1>6 DEF Next

(* Migrations and saves of any number: the final marker, and nothing else,   *)
(* says where the latest rows are; at every step of a publication or a       *)
(* withdrawal the journal, the store and the vault agree with it.            *)
THEOREM Invariance == Spec => []IndInv
  <1>1. Init => IndInv
    BY InitIndInv
  <1>2. IndInv /\ [Next]_vars => IndInv'
    BY NextIndInv
  <1> QED
    BY <1>1, <1>2, PTL DEF Spec

(* Databases, markers, slots, routes and saves keep their types.             *)
THEOREM TypeCorrect == Spec => []TypeOK
  <1>1. IndInv => TypeOK
    BY DEF IndInv, Types
  <1> QED
    BY <1>1, Invariance, PTL

(* Whichever database the markers lead a runtime to has every save that was  *)
(* reported as made, however often publication and withdrawal were           *)
(* interrupted and repeated; and a workspace without markers has its vault.  *)
THEOREM RowsSafe == Spec => []RoutedRowsAreLatest
  <1>1. IndInv => RoutedRowsAreLatest
    BY DEF IndInv, HomeIsLatest, Made, RoutedRowsAreLatest, VaultServes, StoreServes, Exposed
  <1> QED
    BY <1>1, Invariance, PTL

----------------------------------------------------------------------------
(* Second part: CheckpointRestore.                                           *)
(* Whoever publishes or undoes holds the lock of every state file, and has  *)
(* looked at the one it is about to replace.                                *)
Locked == Forward \cup {"rollback", "undo", "record", "undo_dir"}
CallIsSound(s) ==
    /\ call[s].at \in Locked => \A f \in Managed : lock[f] = s
    /\ call[s].at \in {"check", "publish"} => InStep(s, {"prepared"}) # {}
    /\ call[s].at \in {"replace", "undo", "record"} => call[s].target \in Files
    /\ Reached(s, "replace") /\ call[s].target \in Managed => Unchanged(s, call[s].target)
    /\ Reached(s, "undo") /\ call[s].target \in Managed => MayUndo(s, call[s].target)

CallsInv == RestoreTypeOK /\ \A s \in Stores : CallIsSound(s)

----------------------------------------------------------------------------
(* The first and the last of some files.                                    *)
LEMMA NotLess == \A x, y \in Nat : <<y, x>> \notin OpToRel(<, Nat) => x <= y
  BY DEF OpToRel

LEMMA FirstFacts ==
  ASSUME NEW S, S \subseteq Nat, S # {}
  PROVE  First(S) \in S /\ \A g \in S : First(S) <= g
  <1>1. PICK x \in S : \A y \in S : <<y, x>> \notin OpToRel(<, Nat)
    BY WFMin, NatLessThanWellFounded
  <1>2. \A y \in S : x <= y
    BY <1>1, NotLess, Zenon
  <1> QED
    BY <1>2 DEF First

LEMMA LastFacts ==
  ASSUME NEW S, S \subseteq Files, S # {}
  PROVE  Last(S) \in S
  <1> DEFINE R == {Count - f : f \in S}
  <1>1. Count \in Nat
    BY WorkspaceAssumption
  <1>2. \A f \in S : f \in Nat /\ f <= Count
    BY <1>1 DEF Files
  <1>3. R \subseteq Nat /\ R # {}
    BY <1>1, <1>2
  <1>4. First(R) \in R /\ \A g \in R : First(R) <= g
    BY <1>3, FirstFacts
  <1>5. PICK f \in S : First(R) = Count - f
    BY <1>4
  <1>6. \A g \in S : g <= f
    <2> SUFFICES ASSUME NEW g \in S PROVE g <= f
      OBVIOUS
    <2>1. Count - f <= Count - g
      BY <1>4, <1>5
    <2> QED
      BY <2>1, <1>1, <1>2
  <1> QED
    BY <1>5, <1>6 DEF Last

----------------------------------------------------------------------------
(* How the calls, the transactions and the locks change.                    *)
CallBecomes(s, p, own, x, R) ==
    /\ call' \in [Stores -> Calls]
    /\ call'[s].at = p /\ call'[s].op = call[s].op /\ call'[s].own = own
    /\ call'[s].target = x /\ call'[s].refused = R
    /\ \A t \in Stores \ {s} : call'[t] = call[t]

TxnBecomes(s, kind, phase, made, step, original) ==
    /\ disk' \in [Stores -> Transactions]
    /\ disk'[s].kind = kind /\ disk'[s].phase = phase /\ disk'[s].made = made
    /\ disk'[s].step = step /\ disk'[s].original = original
    /\ \A t \in Stores \ {s} : disk'[t] = disk[t]

LEMMA CallTypes ==
  ASSUME RestoreTypeOK, NEW s \in Stores
  PROVE  /\ call[s] \in Calls /\ call[s].own \in BOOLEAN /\ call[s].target \in Files \cup {0}
         /\ call[s].refused \in SUBSET (Files \cup {0}) /\ call[s].at \in Places
         /\ call[s].op \in Operations
  BY DEF RestoreTypeOK, Calls

LEMMA GotoFacts ==
  ASSUME RestoreTypeOK, NEW s \in Stores, NEW p \in Places, Goto(s, p)
  PROVE  CallBecomes(s, p, call[s].own, call[s].target, call[s].refused)
  BY DEF RestoreTypeOK, Calls, Goto, CallBecomes

LEMMA TargetFacts ==
  ASSUME RestoreTypeOK, NEW s \in Stores, NEW p \in Places, NEW x \in Files \cup {0},
         call' = [call EXCEPT ![s].at = p, ![s].target = x]
  PROVE  CallBecomes(s, p, call[s].own, x, call[s].refused)
  <1> DEFINE new == [call EXCEPT ![s].at = p, ![s].target = x]
  <1>1. call \in [Stores -> Calls] /\ call[s] \in Calls
    BY CallTypes DEF RestoreTypeOK
  <1>2. new \in [Stores -> Calls]
    BY <1>1 DEF Calls
  <1>3. /\ new[s].at = p /\ new[s].op = call[s].op /\ new[s].own = call[s].own
        /\ new[s].target = x /\ new[s].refused = call[s].refused
    BY <1>1 DEF Calls
  <1>4. \A t \in Stores \ {s} : new[t] = call[t]
    BY <1>1
  <1> HIDE DEF new
  <1>5. call' = new
    BY DEF new
  <1> QED
    BY <1>2, <1>3, <1>4, <1>5 DEF CallBecomes

LEMMA TargetFirstFacts ==
  ASSUME RestoreTypeOK, NEW s \in Stores, NEW p \in Places, NEW x \in Files \cup {0},
         call' = [call EXCEPT ![s].target = x, ![s].at = p]
  PROVE  CallBecomes(s, p, call[s].own, x, call[s].refused)
  <1> DEFINE new == [call EXCEPT ![s].target = x, ![s].at = p]
  <1>1. call \in [Stores -> Calls] /\ call[s] \in Calls
    BY CallTypes DEF RestoreTypeOK
  <1>2. new \in [Stores -> Calls]
    BY <1>1 DEF Calls
  <1>3. /\ new[s].at = p /\ new[s].op = call[s].op /\ new[s].own = call[s].own
        /\ new[s].target = x /\ new[s].refused = call[s].refused
    BY <1>1 DEF Calls
  <1>4. \A t \in Stores \ {s} : new[t] = call[t]
    BY <1>1
  <1> HIDE DEF new
  <1>5. call' = new
    BY DEF new
  <1> QED
    BY <1>2, <1>3, <1>4, <1>5 DEF CallBecomes

LEMMA OwnFacts ==
  ASSUME RestoreTypeOK, NEW s \in Stores, NEW p \in Places, NEW o \in BOOLEAN,
         call' = [call EXCEPT ![s].at = p, ![s].own = o]
  PROVE  CallBecomes(s, p, o, call[s].target, call[s].refused)
  BY DEF RestoreTypeOK, Calls, CallBecomes

LEMMA RefusedFacts ==
  ASSUME RestoreTypeOK, NEW s \in Stores, NEW p \in Places, NEW x \in Files \cup {0},
         NEW R \in SUBSET (Files \cup {0}),
         call' = [call EXCEPT ![s].at = p, ![s].target = x, ![s].refused = R]
  PROVE  CallBecomes(s, p, call[s].own, x, R)
  <1> DEFINE new == [call EXCEPT ![s].at = p, ![s].target = x, ![s].refused = R]
  <1>1. call \in [Stores -> Calls] /\ call[s] \in Calls
    BY CallTypes DEF RestoreTypeOK
  <1>2. new \in [Stores -> Calls]
    BY <1>1 DEF Calls
  <1>3. /\ new[s].at = p /\ new[s].op = call[s].op /\ new[s].own = call[s].own
        /\ new[s].target = x /\ new[s].refused = R
    BY <1>1 DEF Calls
  <1>4. \A t \in Stores \ {s} : new[t] = call[t]
    BY <1>1
  <1> HIDE DEF new
  <1>5. call' = new
    BY DEF new
  <1> QED
    BY <1>2, <1>3, <1>4, <1>5 DEF CallBecomes

LEMMA RefusedOnlyFacts ==
  ASSUME RestoreTypeOK, NEW s \in Stores, NEW R \in SUBSET (Files \cup {0}),
         call' = [call EXCEPT ![s].refused = R]
  PROVE  CallBecomes(s, call[s].at, call[s].own, call[s].target, R)
  <1> DEFINE new == [call EXCEPT ![s].refused = R]
  <1>1. call \in [Stores -> Calls] /\ call[s] \in Calls
    BY CallTypes DEF RestoreTypeOK
  <1>2. new \in [Stores -> Calls]
    BY <1>1 DEF Calls
  <1>3. /\ new[s].at = call[s].at /\ new[s].op = call[s].op /\ new[s].own = call[s].own
        /\ new[s].target = call[s].target /\ new[s].refused = R
    BY <1>1 DEF Calls
  <1>4. \A t \in Stores \ {s} : new[t] = call[t]
    BY <1>1
  <1> HIDE DEF new
  <1>5. call' = new
    BY DEF new
  <1> QED
    BY <1>2, <1>3, <1>4, <1>5 DEF CallBecomes

LEMMA RefusedAtFacts ==
  ASSUME RestoreTypeOK, NEW s \in Stores, NEW p \in Places, NEW R \in SUBSET (Files \cup {0}),
         call' = [call EXCEPT ![s].at = p, ![s].refused = R]
  PROVE  CallBecomes(s, p, call[s].own, call[s].target, R)
  <1> DEFINE new == [call EXCEPT ![s].at = p, ![s].refused = R]
  <1>1. call \in [Stores -> Calls] /\ call[s] \in Calls
    BY CallTypes DEF RestoreTypeOK
  <1>2. new \in [Stores -> Calls]
    BY <1>1 DEF Calls
  <1>3. /\ new[s].at = p /\ new[s].op = call[s].op /\ new[s].own = call[s].own
        /\ new[s].target = call[s].target /\ new[s].refused = R
    BY <1>1 DEF Calls
  <1>4. \A t \in Stores \ {s} : new[t] = call[t]
    BY <1>1
  <1> HIDE DEF new
  <1>5. call' = new
    BY DEF new
  <1> QED
    BY <1>2, <1>3, <1>4, <1>5 DEF CallBecomes

LEMMA CallEnds ==
  ASSUME RestoreTypeOK, NEW s \in Stores, call' = [call EXCEPT ![s] = NoCall]
  PROVE  /\ call' \in [Stores -> Calls] /\ call'[s].at = "idle"
         /\ \A t \in Stores \ {s} : call'[t] = call[t]
  BY DEF RestoreTypeOK, Calls, NoCall, Places, Operations

LEMMA EmptyTxn ==
  /\ NoTransaction \in Transactions /\ NoTransaction.kind = "none"
  /\ NoTransaction.phase = "preparing" /\ NoTransaction.made = "no"
  /\ \A f \in Files : NoTransaction.step[f] = "planned"
  /\ [NoTransaction EXCEPT !.kind = "bare"] \in Transactions
  /\ [NoTransaction EXCEPT !.kind = "bare"].kind = "bare"
  /\ [NoTransaction EXCEPT !.kind = "bare"].phase = "preparing"
  /\ [NoTransaction EXCEPT !.kind = "bare"].made = "no"
  /\ [NoTransaction EXCEPT !.kind = "bare"].step = NoTransaction.step
  <1>1. NoTransaction \in Transactions
    BY WorkspaceAssumption DEF NoTransaction, Transactions, Steps, Contents, Absent
  <1>2. [NoTransaction EXCEPT !.kind = "bare"] \in Transactions
    BY <1>1 DEF Transactions
  <1>3. /\ NoTransaction.kind = "none" /\ NoTransaction.phase = "preparing"
        /\ NoTransaction.made = "no" /\ \A f \in Files : NoTransaction.step[f] = "planned"
    BY DEF NoTransaction
  <1> HIDE DEF NoTransaction
  <1>4. /\ [NoTransaction EXCEPT !.kind = "bare"].kind = "bare"
        /\ [NoTransaction EXCEPT !.kind = "bare"].phase = NoTransaction.phase
        /\ [NoTransaction EXCEPT !.kind = "bare"].made = NoTransaction.made
        /\ [NoTransaction EXCEPT !.kind = "bare"].step = NoTransaction.step
    BY <1>1 DEF Transactions
  <1> QED
    BY <1>1, <1>2, <1>3, <1>4

LEMMA TxnTypes ==
  ASSUME RestoreTypeOK, NEW s \in Stores
  PROVE  /\ disk[s] \in Transactions /\ disk[s].step \in [Files -> Steps]
         /\ disk[s].original \in [Files -> Contents]
         /\ disk[s].kind \in {"none", "bare", "journaled", "torn", "wreck"}
         /\ disk[s].phase \in {"preparing", "publishing", "rolling_back", "committed"}
         /\ disk[s].made \in {"no", "planned", "created"}
  BY DEF RestoreTypeOK, Transactions

LEMMA DiskFacts ==
  ASSUME RestoreTypeOK, NEW s \in Stores, NEW txn, Journal(s, txn)
  PROVE  /\ txn \in Transactions => disk' \in [Stores -> Transactions]
         /\ disk'[s] = txn
         /\ \A t \in Stores \ {s} : disk'[t] = disk[t]
  BY DEF RestoreTypeOK, Journal

LEMMA PhaseFacts ==
  ASSUME RestoreTypeOK, NEW s \in Stores,
         NEW phase \in {"preparing", "publishing", "rolling_back", "committed"},
         Journal(s, [disk[s] EXCEPT !.phase = phase])
  PROVE  TxnBecomes(s, disk[s].kind, phase, disk[s].made, disk[s].step, disk[s].original)
  <1> DEFINE d == disk[s]
             e == [disk[s] EXCEPT !.phase = phase]
  <1>1. d \in Transactions
    BY TxnTypes
  <1>2. e \in Transactions
    BY <1>1 DEF Transactions, Steps
  <1>3. /\ e.kind = disk[s].kind /\ e.phase = phase /\ e.made = disk[s].made
        /\ e.step = disk[s].step
        /\ e.original = disk[s].original
    BY <1>1 DEF Transactions
  <1> HIDE DEF d, e
  <1>4. Journal(s, e)
    BY DEF e
  <1> QED
    BY <1>2, <1>3, <1>4, DiskFacts DEF TxnBecomes, e

LEMMA KindFacts ==
  ASSUME RestoreTypeOK, NEW s \in Stores,
         NEW kind \in {"none", "bare", "journaled", "torn", "wreck"},
         Journal(s, [disk[s] EXCEPT !.kind = kind])
  PROVE  TxnBecomes(s, kind, disk[s].phase, disk[s].made, disk[s].step, disk[s].original)
  <1> DEFINE d == disk[s]
             e == [disk[s] EXCEPT !.kind = kind]
  <1>1. d \in Transactions
    BY TxnTypes
  <1>2. e \in Transactions
    BY <1>1 DEF Transactions, Steps
  <1>3. /\ e.kind = kind /\ e.phase = disk[s].phase /\ e.made = disk[s].made
        /\ e.step = disk[s].step
        /\ e.original = disk[s].original
    BY <1>1 DEF Transactions
  <1> HIDE DEF d, e
  <1>4. Journal(s, e)
    BY DEF e
  <1> QED
    BY <1>2, <1>3, <1>4, DiskFacts DEF TxnBecomes, e

LEMMA MadeFacts ==
  ASSUME RestoreTypeOK, NEW s \in Stores, NEW made \in {"no", "planned", "created"},
         Journal(s, [disk[s] EXCEPT !.made = made])
  PROVE  TxnBecomes(s, disk[s].kind, disk[s].phase, made, disk[s].step, disk[s].original)
  <1> DEFINE d == disk[s]
             e == [disk[s] EXCEPT !.made = made]
  <1>1. d \in Transactions
    BY TxnTypes
  <1>2. e \in Transactions
    BY <1>1 DEF Transactions, Steps
  <1>3. /\ e.kind = disk[s].kind /\ e.phase = disk[s].phase /\ e.made = made
        /\ e.step = disk[s].step
        /\ e.original = disk[s].original
    BY <1>1 DEF Transactions
  <1> HIDE DEF d, e
  <1>4. Journal(s, e)
    BY DEF e
  <1> QED
    BY <1>2, <1>3, <1>4, DiskFacts DEF TxnBecomes, e

LEMMA StepFacts ==
  ASSUME RestoreTypeOK, NEW s \in Stores, NEW f \in Files, NEW x \in Steps,
         Journal(s, [disk[s] EXCEPT !.step[f] = x])
  PROVE  TxnBecomes(s, disk[s].kind, disk[s].phase, disk[s].made,
                    [disk[s].step EXCEPT ![f] = x], disk[s].original)
  <1> DEFINE d == disk[s]
             e == [disk[s] EXCEPT !.step[f] = x]
  <1>1. d \in Transactions
    BY TxnTypes
  <1>2. e \in Transactions
    BY <1>1 DEF Transactions, Steps
  <1>3. /\ e.kind = disk[s].kind /\ e.phase = disk[s].phase /\ e.made = disk[s].made
        /\ e.step = [disk[s].step EXCEPT ![f] = x]
        /\ e.original = disk[s].original
    BY <1>1 DEF Transactions
  <1> HIDE DEF d, e
  <1>4. Journal(s, e)
    BY DEF e
  <1> QED
    BY <1>2, <1>3, <1>4, DiskFacts DEF TxnBecomes, e

LEMMA AttemptFacts ==
  ASSUME RestoreTypeOK, NEW s \in Stores, NEW f \in Files,
         Journal(s, [disk[s] EXCEPT !.phase = "publishing", !.step[f] = "attempted"])
  PROVE  TxnBecomes(s, disk[s].kind, "publishing", disk[s].made,
                    [disk[s].step EXCEPT ![f] = "attempted"], disk[s].original)
  <1> DEFINE d == disk[s]
             e == [disk[s] EXCEPT !.phase = "publishing", !.step[f] = "attempted"]
  <1>1. d \in Transactions
    BY TxnTypes
  <1>2. e \in Transactions
    BY <1>1 DEF Transactions, Steps
  <1>3. /\ e.kind = disk[s].kind /\ e.phase = "publishing" /\ e.made = disk[s].made
        /\ e.step = [disk[s].step EXCEPT ![f] = "attempted"]
        /\ e.original = disk[s].original
    BY <1>1 DEF Transactions
  <1> HIDE DEF d, e
  <1>4. Journal(s, e)
    BY DEF e
  <1> QED
    BY <1>2, <1>3, <1>4, DiskFacts DEF TxnBecomes, e

LEMMA PreparedFacts ==
  ASSUME RestoreTypeOK, NEW s \in Stores, NEW f \in Files, NEW c \in Contents,
         Journal(s, [disk[s] EXCEPT !.step[f] = "prepared", !.original[f] = c])
  PROVE  TxnBecomes(s, disk[s].kind, disk[s].phase, disk[s].made,
                    [disk[s].step EXCEPT ![f] = "prepared"], [disk[s].original EXCEPT ![f] = c])
  <1> DEFINE d == disk[s]
             e == [disk[s] EXCEPT !.step[f] = "prepared", !.original[f] = c]
  <1>1. d \in Transactions
    BY TxnTypes
  <1>2. e \in Transactions
    BY <1>1 DEF Transactions, Steps
  <1>3. /\ e.kind = disk[s].kind /\ e.phase = disk[s].phase /\ e.made = disk[s].made
        /\ e.step = [disk[s].step EXCEPT ![f] = "prepared"]
        /\ e.original = [disk[s].original EXCEPT ![f] = c]
    BY <1>1 DEF Transactions
  <1> HIDE DEF d, e
  <1>4. Journal(s, e)
    BY DEF e
  <1> QED
    BY <1>2, <1>3, <1>4, DiskFacts DEF TxnBecomes, e

LEMMA ReleaseFacts ==
  ASSUME RestoreTypeOK, NEW s \in Stores, Release(s)
  PROVE  /\ lock' \in [Managed -> Stores \cup {Nobody, Writer}]
         /\ autosave' \in Stores \cup {Nobody}
         /\ \A f \in Managed : lock[f] # s => lock'[f] = lock[f]
  BY DEF RestoreTypeOK, Release

LEMMA EndFacts ==
  ASSUME RestoreTypeOK, NEW s \in Stores, End(s) \/ Blocked(s)
  PROVE  /\ call' \in [Stores -> Calls] /\ call'[s].at \in {"idle", "capture"}
         /\ call'[s].at = "capture" => call'[s].op = "salvage"
         /\ \A t \in Stores \ {s} : call'[t] = call[t]
         /\ Release(s)
  <1>1. CASE End(s)
    BY <1>1, CallEnds DEF End
  <1>2. CASE Blocked(s) /\ call[s].op = "salvage"
    <2>1. CallBecomes(s, "capture", call[s].own, 0, {})
      BY <1>2, RefusedFacts DEF Blocked, Places
    <2> QED
      BY <1>2, <2>1 DEF Blocked, CallBecomes
  <1> QED
    BY <1>1, <1>2 DEF Blocked

----------------------------------------------------------------------------
(* One call's step leaves the others' locks and state files alone.          *)
Framed(s) ==
    /\ \A t \in Stores \ {s} : call'[t] = call[t] /\ disk'[t] = disk[t]
    /\ \A f \in Managed : lock[f] # s => lock'[f] = lock[f] \/ lock[f] = Nobody
    /\ \A f \in Managed : lock[f] # s => file'[f] = file[f]

LEMMA OtherCalls ==
  ASSUME CallsInv, NEW t \in Stores, call'[t] = call[t], disk'[t] = disk[t],
         \A f \in Managed : lock[f] = t => lock'[f] = t /\ file'[f] = file[f]
  PROVE  CallIsSound(t)'
  <1>1. CallIsSound(t)
    BY DEF CallsInv
  <1>2. InStep(t, {"prepared"})' = InStep(t, {"prepared"})
    BY DEF InStep
  <1> QED
    BY <1>1, <1>2 DEF CallIsSound, Reached, Unchanged, MayUndo, Locked, Forward

LEMMA ActorStep ==
  ASSUME CallsInv, NEW s \in Stores, RestoreTypeOK', CallIsSound(s)', Framed(s)
  PROVE  CallsInv'
  <1>1. ASSUME NEW t \in Stores \ {s} PROVE CallIsSound(t)'
    <2>1. Nobody # t
      BY WorkspaceAssumption
    <2> QED
      BY <2>1, OtherCalls DEF Framed
  <1> QED
    BY <1>1 DEF CallsInv

(* A call that ends, or goes where it holds no state lock.                  *)
LEMMA UnlockedStep ==
  ASSUME CallsInv, NEW s \in Stores, RestoreTypeOK', Framed(s), call'[s].at \notin Locked
  PROVE  CallsInv'
  <1>1. CallIsSound(s)'
    BY DEF CallIsSound, Reached, Locked, Forward
  <1> QED
    BY <1>1, ActorStep

LEMMA EndStep ==
  ASSUME CallsInv, NEW s \in Stores, End(s) \/ Blocked(s), UNCHANGED file, RestoreTypeOK',
         \A t \in Stores \ {s} : disk'[t] = disk[t]
  PROVE  CallsInv'
  <1>1. RestoreTypeOK
    BY DEF CallsInv
  <1>2. /\ call'[s].at \in {"idle", "capture"} /\ Release(s)
        /\ \A t \in Stores \ {s} : call'[t] = call[t]
    BY <1>1, EndFacts
  <1>3. Framed(s)
    BY <1>1, <1>2, ReleaseFacts DEF Framed
  <1> QED
    BY <1>2, <1>3, UnlockedStep DEF Locked, Forward

(* A call that keeps its locks and looks at no state file yet.              *)
LEMMA LockedStep ==
  ASSUME CallsInv, NEW s \in Stores, RestoreTypeOK', Framed(s),
         UNCHANGED lock, call[s].at \in Locked \/ LocksHeld(s),
         call'[s].at \notin {"check", "publish", "replace", "undo", "record"}
  PROVE  CallsInv'
  <1>1. \A f \in Managed : lock'[f] = s
    BY DEF CallsInv, CallIsSound, LocksHeld, ToLock
  <1>2. CallIsSound(s)'
    BY <1>1 DEF CallIsSound, Reached
  <1> QED
    BY <1>2, ActorStep

----------------------------------------------------------------------------
(* Beginning, and what orphans mean for it.                                 *)
LEMMA BeginRestoreCalls ==
  ASSUME CallsInv, NEW s \in Stores, BeginRestore(s) PROVE CallsInv'
  <1> DEFINE new == [NoCall EXCEPT !.at = "recover", !.op = "restore"]
  <1>1. new \in Calls /\ new.at = "recover"
    BY DEF NoCall, Calls, Places, Operations
  <1> HIDE DEF new
  <1>2. call' = [call EXCEPT ![s] = new]
    BY DEF BeginRestore, new
  <1>3. RestoreTypeOK'
    BY <1>1, <1>2 DEF CallsInv, RestoreTypeOK, BeginRestore
  <1>4. Framed(s) /\ call'[s].at = "recover"
    BY <1>1, <1>2 DEF CallsInv, RestoreTypeOK, Framed, BeginRestore
  <1> QED
    BY <1>3, <1>4, UnlockedStep DEF Locked, Forward

LEMMA BeginOtherCalls ==
  ASSUME CallsInv, NEW s \in Stores, NEW op \in Operations, BeginOther(s, op) PROVE CallsInv'
  <1> DEFINE new == [NoCall EXCEPT !.at = IF op = "rotate" THEN "prune" ELSE "recover", !.op = op]
  <1>1. new \in Calls /\ new.at \in {"prune", "recover"}
    BY DEF NoCall, Calls, Places, Operations
  <1> HIDE DEF new
  <1>2. call' = [call EXCEPT ![s] = new]
    BY DEF BeginOther, new
  <1>3. RestoreTypeOK'
    BY <1>1, <1>2 DEF CallsInv, RestoreTypeOK, BeginOther
  <1>4. Framed(s) /\ call'[s].at \in {"prune", "recover"}
    BY <1>1, <1>2 DEF CallsInv, RestoreTypeOK, Framed, BeginOther
  <1> QED
    BY <1>3, <1>4, UnlockedStep DEF Locked, Forward

LEMMA ProceedFacts ==
  ASSUME RestoreTypeOK, NEW s \in Stores, Proceed(s)
  PROVE  /\ CallBecomes(s, call'[s].at, call[s].own, call[s].target, call[s].refused)
         /\ call'[s].at \in {"create", "capture"}
  <1> DEFINE p == IF call[s].op = "restore" THEN "create" ELSE "capture"
  <1>1. p \in Places /\ p \in {"create", "capture"}
    BY DEF Places
  <1> HIDE DEF p
  <1>2. CallBecomes(s, p, call[s].own, call[s].target, call[s].refused)
    BY <1>1, GotoFacts DEF Proceed, p
  <1> QED
    BY <1>1, <1>2 DEF CallBecomes

LEMMA RecoveryCalls ==
  ASSUME CallsInv, NEW s \in Stores, NoOrphan(s) \/ ReapBare(s) \/ SkipCommitted(s)
  PROVE  CallsInv'
  <1>1. RestoreTypeOK
    BY DEF CallsInv
  <1>2. /\ call' \in [Stores -> Calls] /\ call'[s].at \in {"create", "capture", "remove"}
        /\ \A t \in Stores \ {s} : call'[t] = call[t]
    <2>1. CASE Proceed(s)
      BY <1>1, <2>1, ProceedFacts DEF CallBecomes
    <2>2. CASE Goto(s, "remove")
      BY <1>1, <2>2, GotoFacts DEF CallBecomes, Places
    <2> QED
      BY <2>1, <2>2 DEF NoOrphan, ReapBare, SkipCommitted
  <1>3. disk' \in [Stores -> Transactions] /\ \A t \in Stores \ {s} : disk'[t] = disk[t]
    BY <1>1, DiskFacts, EmptyTxn DEF RestoreTypeOK, NoOrphan, ReapBare, SkipCommitted
  <1>4. UNCHANGED <<file, dir, goals, lock, autosave, snaps, past, edits, errors>>
    BY DEF NoOrphan, ReapBare, SkipCommitted
  <1>5. RestoreTypeOK' /\ Framed(s)
    BY <1>1, <1>2, <1>3, <1>4 DEF RestoreTypeOK, Framed
  <1> QED
    BY <1>2, <1>5, UnlockedStep DEF Locked, Forward

LEMMA MoreErrors ==
  ASSUME RestoreTypeOK, errors < MaxErrors, errors' = errors + 1
  PROVE  errors' \in 0 .. MaxErrors
  BY WorkspaceAssumption DEF RestoreTypeOK

(* Ends that change neither the workspace nor a transaction.                *)
LEMMA EndCalls ==
  ASSUME CallsInv, NEW s \in Stores,
         RefuseOrphan(s) \/ LocksTimeOut(s) \/ RollbackIncomplete(s) \/ RotateDone(s)
           \/ GiveUp(s) \/ Die(s)
  PROVE  CallsInv'
  <1> USE DEF RefuseOrphan, LocksTimeOut, RollbackIncomplete, RotateDone, GiveUp, Die
  <1>1. RestoreTypeOK
    BY DEF CallsInv
  <1>2. End(s) \/ Blocked(s)
    OBVIOUS
  <1>3. UNCHANGED <<file, dir, goals, disk, snaps, past, edits>>
    OBVIOUS
  <1>4. errors' \in 0 .. MaxErrors
    <2>1. CASE UNCHANGED errors
      BY <1>1, <2>1 DEF RestoreTypeOK
    <2>2. CASE errors < MaxErrors /\ errors' = errors + 1
      BY <1>1, <2>2, MoreErrors
    <2> QED
      BY <2>1, <2>2
  <1>5. RestoreTypeOK'
    BY <1>1, <1>2, <1>3, <1>4, EndFacts, ReleaseFacts DEF RestoreTypeOK
  <1> QED
    BY <1>2, <1>3, <1>5, EndStep

(* The state locks are made ready and taken one by one.                      *)
LEMMA LockingCalls ==
  ASSUME CallsInv, NEW s \in Stores, MakeGoals(s) \/ AcquireStateLock(s) PROVE CallsInv'
  <1>1. RestoreTypeOK /\ Managed \subseteq Nat
    BY WorkspaceAssumption DEF CallsInv, Files
  <1>2. UNCHANGED <<file, dir, autosave, disk, snaps, call, past, edits, errors>>
    BY DEF MakeGoals, AcquireStateLock
  <1>3. call'[s].at \notin Locked
    BY <1>2 DEF MakeGoals, AcquireStateLock, NeedsLocks, Reached, Locked, Forward
  <1>4. CASE MakeGoals(s)
    <2>1. UNCHANGED lock /\ goals' = "made"
      BY <1>4 DEF MakeGoals
    <2>2. RestoreTypeOK' /\ Framed(s)
      BY <1>1, <1>2, <2>1 DEF RestoreTypeOK, Framed
    <2> QED
      BY <1>3, <2>2, UnlockedStep
  <1>5. CASE AcquireStateLock(s)
    <2> DEFINE f == First(ToLock(s))
    <2>1. ToLock(s) \subseteq Managed /\ ToLock(s) # {}
      BY <1>5 DEF AcquireStateLock, ToLock
    <2>2. f \in Managed
      BY <1>1, <2>1, FirstFacts
    <2>3. lock[f] = Nobody /\ lock' = [lock EXCEPT ![f] = s] /\ UNCHANGED goals
      BY <1>5 DEF AcquireStateLock
    <2> HIDE DEF f
    <2>4. RestoreTypeOK' /\ Framed(s)
      BY <1>1, <1>2, <2>2, <2>3 DEF RestoreTypeOK, Framed
    <2> QED
      BY <1>3, <2>4, UnlockedStep
  <1> QED
    BY <1>4, <1>5

LEMMA RecoverOrphanCalls ==
  ASSUME CallsInv, NEW s \in Stores, RecoverOrphan(s) PROVE CallsInv'
  <1>1. RestoreTypeOK
    BY DEF CallsInv
  <1>2. CallBecomes(s, "rollback", call[s].own, call[s].target, call[s].refused)
    BY <1>1, GotoFacts DEF RecoverOrphan, Places
  <1>3. TxnBecomes(s, disk[s].kind, "rolling_back", disk[s].made, disk[s].step, disk[s].original)
    BY <1>1, PhaseFacts DEF RecoverOrphan
  <1>4. /\ UNCHANGED <<file, dir, goals, autosave, snaps, past, edits, errors>>
        /\ UNCHANGED lock /\ LocksHeld(s)
    BY DEF RecoverOrphan
  <1>5. RestoreTypeOK'
    BY <1>1, <1>2, <1>3, <1>4 DEF RestoreTypeOK, CallBecomes, TxnBecomes
  <1>6. Framed(s)
    BY <1>2, <1>3, <1>4 DEF Framed, CallBecomes, TxnBecomes
  <1> QED
    BY <1>2, <1>4, <1>5, <1>6, LockedStep DEF CallBecomes

----------------------------------------------------------------------------
(* The restore.                                                             *)
LEMMA CreateCalls ==
  ASSUME CallsInv, NEW s \in Stores, Create(s) PROVE CallsInv'
  <1>1. RestoreTypeOK
    BY DEF CallsInv
  <1>2. CallBecomes(s, "journal", TRUE, call[s].target, call[s].refused)
    BY <1>1, OwnFacts DEF Create, Places
  <1>3. disk' \in [Stores -> Transactions] /\ \A t \in Stores \ {s} : disk'[t] = disk[t]
    BY <1>1, DiskFacts, EmptyTxn DEF Create
  <1>4. UNCHANGED <<file, dir, goals, lock, autosave, snaps, edits, errors>>
    BY DEF Create
  <1>5. RestoreTypeOK'
    BY <1>1, <1>2, <1>3, <1>4 DEF Create, RestoreTypeOK, CallBecomes
  <1>6. Framed(s)
    BY <1>2, <1>3, <1>4 DEF Framed, CallBecomes
  <1> QED
    BY <1>2, <1>5, <1>6, UnlockedStep DEF CallBecomes, Locked, Forward

LEMMA WriteJournalCalls ==
  ASSUME CallsInv, NEW s \in Stores, WriteJournal(s) PROVE CallsInv'
  <1>1. RestoreTypeOK
    BY DEF CallsInv
  <1>2. CallBecomes(s, "lock", call[s].own, call[s].target, call[s].refused)
    BY <1>1, GotoFacts DEF WriteJournal, Places
  <1>3. TxnBecomes(s, "journaled", disk[s].phase, disk[s].made, disk[s].step, disk[s].original)
    BY <1>1, KindFacts DEF WriteJournal
  <1>4. UNCHANGED <<file, dir, goals, lock, autosave, snaps, past, edits, errors>>
    BY DEF WriteJournal
  <1>5. RestoreTypeOK' /\ Framed(s)
    BY <1>1, <1>2, <1>3, <1>4 DEF RestoreTypeOK, CallBecomes, TxnBecomes, Framed
  <1> QED
    BY <1>2, <1>5, UnlockedStep DEF CallBecomes, Locked, Forward

LEMMA LockCalls ==
  ASSUME CallsInv, NEW s \in Stores, Lock(s) PROVE CallsInv'
  <1>1. RestoreTypeOK
    BY DEF CallsInv
  <1>2. CallBecomes(s, "prepare", call[s].own, call[s].target, call[s].refused)
    BY <1>1, GotoFacts DEF Lock, Places
  <1>3. /\ UNCHANGED <<file, dir, goals, autosave, disk, snaps, past, edits, errors>>
        /\ UNCHANGED lock /\ LocksHeld(s)
    BY DEF Lock
  <1>4. RestoreTypeOK'
    BY <1>1, <1>2, <1>3 DEF RestoreTypeOK, CallBecomes
  <1>5. Framed(s)
    BY <1>2, <1>3 DEF Framed, CallBecomes
  <1> QED
    BY <1>2, <1>3, <1>4, <1>5, LockedStep DEF CallBecomes

LEMMA DirCalls ==
  ASSUME CallsInv, NEW s \in Stores, PlanDir(s) \/ MakeDir(s) \/ RecordDir(s)
  PROVE  CallsInv'
  <1>1. RestoreTypeOK
    BY DEF CallsInv
  <1>2. /\ call' \in [Stores -> Calls] /\ call'[s].at \in {"prepare", "made"}
        /\ \A t \in Stores \ {s} : call'[t] = call[t]
    <2>1. CASE \E p \in {"prepare", "made"} : Goto(s, p)
      BY <1>1, <2>1, GotoFacts DEF CallBecomes, Places
    <2>2. CASE UNCHANGED call /\ Reached(s, "prepare")
      BY <1>1, <2>2 DEF RestoreTypeOK, Reached
    <2> QED
      BY <2>1, <2>2 DEF PlanDir, MakeDir, RecordDir
  <1>3. disk' \in [Stores -> Transactions] /\ \A t \in Stores \ {s} : disk'[t] = disk[t]
    <2>1. CASE \E made \in {"no", "planned", "created"} : Journal(s, [disk[s] EXCEPT !.made = made])
      BY <1>1, <2>1, MadeFacts DEF TxnBecomes
    <2>2. CASE UNCHANGED disk
      BY <1>1, <2>2 DEF RestoreTypeOK
    <2> QED
      BY <2>1, <2>2 DEF PlanDir, MakeDir, RecordDir
  <1>4. /\ UNCHANGED <<file, goals, lock, autosave, snaps, past, edits, errors>>
        /\ dir' = dir \/ dir' = "own"
    BY DEF PlanDir, MakeDir, RecordDir
  <1>5. RestoreTypeOK'
    BY <1>1, <1>2, <1>3, <1>4 DEF RestoreTypeOK
  <1>6. Framed(s)
    BY <1>2, <1>3, <1>4 DEF Framed
  <1>7. call[s].at \in Locked
    BY DEF PlanDir, MakeDir, RecordDir, Reached, Locked, Forward
  <1> QED
    BY <1>2, <1>4, <1>5, <1>6, <1>7, LockedStep

(* What PrepareFile does, for the invariants of both layers.                *)
LEMMA PrepareFacts ==
  ASSUME RestoreTypeOK, NEW s \in Stores, PrepareFile(s)
  PROVE  \E f \in Files :
           /\ disk[s].step[f] = "planned" /\ f = NextToPrepare(s)
           /\ TxnBecomes(s, disk[s].kind, disk[s].phase, disk[s].made,
                [disk[s].step EXCEPT ![f] = "prepared"], [disk[s].original EXCEPT ![f] = file[f]])
           /\ \E p \in {"prepare", "check"} :
                CallBecomes(s, p, call[s].own, call[s].target, call[s].refused)
  <1> DEFINE f == NextToPrepare(s)
             p == IF InStep(s, {"planned"}) = {f} THEN "check" ELSE "prepare"
  <1>1. InStep(s, {"planned"}) \subseteq Nat /\ InStep(s, {"planned"}) # {}
    BY DEF PrepareFile, InStep, Files
  <1>2. f \in InStep(s, {"planned"})
    BY <1>1, FirstFacts DEF NextToPrepare
  <1>3. f \in Files /\ disk[s].step[f] = "planned" /\ file[f] \in Contents
    BY <1>2 DEF InStep, RestoreTypeOK
  <1>4. p \in Places /\ p \in {"prepare", "check"}
    BY DEF Places
  <1>5. Journal(s, [disk[s] EXCEPT !.step[f] = "prepared", !.original[f] = file[f]]) /\ Goto(s, p)
    BY DEF PrepareFile
  <1> HIDE DEF f, p
  <1>6. CallBecomes(s, p, call[s].own, call[s].target, call[s].refused)
    BY <1>4, <1>5, GotoFacts
  <1>7. TxnBecomes(s, disk[s].kind, disk[s].phase, disk[s].made,
                [disk[s].step EXCEPT ![f] = "prepared"], [disk[s].original EXCEPT ![f] = file[f]])
    BY <1>3, <1>5, PreparedFacts
  <1> QED
    BY <1>3, <1>4, <1>6, <1>7 DEF f

LEMMA PrepareCalls ==
  ASSUME CallsInv, NEW s \in Stores, PrepareFile(s) PROVE CallsInv'
  <1>1. RestoreTypeOK
    BY DEF CallsInv
  <1>2. PICK f \in Files :
           /\ disk[s].step[f] = "planned"
           /\ TxnBecomes(s, disk[s].kind, disk[s].phase, disk[s].made,
                [disk[s].step EXCEPT ![f] = "prepared"], [disk[s].original EXCEPT ![f] = file[f]])
           /\ \E p \in {"prepare", "check"} :
                CallBecomes(s, p, call[s].own, call[s].target, call[s].refused)
    BY <1>1, PrepareFacts
  <1>3. /\ UNCHANGED <<file, dir, goals, lock, autosave, snaps, past, edits, errors>>
        /\ Reached(s, "prepare")
    BY DEF PrepareFile
  <1>4. RestoreTypeOK' /\ Framed(s)
    BY <1>1, <1>2, <1>3 DEF RestoreTypeOK, CallBecomes, TxnBecomes, Framed
  <1>5. disk'[s].step[f] = "prepared"
    BY <1>2, TxnTypes, <1>1 DEF TxnBecomes
  <1>6. InStep(s, {"prepared"})' # {}
    BY <1>5 DEF InStep
  <1>7. \A g \in Managed : lock'[g] = s
    BY <1>3 DEF CallsInv, CallIsSound, Reached, Locked, Forward
  <1>8. call'[s].at \in {"prepare", "check"}
    BY <1>2 DEF CallBecomes
  <1>9. CallIsSound(s)'
    BY <1>6, <1>7, <1>8 DEF CallIsSound, Reached
  <1> QED
    BY <1>4, <1>9, ActorStep

LEMMA CheckCalls ==
  ASSUME CallsInv, NEW s \in Stores, CheckUnchanged(s) PROVE CallsInv'
  <1>1. RestoreTypeOK
    BY DEF CallsInv
  <1>2. CallBecomes(s, "publish", call[s].own, call[s].target, call[s].refused)
    BY <1>1, GotoFacts DEF CheckUnchanged, Places
  <1>3. /\ UNCHANGED <<file, dir, goals, lock, autosave, disk, snaps, past, edits, errors>>
        /\ Reached(s, "check")
    BY DEF CheckUnchanged
  <1>4. RestoreTypeOK' /\ Framed(s)
    BY <1>1, <1>2, <1>3 DEF RestoreTypeOK, CallBecomes, Framed
  <1>5. CallIsSound(s)'
    BY <1>2, <1>3 DEF CallsInv, CallIsSound, Reached, CallBecomes, InStep, Locked, Forward
  <1> QED
    BY <1>4, <1>5, ActorStep

LEMMA AttemptSteps ==
  ASSUME CallsInv, NEW s \in Stores, Attempt(s)
  PROVE  \E f \in Files :
           /\ disk[s].step[f] = "prepared" /\ Unchanged(s, f)
           /\ TxnBecomes(s, disk[s].kind, "publishing", disk[s].made,
                [disk[s].step EXCEPT ![f] = "attempted"], disk[s].original)
           /\ CallBecomes(s, "replace", call[s].own, f, call[s].refused)
           /\ dir' = IF f \in Nested /\ dir = "absent" THEN "own" ELSE dir
  <1> DEFINE f == NextToPublish(s)
  <1>1. RestoreTypeOK /\ CallIsSound(s) /\ Reached(s, "publish")
    BY DEF CallsInv, Attempt
  <1>2. InStep(s, {"prepared"}) \subseteq Nat /\ InStep(s, {"prepared"}) # {}
    BY <1>1 DEF CallIsSound, Reached, InStep, Files
  <1>3. f \in InStep(s, {"prepared"})
    BY <1>2, FirstFacts DEF NextToPublish
  <1>4. f \in Files /\ disk[s].step[f] = "prepared"
    BY <1>3 DEF InStep
  <1>5. /\ Unchanged(s, f)
        /\ Journal(s, [disk[s] EXCEPT !.phase = "publishing", !.step[f] = "attempted"])
        /\ call' = [call EXCEPT ![s].at = "replace", ![s].target = f]
        /\ dir' = IF f \in Nested /\ dir = "absent" THEN "own" ELSE dir
    BY DEF Attempt
  <1> HIDE DEF f
  <1>6. CallBecomes(s, "replace", call[s].own, f, call[s].refused)
    BY <1>1, <1>4, <1>5, TargetFacts DEF Places
  <1>7. TxnBecomes(s, disk[s].kind, "publishing", disk[s].made,
                [disk[s].step EXCEPT ![f] = "attempted"], disk[s].original)
    BY <1>1, <1>4, <1>5, AttemptFacts
  <1> QED
    BY <1>4, <1>5, <1>6, <1>7

LEMMA AttemptCalls ==
  ASSUME CallsInv, NEW s \in Stores, Attempt(s) PROVE CallsInv'
  <1>1. RestoreTypeOK
    BY DEF CallsInv
  <1>2. PICK f \in Files :
           /\ disk[s].step[f] = "prepared" /\ Unchanged(s, f)
           /\ TxnBecomes(s, disk[s].kind, "publishing", disk[s].made,
                [disk[s].step EXCEPT ![f] = "attempted"], disk[s].original)
           /\ CallBecomes(s, "replace", call[s].own, f, call[s].refused)
           /\ dir' = IF f \in Nested /\ dir = "absent" THEN "own" ELSE dir
    BY AttemptSteps
  <1>3. /\ UNCHANGED <<file, goals, lock, autosave, snaps, past, edits, errors>>
        /\ Reached(s, "publish")
    BY DEF Attempt
  <1>4. RestoreTypeOK'
    BY <1>1, <1>2, <1>3 DEF RestoreTypeOK, CallBecomes, TxnBecomes
  <1>5. Framed(s)
    BY <1>2, <1>3 DEF CallBecomes, TxnBecomes, Framed
  <1>6. \A g \in Managed : lock'[g] = s
    BY <1>3 DEF CallsInv, CallIsSound, Reached, Locked, Forward
  <1>7. CallIsSound(s)'
    BY <1>2, <1>3, <1>6 DEF CallIsSound, Reached, CallBecomes, TxnBecomes, Unchanged
  <1> QED
    BY <1>4, <1>5, <1>7, ActorStep

LEMMA ReplaceSteps ==
  ASSUME CallsInv, NEW s \in Stores, Replace(s)
  PROVE  /\ call[s].target \in Files /\ file' = [file EXCEPT ![call[s].target] = Saved]
         /\ \/ /\ CallBecomes(s, "publish", call[s].own, 0, call[s].refused)
               /\ InStep(s, {"prepared"}) # {}
            \/ CallBecomes(s, "verify", call[s].own, 0, call[s].refused)
  <1> DEFINE p == IF InStep(s, {"prepared"}) = {} THEN "verify" ELSE "publish"
  <1>1. RestoreTypeOK /\ CallIsSound(s) /\ Reached(s, "replace")
    BY DEF CallsInv, Replace
  <1>2. p \in Places
    BY DEF Places
  <1>3. call' = [call EXCEPT ![s].target = 0, ![s].at = p]
    BY DEF Replace
  <1> HIDE DEF p
  <1>4. CallBecomes(s, p, call[s].own, 0, call[s].refused)
    BY <1>1, <1>2, <1>3, TargetFirstFacts
  <1> QED
    BY <1>1, <1>4 DEF p, Replace, CallIsSound, Reached

LEMMA ReplaceCalls ==
  ASSUME CallsInv, NEW s \in Stores, Replace(s) PROVE CallsInv'
  <1>1. RestoreTypeOK /\ Reached(s, "replace")
    BY DEF CallsInv, Replace
  <1>2. /\ call[s].target \in Files /\ file' = [file EXCEPT ![call[s].target] = Saved]
        /\ \/ /\ CallBecomes(s, "publish", call[s].own, 0, call[s].refused)
              /\ InStep(s, {"prepared"}) # {}
           \/ CallBecomes(s, "verify", call[s].own, 0, call[s].refused)
    BY ReplaceSteps
  <1>3. UNCHANGED <<dir, goals, lock, autosave, disk, snaps, past, edits, errors>>
    BY DEF Replace
  <1>4. Saved \in Contents
    BY WorkspaceAssumption DEF Saved, Contents
  <1>5. file' \in [Files -> Contents]
    BY <1>1, <1>2, <1>4 DEF RestoreTypeOK
  <1>6. RestoreTypeOK'
    BY <1>1, <1>2, <1>3, <1>5 DEF RestoreTypeOK, CallBecomes
  <1>7. \A g \in Managed : lock[g] = s
    BY <1>1 DEF CallsInv, CallIsSound, Reached, Locked, Forward
  <1>8. Framed(s)
    BY <1>2, <1>3, <1>7 DEF Framed, CallBecomes
  <1>9. CallIsSound(s)'
    BY <1>2, <1>3, <1>7 DEF CallIsSound, CallBecomes, Reached, InStep
  <1> QED
    BY <1>6, <1>8, <1>9, ActorStep

LEMMA VerifyCalls ==
  ASSUME CallsInv, NEW s \in Stores, Verify(s) \/ CommitRestore(s) PROVE CallsInv'
  <1>1. RestoreTypeOK
    BY DEF CallsInv
  <1>2. CASE Verify(s)
    <2>1. CallBecomes(s, "commit", call[s].own, call[s].target, call[s].refused)
      BY <1>1, <1>2, GotoFacts DEF Verify, Places
    <2>2. /\ UNCHANGED <<file, dir, goals, lock, autosave, disk, snaps, past, edits, errors>>
          /\ Reached(s, "verify")
      BY <1>2 DEF Verify
    <2>3. RestoreTypeOK' /\ Framed(s)
      BY <1>1, <2>1, <2>2 DEF RestoreTypeOK, CallBecomes, Framed
    <2> QED
      BY <2>1, <2>2, <2>3, LockedStep DEF CallBecomes, Reached, Locked, Forward
  <1>3. CASE CommitRestore(s)
    <2>1. CallBecomes(s, "remove", call[s].own, call[s].target, call[s].refused)
      BY <1>1, <1>3, GotoFacts DEF CommitRestore, Places
    <2>2. TxnBecomes(s, disk[s].kind, "committed", disk[s].made, disk[s].step, disk[s].original)
      BY <1>1, <1>3, PhaseFacts DEF CommitRestore
    <2>3. UNCHANGED <<file, dir, goals, lock, autosave, snaps, past, edits, errors>>
      BY <1>3 DEF CommitRestore
    <2>4. RestoreTypeOK' /\ Framed(s)
      BY <1>1, <2>1, <2>2, <2>3 DEF RestoreTypeOK, CallBecomes, TxnBecomes, Framed
    <2> QED
      BY <2>1, <2>4, UnlockedStep DEF CallBecomes, Locked, Forward
  <1> QED
    BY <1>2, <1>3

LEMMA RollBackCalls ==
  ASSUME CallsInv, NEW s \in Stores, RollBack(s) PROVE CallsInv'
  <1>1. RestoreTypeOK
    BY DEF CallsInv
  <1>2. CallBecomes(s, "rollback", call[s].own, 0, call[s].refused)
    BY <1>1, TargetFacts DEF RollBack, Places
  <1>3. TxnBecomes(s, disk[s].kind, "rolling_back", disk[s].made, disk[s].step, disk[s].original)
    BY <1>1, PhaseFacts DEF RollBack
  <1>4. UNCHANGED <<file, dir, goals, lock, autosave, snaps, past, edits>>
    BY DEF RollBack
  <1>5. errors' \in 0 .. MaxErrors
    BY <1>1, MoreErrors DEF RollBack, RestoreTypeOK
  <1>6. RestoreTypeOK' /\ Framed(s)
    BY <1>1, <1>2, <1>3, <1>4, <1>5 DEF RestoreTypeOK, CallBecomes, TxnBecomes, Framed
  <1>7. call[s].at \in Locked
    BY DEF RollBack, CheckFails, Reached, Locked, Forward
  <1> QED
    BY <1>2, <1>4, <1>6, <1>7, LockedStep DEF CallBecomes

----------------------------------------------------------------------------
(* The rollback.                                                            *)
LEMMA UndoNextSteps ==
  ASSUME CallsInv, NEW s \in Stores, UndoNext(s)
  PROVE  \E f \in Files :
           /\ disk[s].step[f] = "attempted"
           /\ \/ MayUndo(s, f) /\ CallBecomes(s, "undo", call[s].own, f, call[s].refused)
              \/ CallBecomes(s, "rollback", call[s].own, call[s].target, call[s].refused \cup {f})
  <1> DEFINE f == Last(ToUndo(s))
  <1>1. RestoreTypeOK /\ Reached(s, "rollback")
    BY DEF CallsInv, UndoNext
  <1>2. ToUndo(s) \subseteq Files /\ ToUndo(s) # {}
    BY DEF UndoNext, ToUndo, InStep
  <1>3. f \in ToUndo(s)
    BY <1>2, LastFacts
  <1>4. f \in Files /\ disk[s].step[f] = "attempted"
    BY <1>3 DEF ToUndo, InStep
  <1>5. call' = IF MayUndo(s, f) THEN [call EXCEPT ![s].at = "undo", ![s].target = f]
                ELSE [call EXCEPT ![s].refused = call[s].refused \cup {f}]
    <2>1. s \in DOMAIN call
      BY <1>1 DEF RestoreTypeOK
    <2> QED
      BY <2>1 DEF UndoNext
  <1> HIDE DEF f
  <1>6. CASE MayUndo(s, f)
    BY <1>1, <1>4, <1>5, <1>6, TargetFacts DEF Places
  <1>7. CASE ~MayUndo(s, f)
    <2>1. call[s].refused \cup {f} \in SUBSET (Files \cup {0})
      BY <1>1, <1>4, CallTypes
    <2> QED
      BY <1>1, <1>4, <1>5, <1>7, <2>1, RefusedOnlyFacts DEF Reached
  <1> QED
    BY <1>6, <1>7

LEMMA UndoNextCalls ==
  ASSUME CallsInv, NEW s \in Stores, UndoNext(s) PROVE CallsInv'
  <1>1. RestoreTypeOK /\ Reached(s, "rollback")
    BY DEF CallsInv, UndoNext
  <1>2. PICK f \in Files :
           \/ MayUndo(s, f) /\ CallBecomes(s, "undo", call[s].own, f, call[s].refused)
           \/ CallBecomes(s, "rollback", call[s].own, call[s].target, call[s].refused \cup {f})
    BY UndoNextSteps
  <1>3. UNCHANGED <<file, dir, goals, lock, autosave, disk, snaps, past, edits, errors>>
    BY DEF UndoNext
  <1>4. RestoreTypeOK' /\ Framed(s)
    BY <1>1, <1>2, <1>3 DEF RestoreTypeOK, CallBecomes, Framed
  <1>5. \A g \in Managed : lock'[g] = s
    BY <1>1, <1>3 DEF CallsInv, CallIsSound, Reached, Locked
  <1>6. CallIsSound(s)'
    BY <1>2, <1>3, <1>5 DEF CallIsSound, CallBecomes, Reached, MayUndo
  <1> QED
    BY <1>4, <1>6, ActorStep

LEMMA UndoCalls ==
  ASSUME CallsInv, NEW s \in Stores, Undo(s) PROVE CallsInv'
  <1>1. RestoreTypeOK /\ Reached(s, "undo") /\ call[s].target \in Files
    BY DEF CallsInv, Undo, CallIsSound, Reached
  <1>2. CallBecomes(s, "record", call[s].own, call[s].target, call[s].refused)
    BY <1>1, GotoFacts DEF Undo, Places
  <1>3. /\ UNCHANGED <<dir, goals, lock, autosave, disk, snaps, past, edits, errors>>
        /\ file' = [file EXCEPT ![call[s].target] = disk[s].original[call[s].target]]
    BY DEF Undo
  <1>4. disk[s].original[call[s].target] \in Contents
    BY <1>1, TxnTypes
  <1>5. file' \in [Files -> Contents]
    BY <1>1, <1>3, <1>4 DEF RestoreTypeOK
  <1>6. RestoreTypeOK'
    BY <1>1, <1>2, <1>3, <1>5 DEF RestoreTypeOK, CallBecomes
  <1>7. \A g \in Managed : lock[g] = s
    BY <1>1 DEF CallsInv, CallIsSound, Reached, Locked
  <1>8. Framed(s)
    BY <1>2, <1>3, <1>7 DEF Framed, CallBecomes
  <1>9. CallIsSound(s)'
    BY <1>1, <1>2, <1>3, <1>7 DEF CallIsSound, CallBecomes, Reached
  <1> QED
    BY <1>6, <1>8, <1>9, ActorStep

LEMMA RecordSteps ==
  ASSUME CallsInv, NEW s \in Stores, RecordUndone(s)
  PROVE  /\ call[s].target \in Files
         /\ CallBecomes(s, "rollback", call[s].own, 0, call[s].refused)
         /\ TxnBecomes(s, disk[s].kind, disk[s].phase, disk[s].made,
              [disk[s].step EXCEPT ![call[s].target] = "undone"], disk[s].original)
  <1>1. RestoreTypeOK /\ call[s].target \in Files
    BY DEF CallsInv, RecordUndone, CallIsSound, Reached
  <1>2. CallBecomes(s, "rollback", call[s].own, 0, call[s].refused)
    BY <1>1, TargetFacts DEF RecordUndone, Places
  <1>3. TxnBecomes(s, disk[s].kind, disk[s].phase, disk[s].made,
              [disk[s].step EXCEPT ![call[s].target] = "undone"], disk[s].original)
    BY <1>1, StepFacts DEF RecordUndone, Steps
  <1> QED
    BY <1>1, <1>2, <1>3

LEMMA RecordCalls ==
  ASSUME CallsInv, NEW s \in Stores, RecordUndone(s) PROVE CallsInv'
  <1>1. RestoreTypeOK /\ Reached(s, "record")
    BY DEF CallsInv, RecordUndone
  <1>2. UNCHANGED <<file, dir, goals, lock, autosave, snaps, past, edits, errors>>
    BY DEF RecordUndone
  <1>3. RestoreTypeOK' /\ Framed(s)
    BY <1>1, <1>2, RecordSteps DEF RestoreTypeOK, CallBecomes, TxnBecomes, Framed
  <1> QED
    BY <1>1, <1>2, <1>3, RecordSteps, LockedStep DEF CallBecomes, Reached, Locked

LEMMA UndoFailsSteps ==
  ASSUME CallsInv, NEW s \in Stores, UndoFails(s)
  PROVE  /\ call[s].target \in Files
         /\ CallBecomes(s, "rollback", call[s].own, 0, call[s].refused \cup {call[s].target})
  <1>1. RestoreTypeOK /\ call[s].target \in Files
    BY DEF CallsInv, UndoFails, CallIsSound
  <1>2. call[s].refused \cup {call[s].target} \in SUBSET (Files \cup {0})
    BY <1>1, CallTypes
  <1>3. call' = [call EXCEPT ![s].at = "rollback", ![s].target = 0,
                             ![s].refused = call[s].refused \cup {call[s].target}]
    <2>1. s \in DOMAIN call
      BY <1>1 DEF RestoreTypeOK
    <2> QED
      BY <2>1 DEF UndoFails
  <1>4. CallBecomes(s, "rollback", call[s].own, 0, call[s].refused \cup {call[s].target})
    BY <1>1, <1>2, <1>3, RefusedFacts DEF Places
  <1> QED
    BY <1>1, <1>4

LEMMA UndoFailsCalls ==
  ASSUME CallsInv, NEW s \in Stores, UndoFails(s) PROVE CallsInv'
  <1>1. RestoreTypeOK /\ call[s].at \in {"undo", "record"}
    BY DEF CallsInv, UndoFails
  <1>2. UNCHANGED <<file, dir, goals, lock, autosave, disk, snaps, past, edits>>
    BY DEF UndoFails
  <1>3. errors' \in 0 .. MaxErrors
    BY <1>1, MoreErrors DEF UndoFails
  <1>4. RestoreTypeOK' /\ Framed(s)
    BY <1>1, <1>2, <1>3, UndoFailsSteps DEF RestoreTypeOK, CallBecomes, Framed
  <1> QED
    BY <1>1, <1>2, <1>4, UndoFailsSteps, LockedStep DEF CallBecomes, Locked

LEMMA UndoDirSteps ==
  ASSUME CallsInv, NEW s \in Stores, UndoDir(s)
  PROVE  \/ /\ CallBecomes(s, "undo_dir", call[s].own, call[s].target, call[s].refused \cup {0})
            /\ UNCHANGED dir
         \/ /\ CallBecomes(s, "undo_dir", call[s].own, call[s].target, call[s].refused)
            /\ dir' = IF disk[s].made # "no" THEN "absent" ELSE dir
  <1>1. RestoreTypeOK /\ s \in DOMAIN call
    BY DEF CallsInv, RestoreTypeOK
  <1>2. CASE /\ call' = [call EXCEPT ![s].at = "undo_dir", ![s].refused = call[s].refused \cup {0}]
             /\ UNCHANGED dir
    <2>1. call[s].refused \cup {0} \in SUBSET (Files \cup {0})
      BY <1>1, CallTypes
    <2> QED
      BY <1>1, <1>2, <2>1, RefusedAtFacts DEF Places
  <1>3. CASE Goto(s, "undo_dir") /\ dir' = IF disk[s].made # "no" THEN "absent" ELSE dir
    BY <1>1, <1>3, GotoFacts DEF Places
  <1> QED
    BY <1>1, <1>2, <1>3 DEF UndoDir

LEMMA UndoDirCalls ==
  ASSUME CallsInv, NEW s \in Stores, UndoDir(s) PROVE CallsInv'
  <1>1. RestoreTypeOK /\ Reached(s, "rollback")
    BY DEF CallsInv, UndoDir
  <1>2. UNCHANGED <<file, goals, lock, autosave, disk, snaps, past, edits, errors>>
    BY DEF UndoDir
  <1>3. RestoreTypeOK' /\ Framed(s) /\ call'[s].at = "undo_dir"
    BY <1>1, <1>2, UndoDirSteps DEF RestoreTypeOK, CallBecomes, Framed
  <1> QED
    BY <1>1, <1>2, <1>3, LockedStep DEF Reached, Locked

LEMMA RolledBackCalls ==
  ASSUME CallsInv, NEW s \in Stores, RolledBack(s) PROVE CallsInv'
  <1>1. RestoreTypeOK
    BY DEF CallsInv
  <1>2. CallBecomes(s, "remove", call[s].own, call[s].target, call[s].refused)
    BY <1>1, GotoFacts DEF RolledBack, Places
  <1>3. UNCHANGED <<file, dir, goals, autosave, disk, snaps, past, edits, errors>>
    BY DEF RolledBack
  <1>4. /\ lock' \in [Managed -> Stores \cup {Nobody, Writer}]
        /\ \A f \in Managed : lock[f] # s => lock'[f] = lock[f]
    BY <1>1 DEF RolledBack, RestoreTypeOK
  <1>5. RestoreTypeOK' /\ Framed(s)
    BY <1>1, <1>2, <1>3, <1>4 DEF RestoreTypeOK, CallBecomes, Framed
  <1> QED
    BY <1>2, <1>5, UnlockedStep DEF CallBecomes, Locked, Forward

LEMMA OutcomeFacts ==
  ASSUME RestoreTypeOK, NEW s \in Stores, NEW r \in {"none", "restored", "rolled_back"},
         Outcome(s, r)
  PROVE  /\ past' \in [Stores -> [file : [Files -> Contents], dir : {"absent", "own", "shared"},
                            edited : SUBSET (Files \cup {0}),
                            result : {"none", "restored", "rolled_back"}]]
         /\ past'[s].file = past[s].file /\ past'[s].dir = past[s].dir
         /\ past'[s].edited = past[s].edited /\ past'[s].result = r
  BY DEF RestoreTypeOK, Outcome

LEMMA RemoveSteps ==
  ASSUME CallsInv, NEW s \in Stores, Remove(s) \/ RemoveStops(s)
  PROVE  /\ call' \in [Stores -> Calls] /\ call'[s].at \in {"idle", "create", "capture"}
         /\ call'[s].at = "capture" => call'[s].op = "salvage" \/ Remove(s)
         /\ \A t \in Stores \ {s} : call'[t] = call[t]
         /\ lock' \in [Managed -> Stores \cup {Nobody, Writer}]
         /\ autosave' \in Stores \cup {Nobody}
         /\ \A f \in Managed : lock[f] # s => lock'[f] = lock[f]
  <1>1. RestoreTypeOK
    BY DEF CallsInv
  <1>2. CASE End(s) \/ Blocked(s)
    BY <1>1, <1>2, EndFacts, ReleaseFacts
  <1>3. CASE Remove(s) /\ Proceed(s) /\ UNCHANGED <<lock, autosave>>
    BY <1>1, <1>3, ProceedFacts DEF CallBecomes, RestoreTypeOK
  <1> QED
    BY <1>2, <1>3 DEF Remove, RemoveStops

LEMMA RemoveCalls ==
  ASSUME CallsInv, NEW s \in Stores, Remove(s) \/ RemoveStops(s) PROVE CallsInv'
  <1>1. RestoreTypeOK
    BY DEF CallsInv
  <1>2. disk' \in [Stores -> Transactions] /\ \A t \in Stores \ {s} : disk'[t] = disk[t]
    <2>1. CASE Remove(s)
      BY <1>1, <2>1, DiskFacts, EmptyTxn DEF Remove
    <2>2. CASE RemoveStops(s)
      <3>1. PICK kind \in {"none", "bare", "journaled", "torn", "wreck"} :
              Journal(s, [disk[s] EXCEPT !.kind = kind])
        BY <2>2 DEF RemoveStops
      <3> QED
        BY <1>1, <3>1, KindFacts DEF TxnBecomes
    <2> QED
      BY <2>1, <2>2
  <1>3. past' \in [Stores -> [file : [Files -> Contents], dir : {"absent", "own", "shared"},
                            edited : SUBSET (Files \cup {0}),
                            result : {"none", "restored", "rolled_back"}]]
    BY <1>1, OutcomeFacts DEF Remove, RemoveStops
  <1>4. UNCHANGED <<file, dir, goals, snaps, edits>> /\ errors' \in 0 .. MaxErrors
    BY <1>1, MoreErrors DEF Remove, RemoveStops, RestoreTypeOK
  <1>5. RestoreTypeOK'
    BY <1>1, <1>2, <1>3, <1>4, RemoveSteps DEF RestoreTypeOK
  <1>6. Framed(s)
    BY <1>2, <1>4, RemoveSteps DEF Framed
  <1>7. call'[s].at \notin Locked
    BY RemoveSteps DEF Locked, Forward
  <1> QED
    BY <1>5, <1>6, <1>7, UnlockedStep

----------------------------------------------------------------------------
(* Saving and rotating.                                                     *)
LEMMA SnapsFacts ==
  ASSUME RestoreTypeOK, NEW s \in Stores
  PROVE  /\ snaps[s] \in Seq(Snapshots) /\ Len(snaps[s]) \in Nat
         /\ DOMAIN snaps[s] = 1 .. Len(snaps[s])
         /\ \A i \in 1 .. Len(snaps[s]) : snaps[s][i] \in Snapshots
  BY LenProperties DEF RestoreTypeOK

(* A sequence without its i-th element.                                     *)
LEMMA Without ==
  ASSUME NEW S, NEW q \in Seq(S), NEW i \in 1 .. Len(q)
  PROVE  LET w == SubSeq(q, 1, i - 1) \o SubSeq(q, i + 1, Len(q)) IN
         /\ w \in Seq(S) /\ Len(w) = Len(q) - 1
         /\ \A j \in 1 .. Len(q) - 1 : w[j] = IF j < i THEN q[j] ELSE q[j + 1]
  <1> DEFINE a == SubSeq(q, 1, i - 1)
             b == SubSeq(q, i + 1, Len(q))
             n == Len(q)
  <1>1. n \in Nat /\ i \in Nat /\ 1 <= i /\ i <= n /\ \A j \in 1 .. n : q[j] \in S
    BY LenProperties
  <1>2. a \in Seq(S) /\ Len(a) = i - 1 /\ \A j \in 1 .. i - 1 : a[j] = q[j]
    <2>1. \A j \in 1 .. i - 1 : q[j] \in S
      BY <1>1
    <2>2. /\ a \in Seq(S) /\ Len(a) = IF 1 <= i - 1 THEN i - 1 - 1 + 1 ELSE 0
          /\ \A j \in 1 .. i - 1 - 1 + 1 : a[j] = q[1 + j - 1]
      BY <1>1, <2>1, SubSeqProperties
    <2> QED
      BY <1>1, <2>2
  <1>3. b \in Seq(S) /\ Len(b) = n - i /\ \A j \in 1 .. n - i : b[j] = q[i + j]
    <2>1. \A j \in i + 1 .. n : q[j] \in S
      BY <1>1
    <2>2. /\ b \in Seq(S) /\ Len(b) = IF i + 1 <= n THEN n - (i + 1) + 1 ELSE 0
          /\ \A j \in 1 .. n - (i + 1) + 1 : b[j] = q[i + 1 + j - 1]
      BY <1>1, <2>1, SubSeqProperties
    <2> QED
      BY <1>1, <2>2
  <1> HIDE DEF a, b, n
  <1>4. /\ a \o b \in Seq(S) /\ Len(a \o b) = Len(a) + Len(b)
        /\ \A j \in 1 .. Len(a) + Len(b) : (a \o b)[j] = IF j <= Len(a) THEN a[j] ELSE b[j - Len(a)]
    BY <1>2, <1>3, ConcatProperties
  <1>5. Len(a \o b) = n - 1 /\ Len(a) + Len(b) = n - 1
    BY <1>1, <1>2, <1>3, <1>4
  <1>6. ASSUME NEW j \in 1 .. n - 1 PROVE (a \o b)[j] = IF j < i THEN q[j] ELSE q[j + 1]
    <2>1. (a \o b)[j] = IF j <= i - 1 THEN a[j] ELSE b[j - (i - 1)]
      BY <1>2, <1>4, <1>5
    <2>2. CASE j < i
      BY <1>1, <1>2, <2>1, <2>2
    <2>3. CASE ~(j < i)
      <3>1. j - (i - 1) \in 1 .. n - i /\ i + (j - (i - 1)) = j + 1 /\ ~(j <= i - 1)
        BY <1>1, <2>3
      <3> QED
        BY <1>3, <2>1, <2>3, <3>1
    <2> QED
      BY <2>2, <2>3
  <1> QED
    BY <1>4, <1>5, <1>6 DEF a, b, n

Captured(s, status) ==
    [status |-> status,
     purpose |-> IF call[s].op = "salvage" THEN "recovery_only" ELSE "standard",
     half |-> \E t \in Stores : HalfRestored(t)]

LEMMA CaptureSteps ==
  ASSUME CallsInv, NEW s \in Stores, NEW status \in {"complete", "partial"}, Capture(s, status)
  PROVE  /\ Captured(s, status) \in Snapshots
         /\ snaps' = [snaps EXCEPT ![s] = Append(snaps[s], Captured(s, status))]
         /\ snaps' \in [Stores -> Seq(Snapshots)]
         /\ \A t \in Stores : Len(snaps'[t]) <= MaxSnapshots + 1
         /\ call' \in [Stores -> Calls] /\ call'[s].at \in {"idle", "prune"}
         /\ \A t \in Stores \ {s} : call'[t] = call[t]
         /\ lock' \in [Managed -> Stores \cup {Nobody, Writer}]
         /\ autosave' \in Stores \cup {Nobody}
         /\ \A f \in Managed : lock[f] # s => lock'[f] = lock[f]
  <1> DEFINE new == Captured(s, status)
  <1>1. RestoreTypeOK
    BY DEF CallsInv
  <1>2. new \in Snapshots
    BY DEF Snapshots, Captured
  <1>3. snaps' = [snaps EXCEPT ![s] = Append(snaps[s], new)] /\ Len(snaps[s]) <= MaxSnapshots
    BY <1>1 DEF Capture, RestoreTypeOK, Captured
  <1>4. Append(snaps[s], new) \in Seq(Snapshots) /\ Len(Append(snaps[s], new)) = Len(snaps[s]) + 1
    BY <1>1, <1>2, SnapsFacts, AppendProperties
  <1>5. snaps' \in [Stores -> Seq(Snapshots)]
    BY <1>1, <1>3, <1>4 DEF RestoreTypeOK
  <1>6. \A t \in Stores : Len(snaps'[t]) <= MaxSnapshots + 1
    <2>1. Len(snaps'[s]) = Len(snaps[s]) + 1
      BY <1>1, <1>3, <1>4 DEF RestoreTypeOK
    <2>2. Len(snaps'[s]) <= MaxSnapshots + 1
      BY <1>1, <1>3, <2>1, SnapsFacts, WorkspaceAssumption
    <2>3. \A t \in Stores \ {s} : snaps'[t] = snaps[t]
      BY <1>1, <1>3 DEF RestoreTypeOK
    <2> QED
      BY <1>1, <2>2, <2>3 DEF RestoreTypeOK
  <1>7. CASE End(s)
    <2>1. /\ call' \in [Stores -> Calls]
          /\ call'[s].at = "idle"
          /\ \A t \in Stores \ {s} : call'[t] = call[t]
      BY <1>1, <1>7, CallEnds DEF End
    <2> QED
      BY <1>1, <1>2, <1>3, <1>5, <1>6, <1>7, <2>1, ReleaseFacts DEF End
  <1>8. CASE Goto(s, "prune") /\ UNCHANGED <<lock, autosave>>
    <2>1. /\ call' \in [Stores -> Calls]
          /\ call'[s].at = "prune"
          /\ \A t \in Stores \ {s} : call'[t] = call[t]
      BY <1>1, <1>8, GotoFacts DEF CallBecomes, Places
    <2> QED
      BY <1>1, <1>2, <1>3, <1>5, <1>6, <1>8, <2>1 DEF RestoreTypeOK
  <1> QED
    BY <1>7, <1>8 DEF Capture

LEMMA CaptureCalls ==
  ASSUME CallsInv, NEW s \in Stores, NEW status \in {"complete", "partial"}, Capture(s, status)
  PROVE  CallsInv'
  <1>1. RestoreTypeOK
    BY DEF CallsInv
  <1>2. UNCHANGED <<file, dir, goals, disk, past, edits, errors>>
    BY DEF Capture
  <1>3. RestoreTypeOK' /\ Framed(s)
    BY <1>1, <1>2, CaptureSteps DEF RestoreTypeOK, Framed
  <1>4. call'[s].at \notin Locked
    BY CaptureSteps DEF Locked, Forward
  <1> QED
    BY <1>3, <1>4, UnlockedStep

(* The snapshot that is rotated out is not the only one of its kind.        *)
LEMMA RotateFacts ==
  ASSUME RestoreTypeOK, NEW s \in Stores, Cardinality(Rotatable(s)) > 1
  PROVE  /\ First(Rotatable(s)) \in Rotatable(s)
         /\ \E i \in Rotatable(s) : i # First(Rotatable(s))
  <1> DEFINE R == Rotatable(s)
  <1>1. R \subseteq 1 .. Len(snaps[s]) /\ Len(snaps[s]) \in Nat
    BY SnapsFacts DEF Rotatable
  <1>2. IsFiniteSet(R)
    <2>1. IsFiniteSet(1 .. Len(snaps[s]))
      BY <1>1, FS_Interval
    <2> QED
      BY <1>1, <2>1, FS_Subset
  <1>3. R # {}
    BY FS_EmptySet
  <1>4. First(R) \in R
    BY <1>1, <1>3, FirstFacts
  <1>5. R # {First(R)}
    BY FS_Singleton
  <1> QED
    BY <1>4, <1>5

LEMMA RotateSteps ==
  ASSUME CallsInv, NEW s \in Stores, Rotate(s)
  PROVE  \E old \in DOMAIN snaps[s] :
           /\ old = First(Rotatable(s))
           /\ snaps' \in [Stores -> Seq(Snapshots)]
           /\ \A t \in Stores \ {s} : snaps'[t] = snaps[t]
           /\ Len(snaps'[s]) <= Len(snaps[s])
           /\ \/ /\ UNCHANGED <<lock, autosave, call, errors>>
                 /\ snaps'[s] =
                       SubSeq(snaps[s], 1, old - 1) \o SubSeq(snaps[s], old + 1, Len(snaps[s]))
              \/ /\ errors < MaxErrors /\ errors' = errors + 1 /\ End(s)
                 /\ Len(snaps'[s]) = Len(snaps[s]) /\ snaps'[s][old].status = "corrupt"
                 /\ \A i \in DOMAIN snaps[s] \ {old} : snaps'[s][i] = snaps[s][i]
  <1> DEFINE old == First(Rotatable(s))
             q == snaps[s]
  <1>1. RestoreTypeOK /\ Cardinality(Rotatable(s)) > 1
    BY DEF CallsInv, Rotate
  <1>2. old \in DOMAIN q
    BY <1>1, RotateFacts DEF Rotatable
  <1>3. /\ q \in Seq(Snapshots) /\ old \in 1 .. Len(q) /\ Len(q) \in Nat
        /\ \A i \in 1 .. Len(q) : q[i] \in Snapshots
        /\ DOMAIN q = 1 .. Len(q) /\ snaps \in [Stores -> Seq(Snapshots)]
    BY <1>1, <1>2, SnapsFacts DEF RestoreTypeOK
  <1>4. CASE /\ snaps' = [snaps EXCEPT ![s] = SubSeq(@, 1, old - 1) \o SubSeq(@, old + 1, Len(@))]
             /\ UNCHANGED <<lock, autosave, call, errors>>
    <2> DEFINE w == SubSeq(q, 1, old - 1) \o SubSeq(q, old + 1, Len(q))
    <2>1. w \in Seq(Snapshots) /\ Len(w) = Len(q) - 1
      BY <1>3, Without
    <2>2. snaps' = [snaps EXCEPT ![s] = w]
      BY <1>3, <1>4
    <2> HIDE DEF w
    <2>3. /\ snaps' \in [Stores -> Seq(Snapshots)]
          /\ snaps'[s] = w
          /\ \A t \in Stores \ {s} : snaps'[t] = snaps[t]
      BY <1>3, <2>1, <2>2
    <2>4. Len(snaps'[s]) <= Len(q)
      BY <1>3, <2>1, <2>3
    <2> QED
      BY <1>2, <1>4, <2>3, <2>4 DEF w
  <1>5. CASE /\ errors < MaxErrors /\ errors' = errors + 1
             /\ snaps' = [snaps EXCEPT ![s][old].status = "corrupt"]
             /\ End(s)
    <2> DEFINE e == [q[old] EXCEPT !.status = "corrupt"]
               w == [q EXCEPT ![old] = e]
    <2>1. e \in Snapshots /\ e.status = "corrupt"
      BY <1>3 DEF Snapshots
    <2>2. snaps' = [snaps EXCEPT ![s] = w]
      BY <1>3, <1>5
    <2> HIDE DEF e
    <2>3. w \in Seq(Snapshots) /\ Len(w) = Len(q)
      BY <1>3, <2>1, ExceptSeq
    <2>4. w[old] = e /\ \A i \in DOMAIN q \ {old} : w[i] = q[i]
      BY <1>3
    <2> HIDE DEF w
    <2>5. /\ snaps' \in [Stores -> Seq(Snapshots)]
          /\ snaps'[s] = w
          /\ \A t \in Stores \ {s} : snaps'[t] = snaps[t]
      BY <1>3, <2>2, <2>3
    <2>6. Len(snaps'[s]) <= Len(q)
      BY <1>3, <2>3, <2>5
    <2> QED
      BY <1>2, <1>5, <2>1, <2>3, <2>4, <2>5, <2>6
  <1> QED
    BY <1>4, <1>5 DEF Rotate

LEMMA RotateCalls ==
  ASSUME CallsInv, NEW s \in Stores, Rotate(s) PROVE CallsInv'
  <1>1. RestoreTypeOK
    BY DEF CallsInv
  <1>2. UNCHANGED <<file, dir, goals, disk, past, edits>> /\ Reached(s, "prune")
    BY DEF Rotate
  <1>3. PICK old \in DOMAIN snaps[s] :
           /\ snaps' \in [Stores -> Seq(Snapshots)]
           /\ \A t \in Stores \ {s} : snaps'[t] = snaps[t]
           /\ Len(snaps'[s]) <= Len(snaps[s])
           /\ \/ UNCHANGED <<lock, autosave, call, errors>>
              \/ errors < MaxErrors /\ errors' = errors + 1 /\ End(s)
    BY RotateSteps
  <1>4. \A t \in Stores : Len(snaps'[t]) <= MaxSnapshots + 1
    <2>1. /\ Len(snaps[s]) \in Nat /\ Len(snaps'[s]) \in Nat /\ Len(snaps[s]) <= MaxSnapshots + 1
          /\ MaxSnapshots \in Nat
      BY <1>1, <1>3, LenProperties, WorkspaceAssumption DEF RestoreTypeOK
    <2>2. Len(snaps'[s]) <= MaxSnapshots + 1
      BY <1>3, <2>1
    <2> QED
      BY <1>1, <1>3, <2>2 DEF RestoreTypeOK
  <1>5. CASE UNCHANGED <<lock, autosave, call, errors>>
    <2>1. RestoreTypeOK' /\ Framed(s)
      BY <1>1, <1>2, <1>3, <1>4, <1>5 DEF RestoreTypeOK, Framed
    <2> QED
      BY <1>2, <1>5, <2>1, UnlockedStep DEF Reached, Locked, Forward
  <1>6. CASE errors < MaxErrors /\ errors' = errors + 1 /\ End(s)
    <2>1. errors' \in 0 .. MaxErrors
      BY <1>1, <1>6, MoreErrors
    <2>2. RestoreTypeOK'
      BY <1>1, <1>2, <1>3, <1>4, <1>6, <2>1, EndFacts, ReleaseFacts DEF RestoreTypeOK
    <2> QED
      BY <1>2, <1>6, <2>2, EndStep
  <1> QED
    BY <1>3, <1>5, <1>6

----------------------------------------------------------------------------
(* The others.                                                              *)
LEMMA EditedFacts ==
  ASSUME RestoreTypeOK, NEW x \in Files \cup {0},
         past' = [t \in Stores |-> [past[t] EXCEPT !.edited = @ \cup {x}]]
  PROVE  /\ past' \in [Stores -> [file : [Files -> Contents], dir : {"absent", "own", "shared"},
                            edited : SUBSET (Files \cup {0}),
                            result : {"none", "restored", "rolled_back"}]]
         /\ \A t \in Stores :
              /\ past'[t].file = past[t].file /\ past'[t].dir = past[t].dir
              /\ past'[t].edited = past[t].edited \cup {x} /\ past'[t].result = past[t].result
  BY DEF RestoreTypeOK

LEMMA MoreEdits ==
  ASSUME RestoreTypeOK, edits < MaxEdits, edits' = edits + 1
  PROVE  edits' \in 0 .. MaxEdits /\ Saved + edits' \in Contents /\ Absent \in Contents
  BY WorkspaceAssumption DEF RestoreTypeOK, Contents, Saved, Absent

(* No call's lock is given or taken, and no file under one is written.      *)
LEMMA OtherStep ==
  ASSUME CallsInv, RestoreTypeOK', UNCHANGED <<call, disk>>,
         \A f \in Managed : \/ lock'[f] = lock[f] /\ file'[f] = file[f]
                            \/ lock[f] \in {Nobody, Writer}
  PROVE  CallsInv'
  <1>1. ASSUME NEW t \in Stores PROVE CallIsSound(t)'
    <2>1. t \notin {Nobody, Writer}
      BY WorkspaceAssumption
    <2> QED
      BY <2>1, OtherCalls
  <1> QED
    BY <1>1 DEF CallsInv

LEMMA EditCalls ==
  ASSUME CallsInv, NEW f \in Files, Edit(f) PROVE CallsInv'
  <1>1. RestoreTypeOK /\ f \notin Managed
    BY DEF CallsInv, Edit
  <1>2. PICK c \in {Absent, Saved + edits'} : file' = [file EXCEPT ![f] = c]
    BY DEF Edit
  <1>3. c \in Contents /\ edits' \in 0 .. MaxEdits
    BY <1>1, <1>2, MoreEdits DEF Edit
  <1>4. /\ dir' \in {"absent", "own", "shared"}
        /\ UNCHANGED <<goals, lock, autosave, disk, snaps, call, errors>>
    BY <1>1 DEF Edit, RestoreTypeOK
  <1>5. RestoreTypeOK'
    BY <1>1, <1>2, <1>3, <1>4, EditedFacts DEF Edit, Edited, RestoreTypeOK
  <1>6. \A g \in Managed : lock'[g] = lock[g] /\ file'[g] = file[g]
    BY <1>1, <1>2, <1>4 DEF RestoreTypeOK
  <1> QED
    BY <1>4, <1>5, <1>6, OtherStep

LEMMA ShareCalls ==
  ASSUME CallsInv, Share PROVE CallsInv'
  <1>1. RestoreTypeOK
    BY DEF CallsInv
  <1>2. edits' \in 0 .. MaxEdits
    BY <1>1, MoreEdits DEF Share
  <1>3. dir' = "shared" /\ UNCHANGED <<file, goals, lock, autosave, disk, snaps, call, errors>>
    BY DEF Share
  <1>4. RestoreTypeOK'
    BY <1>1, <1>2, <1>3, EditedFacts DEF Share, RestoreTypeOK
  <1> QED
    BY <1>3, <1>4, OtherStep

LEMMA WriterCalls ==
  ASSUME CallsInv, NEW f \in Managed, WriterLocks(f) \/ WriterWrites(f) \/ WriterLeaves(f)
  PROVE  CallsInv'
  <1>1. RestoreTypeOK /\ f \in Files
    BY WorkspaceAssumption DEF CallsInv
  <1>2. UNCHANGED <<dir, autosave, disk, snaps, call, errors>> /\ goals' \in {"absent", "made"}
    BY <1>1 DEF RestoreTypeOK, WriterLocks, WriterWrites, WriterLeaves
  <1>3. /\ lock' \in [Managed -> Stores \cup {Nobody, Writer}]
        /\ \A g \in Managed : lock'[g] = lock[g] \/ lock[g] \in {Nobody, Writer}
    BY <1>1 DEF WriterLocks, WriterWrites, WriterLeaves, RestoreTypeOK
  <1>4. CASE UNCHANGED <<file, past, edits>>
    <2>1. RestoreTypeOK'
      BY <1>1, <1>2, <1>3, <1>4 DEF RestoreTypeOK
    <2> QED
      BY <1>2, <1>3, <1>4, <2>1, OtherStep
  <1>5. CASE WriterWrites(f)
    <2>1. edits' \in 0 .. MaxEdits /\ Saved + edits' \in Contents
      BY <1>1, <1>5, MoreEdits DEF WriterWrites
    <2>2. file' \in [Files -> Contents] /\ \A g \in Files \ {f} : file'[g] = file[g]
      BY <1>1, <1>5, <2>1 DEF WriterWrites, RestoreTypeOK
    <2>3. RestoreTypeOK'
      BY <1>1, <1>2, <1>3, <1>5, <2>1, <2>2, EditedFacts DEF WriterWrites, Edited, RestoreTypeOK
    <2>4. lock[f] = Writer /\ Managed \subseteq Files
      BY <1>5, WorkspaceAssumption DEF WriterWrites
    <2> QED
      BY <1>2, <1>3, <2>2, <2>3, <2>4, OtherStep
  <1> QED
    BY <1>4, <1>5 DEF WriterLocks, WriterLeaves

----------------------------------------------------------------------------
(* Any number of stores                                                     *)
LEMMA InitCalls == RestoreInit => CallsInv
  <1> SUFFICES ASSUME RestoreInit PROVE CallsInv
    OBVIOUS
  <1> USE DEF RestoreInit
  <1>1. NoCall \in Calls /\ NoCall.at = "idle"
    BY DEF NoCall, Calls, Places, Operations
  <1>2. {Absent, FirstContent} \subseteq Contents /\ MaxEdits \in Nat /\ MaxErrors \in Nat
    BY WorkspaceAssumption DEF Absent, FirstContent, Contents
  <1>3. file \in [Files -> Contents]
    BY <1>2
  <1>4. snaps \in [Stores -> Seq(Snapshots)] /\ \A s \in Stores : Len(snaps[s]) <= MaxSnapshots + 1
    <2> DEFINE new == [status |-> "complete", purpose |-> "standard", half |-> FALSE]
    <2>1. new \in Snapshots
      BY DEF Snapshots
    <2>2. snaps = [s \in Stores |-> <<new>>]
      OBVIOUS
    <2> HIDE DEF new
    <2>3. <<new>> \in Seq(Snapshots) /\ Len(<<new>>) = 1
      BY <2>1
    <2>4. 1 <= MaxSnapshots + 1
      BY WorkspaceAssumption
    <2> QED
      BY <2>2, <2>3, <2>4
  <1>5. past \in [Stores -> [file : [Files -> Contents], dir : {"absent", "own", "shared"},
                            edited : SUBSET (Files \cup {0}),
                            result : {"none", "restored", "rolled_back"}]]
    BY <1>3
  <1>6. edits \in 0 .. MaxEdits /\ errors \in 0 .. MaxErrors
    BY <1>2
  <1>7. RestoreTypeOK
    BY <1>1, <1>3, <1>4, <1>5, <1>6, EmptyTxn DEF RestoreTypeOK
  <1>8. \A s \in Stores : CallIsSound(s)
    BY <1>1 DEF CallIsSound, Reached, Locked, Forward
  <1> QED
    BY <1>7, <1>8 DEF CallsInv

LEMMA CallCalls ==
  ASSUME CallsInv, NEW s \in Stores, Call(s) PROVE CallsInv'
  <1>1. CASE Recovery(s)
    BY <1>1, RecoveryCalls, EndCalls, LockingCalls, RecoverOrphanCalls DEF Recovery
  <1>2. CASE RestoreStep(s)
    BY <1>2, CreateCalls, WriteJournalCalls, LockCalls, DirCalls, PrepareCalls, CheckCalls,
       AttemptCalls, ReplaceCalls, VerifyCalls DEF RestoreStep
  <1>3. CASE RollbackStep(s)
    BY <1>3, UndoNextCalls, UndoCalls, RecordCalls, UndoDirCalls, RolledBackCalls, EndCalls,
       RemoveCalls DEF RollbackStep
  <1>4. CASE SaveStep(s)
    BY <1>4, CaptureCalls, RotateCalls, EndCalls DEF SaveStep
  <1>5. CASE Errors(s)
    BY <1>5, RollBackCalls, UndoFailsCalls, RemoveCalls, EndCalls DEF Errors
  <1> QED
    BY <1>1, <1>2, <1>3, <1>4, <1>5 DEF Call

LEMMA NextCalls == CallsInv /\ [RestoreNext]_restoreVars => CallsInv'
  <1> SUFFICES ASSUME CallsInv, [RestoreNext]_restoreVars PROVE CallsInv'
    OBVIOUS
  <1>1. ASSUME NEW s \in Stores, BeginRestore(s) \/ Call(s)
        PROVE  CallsInv'
    BY <1>1, BeginRestoreCalls, CallCalls
  <1>2. ASSUME NEW s \in Stores, NEW op \in Operations \ {"restore"}, BeginOther(s, op)
        PROVE  CallsInv'
    BY <1>2, BeginOtherCalls
  <1>3. CASE Others
    BY <1>3, EditCalls, ShareCalls, WriterCalls DEF Others
  <1>4. CASE UNCHANGED restoreVars
    <2> USE <1>4 DEF restoreVars
    <2>1. RestoreTypeOK'
      BY DEF CallsInv, RestoreTypeOK
    <2> QED
      BY <2>1, OtherStep
  <1> QED
    BY <1>1, <1>2, <1>3, <1>4 DEF RestoreNext

(* Only a replacement and an undo change a file in a call.                   *)
LEMMA WhoWrites ==
  ASSUME [RestoreNext]_restoreVars
  PROVE  \/ UNCHANGED file \/ UNCHANGED call
         \/ \E t \in Stores : Replace(t) \/ Undo(t)
  <1>1. ASSUME NEW s \in Stores, Recovery(s) PROVE UNCHANGED file
    BY <1>1 DEF Recovery, NoOrphan, ReapBare, RefuseOrphan, SkipCommitted, MakeGoals,
       AcquireStateLock, RecoverOrphan, LocksTimeOut
  <1>2. ASSUME NEW s \in Stores, RestoreStep(s) PROVE UNCHANGED file \/ Replace(s)
    BY <1>2 DEF RestoreStep, Create, WriteJournal, Lock, PlanDir, MakeDir, RecordDir, PrepareFile,
       CheckUnchanged, Attempt, Verify, CommitRestore
  <1>3. ASSUME NEW s \in Stores, RollbackStep(s) PROVE UNCHANGED file \/ Undo(s)
    BY <1>3 DEF RollbackStep, UndoNext, RecordUndone, UndoDir, RolledBack, RollbackIncomplete,
       Remove
  <1>4. ASSUME NEW s \in Stores, SaveStep(s) PROVE UNCHANGED file
    BY <1>4 DEF SaveStep, Capture, Rotate, RotateDone
  <1>5. ASSUME NEW s \in Stores, Errors(s) PROVE UNCHANGED file
    BY <1>5 DEF Errors, RollBack, UndoFails, RemoveStops, GiveUp, Die
  <1>6. ASSUME NEW s \in Stores, Call(s) PROVE UNCHANGED file \/ Replace(s) \/ Undo(s)
    BY <1>1, <1>2, <1>3, <1>4, <1>5, <1>6 DEF Call
  <1>7. ASSUME NEW s \in Stores, BeginRestore(s) \/ \E op \in Operations : BeginOther(s, op)
        PROVE  UNCHANGED file
    BY <1>7 DEF BeginRestore, BeginOther
  <1>8. ASSUME Others PROVE UNCHANGED call
    BY <1>8 DEF Others, Edit, Share, WriterLocks, WriterWrites, WriterLeaves
  <1>9. CASE UNCHANGED restoreVars
    BY <1>9 DEF restoreVars
  <1> QED
    BY <1>6, <1>7, <1>8, <1>9 DEF RestoreNext

(* Any number of stores of one workspace, of any number of files: calls are  *)
(* typed, and whoever publishes or undoes holds every state file's lock.     *)
THEOREM CallsInvariance == RestoreSpec => []CallsInv
  <1>1. RestoreInit => CallsInv
    BY InitCalls
  <1>2. CallsInv /\ [RestoreNext]_restoreVars => CallsInv'
    BY NextCalls
  <1> QED
    BY <1>1, <1>2, PTL DEF RestoreSpec

(* Files, transactions, snapshots, calls and histories keep their types.     *)
THEOREM RestoreTypeCorrect == RestoreSpec => []RestoreTypeOK
  <1>1. CallsInv => RestoreTypeOK
    BY DEF CallsInv
  <1> QED
    BY <1>1, CallsInvariance, PTL

(* A state file that another process wrote under its lock is never replaced  *)
(* by a restore or a rollback of any store, whatever dies in between.        *)
THEOREM StateWritesSafe == RestoreSpec => StateWritesSurvive
  <1> DEFINE Kept1(s) == call[s].at \in {"replace", "undo"} =>
               \A f \in Managed : file'[f] # file[f] /\ call' # call
                                    => file[f] \in Replaceable(s, f)
  <1>1. CallsInv /\ [RestoreNext]_restoreVars => \A s \in Stores : Kept1(s)
    <2> SUFFICES ASSUME CallsInv, [RestoreNext]_restoreVars, NEW s \in Stores,
                        call[s].at \in {"replace", "undo"}, NEW f \in Managed,
                        file'[f] # file[f], call' # call
                 PROVE  file[f] \in Replaceable(s, f)
      OBVIOUS
    <2>1. PICK t \in Stores : Replace(t) \/ Undo(t)
      BY WhoWrites
    <2>2. call[t].at \in {"replace", "undo"}
      BY <2>1 DEF Replace, Undo, Reached
    <2>3. lock[f] = s /\ lock[f] = t
      BY <2>2 DEF CallsInv, CallIsSound, Locked, Forward
    <2>4. call[s].target = f
      <3>1. f \in Files /\ file \in [Files -> Contents]
        BY WorkspaceAssumption DEF CallsInv, RestoreTypeOK
      <3> QED
        BY <2>1, <2>3, <3>1 DEF Replace, Undo
    <2>5. Unchanged(s, f) \/ MayUndo(s, f)
      BY <2>4 DEF CallsInv, CallIsSound, Reached
    <2> QED
      BY <2>5 DEF Unchanged, MayUndo, Replaceable
  <1> QED
    BY <1>1, CallsInvariance, PTL DEF RestoreSpec, StateWritesSurvive

----------------------------------------------------------------------------
(* The files nobody else has changed since the last restore began, and      *)
(* whether its directory is one.                                            *)
Kept(s) == Files \ past[s].edited
Untouched(s) == past[s].edited \cap (Nested \cup {0}) = {}

Open(s) == disk[s].kind = "journaled" /\ disk[s].phase # "committed"

(* What the journal says of the workspace.                                  *)
JournalIsTrue(s) ==
    /\ Open(s) =>
         /\ \A f \in Kept(s) :
              /\ disk[s].step[f] # "planned" => disk[s].original[f] = past[s].file[f]
              /\ \/ file[f] = past[s].file[f]
                 \/ disk[s].step[f] = "attempted" /\ file[f] = Saved
         /\ Untouched(s) => IF disk[s].made = "no" THEN dir = past[s].dir
                            ELSE past[s].dir = "absent"
         /\ disk[s].phase # "rolling_back" =>
              \A f \in Nested : disk[s].step[f] # "planned" => dir # "absent"
    /\ disk[s].kind = "journaled" /\ disk[s].phase = "committed" =>
         \A f \in Kept(s) : file[f] = Saved

(* What a result says of it, and of the journal it may have left.           *)
ResultIsTrue(s) ==
    /\ past[s].result = "restored" =>
         /\ \A f \in Kept(s) : file[f] = Saved
         /\ disk[s].kind = "none" \/ disk[s].phase = "committed"
    /\ past[s].result = "rolled_back" =>
         /\ \A f \in Kept(s) : file[f] = past[s].file[f]
         /\ Untouched(s) => dir = past[s].dir
         /\ \/ disk[s].kind = "none"
            \/ disk[s].phase = "rolling_back" /\ InStep(s, {"attempted"}) = {}

(* Where a call is tells how far its transaction came.                      *)
NothingPrepared(s) == /\ disk[s].phase = "preparing" /\ disk[s].made = "no"
                      /\ \A f \in Files : disk[s].step[f] = "planned"
TargetAttempted(s) == call[s].target \in InStep(s, {"attempted"})
KeptTargetIsBack(s) ==
    call[s].target \in Kept(s) => file[call[s].target] = past[s].file[call[s].target]
DirIsBack(s) == Untouched(s) => dir = past[s].dir

BeginningIsSound(s) ==
    /\ Reached(s, "journal") =>
         /\ disk[s].kind = "bare" /\ NothingPrepared(s) /\ DirIsBack(s)
         /\ \A f \in Kept(s) : file[f] = past[s].file[f]
    /\ Reached(s, "lock") => NothingPrepared(s)
    /\ call[s].at \in {"lock", "prepare", "made", "check"} =>
         disk[s].kind = "journaled" /\ disk[s].phase = "preparing"
    /\ Reached(s, "prepare") /\ disk[s].made = "planned" /\ Untouched(s) => dir = "absent"
    /\ Reached(s, "made") => disk[s].made = "planned"
PublicationIsSound(s) ==
    /\ Reached(s, "publish") =>
         disk[s].kind = "journaled" /\ disk[s].phase \in {"preparing", "publishing"}
    /\ call[s].at \in {"replace", "verify", "commit"} =>
         disk[s].kind = "journaled" /\ disk[s].phase = "publishing"
    /\ Reached(s, "replace") => TargetAttempted(s)
    /\ Reached(s, "commit") => \A f \in Kept(s) : file[f] = Saved
RollbackIsSound(s) ==
    /\ call[s].at \in {"rollback", "undo", "record", "undo_dir"} =>
         disk[s].kind = "journaled" /\ disk[s].phase = "rolling_back"
    /\ call[s].at \in {"undo", "record"} => TargetAttempted(s)
    /\ Reached(s, "record") => KeptTargetIsBack(s)
    /\ Reached(s, "undo_dir") =>
         /\ InStep(s, {"attempted"}) \subseteq call[s].refused
         /\ 0 \notin call[s].refused => DirIsBack(s)
    /\ Reached(s, "remove") =>
         /\ disk[s].kind = "journaled"
         /\ \/ disk[s].phase = "committed"
            \/ disk[s].phase = "rolling_back" /\ InStep(s, {"attempted"}) = {} /\ DirIsBack(s)

(* Only a salvage is taken beside the remains of a restore.                 *)
SavesAreSound(s) ==
    /\ Reached(s, "capture") => call[s].op = "salvage" \/ disk[s].kind = "none"
    /\ \E i \in DOMAIN snaps[s] : Standard(snaps[s][i])
    /\ \A i \in DOMAIN snaps[s] : Standard(snaps[s][i]) => ~snaps[s][i].half

StoreInv(s) ==
    /\ JournalIsTrue(s) /\ ResultIsTrue(s) /\ BeginningIsSound(s)
    /\ PublicationIsSound(s) /\ RollbackIsSound(s) /\ SavesAreSound(s)

----------------------------------------------------------------------------
(* Nothing is known of the snapshots but what saving and rotating do.       *)
SnapsAreWhole(s) ==
    /\ \E i \in DOMAIN snaps[s] : Standard(snaps[s][i])
    /\ \A i \in DOMAIN snaps[s] : Standard(snaps[s][i]) => ~snaps[s][i].half

(* A call between two transactions.                                         *)
LEMMA QuietStore ==
  ASSUME NEW s \in Stores, StoreInv(s), UNCHANGED <<file, dir, past>>, disk'[s] = disk[s],
         SnapsAreWhole(s)',
         \/ call'[s].at \in {"idle", "recover", "create", "prune"}
         \/ call'[s].at = "capture" /\ (call'[s].op = "salvage" \/ disk[s].kind = "none")
  PROVE  StoreInv(s)'
  <1>1. JournalIsTrue(s)' /\ ResultIsTrue(s)'
    BY DEF StoreInv, JournalIsTrue, ResultIsTrue, Open, Kept, Untouched, InStep
  <1>2. BeginningIsSound(s)' /\ PublicationIsSound(s)' /\ RollbackIsSound(s)'
    BY DEF BeginningIsSound, PublicationIsSound, RollbackIsSound, Reached
  <1>3. SavesAreSound(s)'
    BY DEF SavesAreSound, SnapsAreWhole, Reached
  <1> QED
    BY <1>1, <1>2, <1>3 DEF StoreInv

LEMMA SameSnaps ==
  ASSUME NEW s \in Stores, StoreInv(s), UNCHANGED snaps PROVE SnapsAreWhole(s)'
  BY DEF StoreInv, SavesAreSound, SnapsAreWhole, Standard, Complete

LEMMA BeginStore ==
  ASSUME CallsInv, NEW s \in Stores, StoreInv(s),
         BeginRestore(s) \/ \E op \in Operations : BeginOther(s, op)
  PROVE  StoreInv(s)'
  <1>1. call \in [Stores -> Calls]
    BY DEF CallsInv, RestoreTypeOK
  <1>2. call'[s].at \in {"recover", "prune"}
    BY <1>1 DEF BeginRestore, BeginOther, NoCall
  <1>3. UNCHANGED <<file, dir, disk, snaps, past>>
    BY DEF BeginRestore, BeginOther
  <1> QED
    BY <1>2, <1>3, SameSnaps, QuietStore

LEMMA EndStore ==
  ASSUME CallsInv, NEW s \in Stores, StoreInv(s), End(s) \/ Blocked(s),
         UNCHANGED <<file, dir, disk, past>>, SnapsAreWhole(s)'
  PROVE  StoreInv(s)'
  <1>1. /\ call'[s].at \in {"idle", "capture"}
        /\ call'[s].at = "capture" => call'[s].op = "salvage"
    BY EndFacts DEF CallsInv
  <1> QED
    BY <1>1, QuietStore

LEMMA EndsStore ==
  ASSUME CallsInv, NEW s \in Stores, StoreInv(s),
         \/ RefuseOrphan(s) \/ LocksTimeOut(s) \/ RollbackIncomplete(s) \/ RotateDone(s)
         \/ GiveUp(s) \/ Die(s)
  PROVE  StoreInv(s)'
  <1>1. (End(s) \/ Blocked(s)) /\ UNCHANGED <<file, dir, disk, past, snaps>>
    BY DEF RefuseOrphan, LocksTimeOut, RollbackIncomplete, RotateDone, GiveUp, Die
  <1> QED
    BY <1>1, SameSnaps, EndStore

LEMMA NoOrphanStore ==
  ASSUME CallsInv, NEW s \in Stores, StoreInv(s), NoOrphan(s) PROVE StoreInv(s)'
  <1>1. call'[s].at \in {"create", "capture"}
    BY ProceedFacts DEF CallsInv, NoOrphan
  <1>2. UNCHANGED <<file, dir, disk, past, snaps>> /\ disk[s].kind = "none"
    BY DEF NoOrphan
  <1> QED
    BY <1>1, <1>2, SameSnaps, QuietStore

(* Without a transaction a store knows only what it reported.               *)
LEMMA ClearedStore ==
  ASSUME NEW s \in Stores, StoreInv(s), UNCHANGED <<file, dir>>, SnapsAreWhole(s)',
         disk'[s].kind = "none",
         call'[s].at \in {"idle", "recover", "create", "prune", "capture"},
         past'[s].file = past[s].file, past'[s].dir = past[s].dir, past'[s].edited = past[s].edited,
         past'[s].result = "restored" => \A f \in Kept(s) : file[f] = Saved,
         past'[s].result = "rolled_back" => /\ \A f \in Kept(s) : file[f] = past[s].file[f]
                                            /\ Untouched(s) => dir = past[s].dir
  PROVE  StoreInv(s)'
  <1>1. JournalIsTrue(s)'
    BY DEF JournalIsTrue, Open
  <1>2. ResultIsTrue(s)'
    BY DEF ResultIsTrue, Kept, Untouched
  <1>3. BeginningIsSound(s)' /\ PublicationIsSound(s)' /\ RollbackIsSound(s)'
    BY DEF BeginningIsSound, PublicationIsSound, RollbackIsSound, Reached
  <1>4. SavesAreSound(s)'
    BY DEF SavesAreSound, SnapsAreWhole, Reached
  <1> QED
    BY <1>1, <1>2, <1>3, <1>4 DEF StoreInv

LEMMA ReapBareStore ==
  ASSUME CallsInv, NEW s \in Stores, StoreInv(s), ReapBare(s) PROVE StoreInv(s)'
  <1>1. call'[s].at \in {"create", "capture"}
    BY ProceedFacts DEF CallsInv, ReapBare
  <1>2. UNCHANGED <<file, dir, past, snaps>> /\ disk'[s].kind = "none"
    BY DiskFacts, EmptyTxn DEF CallsInv, ReapBare
  <1>3. /\ past[s].result = "restored" => \A f \in Kept(s) : file[f] = Saved
        /\ past[s].result = "rolled_back" => /\ \A f \in Kept(s) : file[f] = past[s].file[f]
                                             /\ Untouched(s) => dir = past[s].dir
    BY DEF StoreInv, ResultIsTrue
  <1> QED
    BY <1>1, <1>2, <1>3, SameSnaps, ClearedStore

(* A step of the call alone.                                                *)
LEMMA SameWorld ==
  ASSUME NEW s \in Stores, StoreInv(s), UNCHANGED <<file, dir, past>>, disk'[s] = disk[s]
  PROVE  JournalIsTrue(s)' /\ ResultIsTrue(s)'
  BY DEF StoreInv, JournalIsTrue, ResultIsTrue, Open, Kept, Untouched, InStep

LEMMA SavesKept ==
  ASSUME NEW s \in Stores, StoreInv(s), UNCHANGED snaps, call'[s].at # "capture"
  PROVE  SavesAreSound(s)'
  BY SameSnaps DEF SavesAreSound, SnapsAreWhole, Reached

(* A transaction at work has reported nothing yet.                          *)
LEMMA NoResult ==
  ASSUME NEW s \in Stores, StoreInv(s), RestoreTypeOK, disk[s].kind # "none",
         disk[s].phase \in {"preparing", "publishing"}
  PROVE  past[s].result = "none"
  BY DEF StoreInv, ResultIsTrue, RestoreTypeOK

LEMMA SkipCommittedStore ==
  ASSUME CallsInv, NEW s \in Stores, StoreInv(s), SkipCommitted(s) PROVE StoreInv(s)'
  <1>1. CallBecomes(s, "remove", call[s].own, call[s].target, call[s].refused)
    BY GotoFacts DEF CallsInv, SkipCommitted, Places
  <1>2. /\ UNCHANGED <<file, dir, disk, past, snaps>>
        /\ disk[s].kind = "journaled" /\ disk[s].phase = "committed"
    BY DEF SkipCommitted
  <1>3. BeginningIsSound(s)' /\ PublicationIsSound(s)' /\ RollbackIsSound(s)'
    BY <1>1, <1>2 DEF CallBecomes, BeginningIsSound, PublicationIsSound, RollbackIsSound, Reached
  <1> QED
    BY <1>1, <1>2, <1>3, SameWorld, SavesKept DEF CallBecomes, StoreInv

(* A rollback begins, by whoever is still there.                            *)
LEMMA RollingBackStore ==
  ASSUME NEW s \in Stores, StoreInv(s), UNCHANGED <<file, dir, past, snaps>>, Open(s),
         TxnBecomes(s, disk[s].kind, "rolling_back", disk[s].made, disk[s].step, disk[s].original),
         call'[s].at = "rollback"
  PROVE  StoreInv(s)'
  <1>1. JournalIsTrue(s)'
    BY DEF StoreInv, JournalIsTrue, Open, Kept, Untouched, TxnBecomes
  <1>2. ResultIsTrue(s)'
    BY DEF StoreInv, ResultIsTrue, Open, Kept, Untouched, TxnBecomes, InStep
  <1>3. BeginningIsSound(s)' /\ PublicationIsSound(s)' /\ RollbackIsSound(s)'
    BY DEF TxnBecomes, Open, BeginningIsSound, PublicationIsSound, RollbackIsSound, Reached
  <1> QED
    BY <1>1, <1>2, <1>3, SavesKept DEF StoreInv

LEMMA RecoverOrphanStore ==
  ASSUME CallsInv, NEW s \in Stores, StoreInv(s), RecoverOrphan(s) PROVE StoreInv(s)'
  <1>1. RestoreTypeOK
    BY DEF CallsInv
  <1>2. CallBecomes(s, "rollback", call[s].own, call[s].target, call[s].refused)
    BY <1>1, GotoFacts DEF RecoverOrphan, Places
  <1>3. TxnBecomes(s, disk[s].kind, "rolling_back", disk[s].made, disk[s].step, disk[s].original)
    BY <1>1, PhaseFacts DEF RecoverOrphan
  <1>4. UNCHANGED <<file, dir, past, snaps>> /\ Open(s)
    BY DEF RecoverOrphan, Open
  <1> QED
    BY <1>2, <1>3, <1>4, RollingBackStore DEF CallBecomes

----------------------------------------------------------------------------
(* The restore.                                                             *)
LEMMA CreateStore ==
  ASSUME CallsInv, NEW s \in Stores, StoreInv(s), Create(s) PROVE StoreInv(s)'
  <1>1. RestoreTypeOK
    BY DEF CallsInv
  <1>2. CallBecomes(s, "journal", TRUE, call[s].target, call[s].refused)
    BY <1>1, OwnFacts DEF Create, Places
  <1>3. /\ disk'[s].kind = "bare" /\ disk'[s].phase = "preparing" /\ disk'[s].made = "no"
        /\ \A f \in Files : disk'[s].step[f] = "planned"
    <2>1. disk'[s] = [NoTransaction EXCEPT !.kind = "bare"]
      BY <1>1, DiskFacts DEF Create
    <2> QED
      BY <2>1, EmptyTxn
  <1>4. UNCHANGED <<file, dir, snaps>>
    BY DEF Create
  <1>5. /\ past'[s].file = file /\ past'[s].dir = dir /\ past'[s].edited = {}
        /\ past'[s].result = "none"
    BY <1>1 DEF Create, RestoreTypeOK
  <1>6. JournalIsTrue(s)' /\ ResultIsTrue(s)'
    BY <1>3, <1>5 DEF JournalIsTrue, ResultIsTrue, Open
  <1>7. BeginningIsSound(s)'
    BY <1>2, <1>3, <1>4, <1>5 DEF CallBecomes, BeginningIsSound, NothingPrepared, DirIsBack, Reached
  <1>8. PublicationIsSound(s)' /\ RollbackIsSound(s)'
    BY <1>2 DEF CallBecomes, PublicationIsSound, RollbackIsSound, Reached
  <1> QED
    BY <1>2, <1>4, <1>6, <1>7, <1>8, SavesKept DEF CallBecomes, StoreInv

LEMMA WriteJournalStore ==
  ASSUME CallsInv, NEW s \in Stores, StoreInv(s), WriteJournal(s) PROVE StoreInv(s)'
  <1>1. RestoreTypeOK
    BY DEF CallsInv
  <1>2. CallBecomes(s, "lock", call[s].own, call[s].target, call[s].refused)
    BY <1>1, GotoFacts DEF WriteJournal, Places
  <1>3. TxnBecomes(s, "journaled", disk[s].phase, disk[s].made, disk[s].step, disk[s].original)
    BY <1>1, KindFacts DEF WriteJournal
  <1>4. UNCHANGED <<file, dir, past, snaps>>
    BY DEF WriteJournal
  <1>5. /\ disk[s].kind = "bare" /\ NothingPrepared(s) /\ DirIsBack(s)
        /\ \A f \in Kept(s) : file[f] = past[s].file[f]
    BY DEF WriteJournal, StoreInv, BeginningIsSound
  <1>6. past[s].result = "none"
    BY <1>1, <1>5, NoResult DEF NothingPrepared
  <1>7. Nested \subseteq Files
    BY WorkspaceAssumption
  <1>8. JournalIsTrue(s)'
    BY <1>3, <1>4, <1>5, <1>7 DEF JournalIsTrue, TxnBecomes, NothingPrepared, DirIsBack, Open,
       Kept, Untouched
  <1>9. ResultIsTrue(s)'
    BY <1>4, <1>6 DEF ResultIsTrue
  <1>10. BeginningIsSound(s)'
    BY <1>2, <1>3, <1>5 DEF CallBecomes, TxnBecomes, BeginningIsSound, NothingPrepared, Reached
  <1>11. PublicationIsSound(s)' /\ RollbackIsSound(s)'
    BY <1>2 DEF CallBecomes, PublicationIsSound, RollbackIsSound, Reached
  <1> QED
    BY <1>2, <1>4, <1>8, <1>9, <1>10, <1>11, SavesKept DEF CallBecomes, StoreInv

LEMMA LockStore ==
  ASSUME CallsInv, NEW s \in Stores, StoreInv(s), Lock(s) PROVE StoreInv(s)'
  <1>1. CallBecomes(s, "prepare", call[s].own, call[s].target, call[s].refused)
    BY GotoFacts DEF CallsInv, Lock, Places
  <1>2. UNCHANGED <<file, dir, disk, past, snaps>> /\ Reached(s, "lock")
    BY DEF Lock
  <1>3. BeginningIsSound(s)' /\ PublicationIsSound(s)' /\ RollbackIsSound(s)'
    BY <1>1, <1>2 DEF StoreInv, CallBecomes, BeginningIsSound, NothingPrepared,
       PublicationIsSound, RollbackIsSound, Reached
  <1> QED
    BY <1>1, <1>2, <1>3, SameWorld, SavesKept DEF CallBecomes, StoreInv

(* A step of the preparation.                                               *)
LEMMA PreparingStore ==
  ASSUME CallsInv, NEW s \in Stores, StoreInv(s), UNCHANGED <<past, snaps>>,
         call[s].at \in {"prepare", "made"}, call'[s].at \in {"prepare", "made", "check"},
         disk'[s].kind = disk[s].kind, disk'[s].phase = disk[s].phase,
         JournalIsTrue(s)', BeginningIsSound(s)', PublicationIsSound(s)'
  PROVE  StoreInv(s)'
  <1>1. disk[s].kind = "journaled" /\ disk[s].phase = "preparing"
    BY DEF StoreInv, BeginningIsSound
  <1>2. past[s].result = "none"
    BY <1>1, NoResult DEF CallsInv
  <1>3. ResultIsTrue(s)'
    BY <1>2 DEF ResultIsTrue
  <1>4. RollbackIsSound(s)'
    BY DEF RollbackIsSound, Reached
  <1> QED
    BY <1>3, <1>4, SavesKept DEF StoreInv

LEMMA PlanDirStore ==
  ASSUME CallsInv, NEW s \in Stores, StoreInv(s), PlanDir(s) PROVE StoreInv(s)'
  <1>1. RestoreTypeOK
    BY DEF CallsInv
  <1>2. TxnBecomes(s, disk[s].kind, disk[s].phase, "planned", disk[s].step, disk[s].original)
    BY <1>1, MadeFacts DEF PlanDir
  <1>3. /\ UNCHANGED <<file, dir, call, past, snaps>>
        /\ Reached(s, "prepare")
        /\ dir = "absent"
        /\ disk[s].made = "no"
    BY DEF PlanDir, NeedsDir
  <1>4. disk[s].kind = "journaled" /\ disk[s].phase = "preparing"
    BY <1>3 DEF StoreInv, BeginningIsSound, Reached
  <1>5. JournalIsTrue(s)'
    BY <1>2, <1>3, <1>4 DEF StoreInv, JournalIsTrue, TxnBecomes, Open, Kept, Untouched
  <1>6. BeginningIsSound(s)' /\ PublicationIsSound(s)'
    BY <1>2, <1>3, <1>4 DEF BeginningIsSound, PublicationIsSound, TxnBecomes, Reached
  <1> QED
    BY <1>2, <1>3, <1>5, <1>6, PreparingStore DEF TxnBecomes, Reached

LEMMA MakeDirStore ==
  ASSUME CallsInv, NEW s \in Stores, StoreInv(s), MakeDir(s) PROVE StoreInv(s)'
  <1>1. RestoreTypeOK
    BY DEF CallsInv
  <1>2. UNCHANGED <<file, past, snaps>> /\ Reached(s, "prepare") /\ disk[s].made = "planned"
    BY DEF MakeDir
  <1>3. disk[s].kind = "journaled" /\ disk[s].phase = "preparing"
    BY <1>2 DEF StoreInv, BeginningIsSound, Reached
  <1>4. CASE dir = "absent"
    <2>1. CallBecomes(s, "made", call[s].own, call[s].target, call[s].refused)
      BY <1>1, <1>4, GotoFacts DEF MakeDir, Places
    <2>2. dir' = "own" /\ UNCHANGED disk
      BY <1>4 DEF MakeDir
    <2>3. JournalIsTrue(s)'
      BY <1>2, <1>3, <2>2 DEF StoreInv, JournalIsTrue, Open, Kept, Untouched
    <2>4. BeginningIsSound(s)' /\ PublicationIsSound(s)'
      BY <1>2, <1>3, <2>1, <2>2 DEF BeginningIsSound, PublicationIsSound, CallBecomes, Reached
    <2> QED
      BY <1>2, <2>1, <2>2, <2>3, <2>4, PreparingStore DEF CallBecomes, Reached
  <1>5. CASE dir # "absent"
    <2>1. TxnBecomes(s, disk[s].kind, disk[s].phase, "no", disk[s].step, disk[s].original)
      BY <1>1, <1>5, MadeFacts DEF MakeDir
    <2>2. UNCHANGED <<dir, call>>
      BY <1>5 DEF MakeDir
    <2>3. ~Untouched(s)
      BY <1>2, <1>5 DEF StoreInv, BeginningIsSound
    <2>4. JournalIsTrue(s)'
      BY <1>2, <1>3, <2>1, <2>2, <2>3 DEF StoreInv, JournalIsTrue, TxnBecomes, Open, Kept, Untouched
    <2>5. BeginningIsSound(s)' /\ PublicationIsSound(s)'
      BY <1>2, <1>3, <2>1, <2>2 DEF BeginningIsSound, PublicationIsSound, TxnBecomes, Reached
    <2> QED
      BY <1>2, <2>1, <2>2, <2>4, <2>5, PreparingStore DEF TxnBecomes, Reached
  <1> QED
    BY <1>4, <1>5

LEMMA RecordDirStore ==
  ASSUME CallsInv, NEW s \in Stores, StoreInv(s), RecordDir(s) PROVE StoreInv(s)'
  <1>1. RestoreTypeOK
    BY DEF CallsInv
  <1>2. UNCHANGED <<file, dir, past, snaps>> /\ Reached(s, "made")
    BY DEF RecordDir
  <1>3. TxnBecomes(s, disk[s].kind, disk[s].phase, "created", disk[s].step, disk[s].original)
    BY <1>1, MadeFacts DEF RecordDir
  <1>4. CallBecomes(s, "prepare", call[s].own, call[s].target, call[s].refused)
    BY <1>1, GotoFacts DEF RecordDir, Places
  <1>5. disk[s].kind = "journaled" /\ disk[s].phase = "preparing" /\ disk[s].made = "planned"
    BY <1>2 DEF StoreInv, BeginningIsSound, Reached
  <1>6. JournalIsTrue(s)'
    BY <1>2, <1>3, <1>5 DEF StoreInv, JournalIsTrue, TxnBecomes, Open, Kept, Untouched
  <1>7. BeginningIsSound(s)' /\ PublicationIsSound(s)'
    BY <1>3, <1>4, <1>5 DEF BeginningIsSound, PublicationIsSound, TxnBecomes, CallBecomes, Reached
  <1> QED
    BY <1>2, <1>3, <1>4, <1>6, <1>7, PreparingStore DEF TxnBecomes, CallBecomes, Reached

LEMMA PrepareStore ==
  ASSUME CallsInv, NEW s \in Stores, StoreInv(s), PrepareFile(s) PROVE StoreInv(s)'
  <1>1. RestoreTypeOK
    BY DEF CallsInv
  <1>2. PICK f \in Files :
           /\ disk[s].step[f] = "planned" /\ f = NextToPrepare(s)
           /\ TxnBecomes(s, disk[s].kind, disk[s].phase, disk[s].made,
                [disk[s].step EXCEPT ![f] = "prepared"], [disk[s].original EXCEPT ![f] = file[f]])
           /\ \E p \in {"prepare", "check"} :
                CallBecomes(s, p, call[s].own, call[s].target, call[s].refused)
    BY <1>1, PrepareFacts
  <1>3. /\ UNCHANGED <<file, dir, past, snaps>> /\ Reached(s, "prepare") /\ disk[s].made # "planned"
        /\ f \in Nested => dir # "absent"
    BY <1>2 DEF PrepareFile, NeedsDir
  <1>4. disk[s].kind = "journaled" /\ disk[s].phase = "preparing"
    BY <1>3 DEF StoreInv, BeginningIsSound, Reached
  <1>5. /\ disk'[s].kind = "journaled" /\ disk'[s].phase = "preparing"
        /\ disk'[s].made = disk[s].made
        /\ disk'[s].step[f] = "prepared" /\ disk'[s].original[f] = file[f]
        /\ \A g \in Files \ {f} : /\ disk'[s].step[g] = disk[s].step[g]
                                  /\ disk'[s].original[g] = disk[s].original[g]
    BY <1>1, <1>2, <1>4, TxnTypes DEF TxnBecomes
  <1>6. call'[s].at \in {"prepare", "check"}
    BY <1>2 DEF CallBecomes
  <1>7. JournalIsTrue(s)'
    <2>1. ASSUME NEW g \in Kept(s)'
          PROVE  /\ disk'[s].step[g] # "planned" => disk'[s].original[g] = past'[s].file[g]
                 /\ \/ file'[g] = past'[s].file[g]
                    \/ disk'[s].step[g] = "attempted" /\ file'[g] = Saved
      <3>1. /\ g \in Files
            /\ disk[s].step[g] # "planned" => disk[s].original[g] = past[s].file[g]
            /\ \/ file[g] = past[s].file[g]
               \/ disk[s].step[g] = "attempted" /\ file[g] = Saved
        BY <1>3, <1>4, <2>1 DEF StoreInv, JournalIsTrue, Open, Kept
      <3>2. CASE g = f
        BY <1>2, <1>3, <1>5, <3>1, <3>2
      <3>3. CASE g # f
        BY <1>3, <1>5, <3>1, <3>3
      <3> QED
        BY <3>2, <3>3
    <2>2. Untouched(s)' => IF disk'[s].made = "no" THEN dir' = past'[s].dir
                           ELSE past'[s].dir = "absent"
      BY <1>3, <1>4, <1>5 DEF StoreInv, JournalIsTrue, Open, Untouched
    <2>3. ASSUME NEW g \in Nested, disk'[s].step[g] # "planned" PROVE dir' # "absent"
      <3>1. g \in Files
        BY WorkspaceAssumption
      <3> QED
        BY <1>3, <1>4, <1>5, <2>3, <3>1 DEF StoreInv, JournalIsTrue, Open
    <2> QED
      BY <1>5, <2>1, <2>2, <2>3 DEF JournalIsTrue
  <1>8. BeginningIsSound(s)' /\ PublicationIsSound(s)'
    BY <1>3, <1>5, <1>6 DEF BeginningIsSound, PublicationIsSound, Reached
  <1>9. call[s].at = "prepare"
    BY <1>3 DEF Reached
  <1> QED
    BY <1>3, <1>4, <1>5, <1>6, <1>7, <1>8, <1>9, PreparingStore

LEMMA CheckStore ==
  ASSUME CallsInv, NEW s \in Stores, StoreInv(s), CheckUnchanged(s) PROVE StoreInv(s)'
  <1>1. CallBecomes(s, "publish", call[s].own, call[s].target, call[s].refused)
    BY GotoFacts DEF CallsInv, CheckUnchanged, Places
  <1>2. UNCHANGED <<file, dir, disk, past, snaps>> /\ Reached(s, "check")
    BY DEF CheckUnchanged
  <1>3. BeginningIsSound(s)' /\ PublicationIsSound(s)' /\ RollbackIsSound(s)'
    BY <1>1, <1>2 DEF StoreInv, CallBecomes, BeginningIsSound, PublicationIsSound,
       RollbackIsSound, Reached
  <1> QED
    BY <1>1, <1>2, <1>3, SameWorld, SavesKept DEF CallBecomes, StoreInv

LEMMA AttemptStore ==
  ASSUME CallsInv, NEW s \in Stores, StoreInv(s), Attempt(s) PROVE StoreInv(s)'
  <1>1. RestoreTypeOK
    BY DEF CallsInv
  <1>2. PICK f \in Files :
           /\ disk[s].step[f] = "prepared" /\ Unchanged(s, f)
           /\ TxnBecomes(s, disk[s].kind, "publishing", disk[s].made,
                [disk[s].step EXCEPT ![f] = "attempted"], disk[s].original)
           /\ CallBecomes(s, "replace", call[s].own, f, call[s].refused)
           /\ dir' = IF f \in Nested /\ dir = "absent" THEN "own" ELSE dir
    BY AttemptSteps
  <1>3. UNCHANGED <<file, past, snaps>> /\ Reached(s, "publish")
    BY DEF Attempt
  <1>4. disk[s].kind = "journaled" /\ disk[s].phase \in {"preparing", "publishing"}
    BY <1>3 DEF StoreInv, PublicationIsSound
  <1>5. dir' = dir
    BY <1>2, <1>4 DEF StoreInv, JournalIsTrue, Open
  <1>6. /\ disk'[s].kind = "journaled" /\ disk'[s].phase = "publishing"
        /\ disk'[s].made = disk[s].made
        /\ disk'[s].step[f] = "attempted" /\ disk'[s].original = disk[s].original
        /\ \A g \in Files \ {f} : disk'[s].step[g] = disk[s].step[g]
    BY <1>1, <1>2, <1>4, TxnTypes DEF TxnBecomes
  <1>7. JournalIsTrue(s)'
    <2>1. ASSUME NEW g \in Kept(s)'
          PROVE  /\ disk'[s].step[g] # "planned" => disk'[s].original[g] = past'[s].file[g]
                 /\ \/ file'[g] = past'[s].file[g]
                    \/ disk'[s].step[g] = "attempted" /\ file'[g] = Saved
      <3>1. /\ g \in Files
            /\ disk[s].step[g] # "planned" => disk[s].original[g] = past[s].file[g]
            /\ \/ file[g] = past[s].file[g]
               \/ disk[s].step[g] = "attempted" /\ file[g] = Saved
        BY <1>3, <1>4, <2>1 DEF StoreInv, JournalIsTrue, Open, Kept
      <3>2. CASE g = f
        BY <1>2, <1>3, <1>6, <3>1, <3>2
      <3>3. CASE g # f
        BY <1>3, <1>6, <3>1, <3>3
      <3> QED
        BY <3>2, <3>3
    <2>2. Untouched(s)' => IF disk'[s].made = "no" THEN dir' = past'[s].dir
                           ELSE past'[s].dir = "absent"
      BY <1>3, <1>4, <1>5, <1>6 DEF StoreInv, JournalIsTrue, Open, Untouched
    <2>3. ASSUME NEW g \in Nested, disk'[s].step[g] # "planned" PROVE dir' # "absent"
      <3>1. g \in Files
        BY WorkspaceAssumption
      <3>2. disk[s].step[g] # "planned"
        BY <1>2, <1>6, <2>3, <3>1
      <3> QED
        BY <1>4, <1>5, <3>2 DEF StoreInv, JournalIsTrue, Open
    <2> QED
      BY <1>6, <2>1, <2>2, <2>3 DEF JournalIsTrue
  <1>8. ResultIsTrue(s)'
    BY <1>1, <1>3, <1>4, NoResult DEF ResultIsTrue
  <1>9. BeginningIsSound(s)' /\ RollbackIsSound(s)'
    BY <1>2 DEF CallBecomes, BeginningIsSound, RollbackIsSound, Reached
  <1>10. PublicationIsSound(s)'
    BY <1>2, <1>6 DEF CallBecomes, PublicationIsSound, TargetAttempted, InStep, Reached
  <1> QED
    BY <1>2, <1>3, <1>7, <1>8, <1>9, <1>10, SavesKept DEF CallBecomes, StoreInv

LEMMA ReplaceStore ==
  ASSUME CallsInv, NEW s \in Stores, StoreInv(s), Replace(s) PROVE StoreInv(s)'
  <1>1. RestoreTypeOK
    BY DEF CallsInv
  <1>2. /\ call[s].target \in Files /\ file' = [file EXCEPT ![call[s].target] = Saved]
        /\ call'[s].at \in {"publish", "verify"}
    BY ReplaceSteps DEF CallBecomes
  <1>3. UNCHANGED <<dir, disk, past, snaps>> /\ Reached(s, "replace")
    BY DEF Replace
  <1>4. /\ disk[s].kind = "journaled" /\ disk[s].phase = "publishing"
        /\ disk[s].step[call[s].target] = "attempted"
    BY <1>3 DEF StoreInv, PublicationIsSound, TargetAttempted, InStep, Reached
  <1>5. \A g \in Files : file'[g] = IF g = call[s].target THEN Saved ELSE file[g]
    BY <1>1, <1>2 DEF RestoreTypeOK
  <1>6. JournalIsTrue(s)'
    BY <1>3, <1>4, <1>5 DEF StoreInv, JournalIsTrue, Open, Kept, Untouched
  <1>7. ResultIsTrue(s)'
    BY <1>1, <1>3, <1>4, NoResult DEF ResultIsTrue
  <1>8. BeginningIsSound(s)' /\ PublicationIsSound(s)' /\ RollbackIsSound(s)'
    BY <1>2, <1>3, <1>4 DEF BeginningIsSound, PublicationIsSound, RollbackIsSound, Reached
  <1> QED
    BY <1>2, <1>3, <1>6, <1>7, <1>8, SavesKept DEF StoreInv

LEMMA VerifyStore ==
  ASSUME CallsInv, NEW s \in Stores, StoreInv(s), Verify(s) PROVE StoreInv(s)'
  <1>1. CallBecomes(s, "commit", call[s].own, call[s].target, call[s].refused)
    BY GotoFacts DEF CallsInv, Verify, Places
  <1>2. /\ UNCHANGED <<file, dir, disk, past, snaps>> /\ Reached(s, "verify")
        /\ \A f \in Files : file[f] = Saved
    BY DEF Verify
  <1>3. BeginningIsSound(s)' /\ PublicationIsSound(s)' /\ RollbackIsSound(s)'
    BY <1>1, <1>2 DEF StoreInv, CallBecomes, BeginningIsSound, PublicationIsSound,
       RollbackIsSound, Kept, Reached
  <1> QED
    BY <1>1, <1>2, <1>3, SameWorld, SavesKept DEF CallBecomes, StoreInv

LEMMA CommitStore ==
  ASSUME CallsInv, NEW s \in Stores, StoreInv(s), CommitRestore(s) PROVE StoreInv(s)'
  <1>1. RestoreTypeOK
    BY DEF CallsInv
  <1>2. CallBecomes(s, "remove", call[s].own, call[s].target, call[s].refused)
    BY <1>1, GotoFacts DEF CommitRestore, Places
  <1>3. TxnBecomes(s, disk[s].kind, "committed", disk[s].made, disk[s].step, disk[s].original)
    BY <1>1, PhaseFacts DEF CommitRestore
  <1>4. UNCHANGED <<file, dir, past, snaps>> /\ Reached(s, "commit")
    BY DEF CommitRestore
  <1>5. /\ disk[s].kind = "journaled" /\ disk[s].phase = "publishing"
        /\ \A f \in Kept(s) : file[f] = Saved
    BY <1>4 DEF StoreInv, PublicationIsSound, Reached
  <1>6. JournalIsTrue(s)'
    BY <1>3, <1>4, <1>5 DEF JournalIsTrue, TxnBecomes, Open, Kept
  <1>7. ResultIsTrue(s)'
    BY <1>1, <1>4, <1>5, NoResult DEF ResultIsTrue
  <1>8. BeginningIsSound(s)' /\ PublicationIsSound(s)' /\ RollbackIsSound(s)'
    BY <1>2, <1>3, <1>5 DEF CallBecomes, TxnBecomes, BeginningIsSound, PublicationIsSound,
       RollbackIsSound, Reached
  <1> QED
    BY <1>2, <1>4, <1>6, <1>7, <1>8, SavesKept DEF CallBecomes, StoreInv

LEMMA RollBackStore ==
  ASSUME CallsInv, NEW s \in Stores, StoreInv(s), RollBack(s) PROVE StoreInv(s)'
  <1>1. RestoreTypeOK
    BY DEF CallsInv
  <1>2. CallBecomes(s, "rollback", call[s].own, 0, call[s].refused)
    BY <1>1, TargetFacts DEF RollBack, Places
  <1>3. TxnBecomes(s, disk[s].kind, "rolling_back", disk[s].made, disk[s].step, disk[s].original)
    BY <1>1, PhaseFacts DEF RollBack
  <1>4. UNCHANGED <<file, dir, past, snaps>> /\ call[s].at \in Forward
    BY DEF RollBack, CheckFails, Reached, Forward
  <1>5. Open(s)
    BY <1>4 DEF StoreInv, BeginningIsSound, PublicationIsSound, Open, Forward, Reached
  <1> QED
    BY <1>2, <1>3, <1>4, <1>5, RollingBackStore DEF CallBecomes

----------------------------------------------------------------------------
(* The rollback.                                                            *)
LEMMA UndoNextStore ==
  ASSUME CallsInv, NEW s \in Stores, StoreInv(s), UndoNext(s) PROVE StoreInv(s)'
  <1>1. PICK f \in Files :
           /\ disk[s].step[f] = "attempted"
           /\ \/ CallBecomes(s, "undo", call[s].own, f, call[s].refused)
              \/ CallBecomes(s, "rollback", call[s].own, call[s].target, call[s].refused \cup {f})
    BY UndoNextSteps
  <1>2. UNCHANGED <<file, dir, disk, past, snaps>> /\ Reached(s, "rollback")
    BY DEF UndoNext
  <1>3. BeginningIsSound(s)' /\ PublicationIsSound(s)'
    BY <1>1 DEF CallBecomes, BeginningIsSound, PublicationIsSound, Reached
  <1>4. RollbackIsSound(s)'
    BY <1>1, <1>2 DEF StoreInv, CallBecomes, RollbackIsSound, TargetAttempted, InStep, Reached
  <1>5. call'[s].at # "capture"
    BY <1>1 DEF CallBecomes
  <1> QED
    BY <1>2, <1>3, <1>4, <1>5, SameWorld, SavesKept DEF StoreInv

(* What is still to be undone was not reported as undone.                   *)
LEMMA Unreported ==
  ASSUME NEW s \in Stores, StoreInv(s), RestoreTypeOK, call[s].at \in {"undo", "record"}
  PROVE  /\ past[s].result = "none"
         /\ disk[s].kind = "journaled" /\ disk[s].phase = "rolling_back"
         /\ call[s].target \in Files /\ disk[s].step[call[s].target] = "attempted"
  <1>1. /\ disk[s].kind = "journaled" /\ disk[s].phase = "rolling_back"
        /\ call[s].target \in InStep(s, {"attempted"})
    BY DEF StoreInv, RollbackIsSound, TargetAttempted
  <1>2. past[s].result \in {"none", "restored", "rolled_back"}
    BY DEF RestoreTypeOK
  <1>3. past[s].result = "none"
    BY <1>1, <1>2 DEF StoreInv, ResultIsTrue
  <1> QED
    BY <1>1, <1>3 DEF InStep

LEMMA UndoStore ==
  ASSUME CallsInv, NEW s \in Stores, StoreInv(s), Undo(s) PROVE StoreInv(s)'
  <1>1. RestoreTypeOK /\ Reached(s, "undo")
    BY DEF CallsInv, Undo
  <1>2. CallBecomes(s, "record", call[s].own, call[s].target, call[s].refused)
    BY <1>1, GotoFacts DEF Undo, Places
  <1>3. UNCHANGED <<dir, disk, past, snaps>>
    BY DEF Undo
  <1>4. /\ past[s].result = "none"
        /\ disk[s].kind = "journaled" /\ disk[s].phase = "rolling_back"
        /\ call[s].target \in Files /\ disk[s].step[call[s].target] = "attempted"
    BY <1>1, Unreported DEF Reached
  <1>5. \A g \in Files : file'[g] = IF g = call[s].target THEN disk[s].original[g] ELSE file[g]
    BY <1>1, <1>4 DEF Undo, RestoreTypeOK
  <1>6. call[s].target \in Kept(s) => file'[call[s].target] = past[s].file[call[s].target]
    BY <1>4, <1>5 DEF StoreInv, JournalIsTrue, Open
  <1>7. JournalIsTrue(s)'
    <2>1. ASSUME NEW g \in Kept(s)'
          PROVE  /\ disk'[s].step[g] # "planned" => disk'[s].original[g] = past'[s].file[g]
                 /\ \/ file'[g] = past'[s].file[g]
                    \/ disk'[s].step[g] = "attempted" /\ file'[g] = Saved
      <3>1. /\ g \in Files /\ g \in Kept(s)
            /\ disk[s].step[g] # "planned" => disk[s].original[g] = past[s].file[g]
            /\ \/ file[g] = past[s].file[g]
               \/ disk[s].step[g] = "attempted" /\ file[g] = Saved
        BY <1>3, <1>4, <2>1 DEF StoreInv, JournalIsTrue, Open, Kept
      <3> QED
        BY <1>3, <1>5, <1>6, <3>1
    <2>2. Untouched(s)' => IF disk'[s].made = "no" THEN dir' = past'[s].dir
                           ELSE past'[s].dir = "absent"
      BY <1>3, <1>4 DEF StoreInv, JournalIsTrue, Open, Untouched
    <2> QED
      BY <1>3, <1>4, <2>1, <2>2 DEF JournalIsTrue
  <1>8. ResultIsTrue(s)'
    BY <1>3, <1>4 DEF ResultIsTrue
  <1>9. BeginningIsSound(s)' /\ PublicationIsSound(s)'
    BY <1>2 DEF CallBecomes, BeginningIsSound, PublicationIsSound, Reached
  <1>10. RollbackIsSound(s)'
    BY <1>2, <1>3, <1>4, <1>6 DEF CallBecomes, RollbackIsSound, TargetAttempted, KeptTargetIsBack,
       Kept, InStep, Reached
  <1> QED
    BY <1>2, <1>3, <1>7, <1>8, <1>9, <1>10, SavesKept DEF CallBecomes, StoreInv

LEMMA RecordStore ==
  ASSUME CallsInv, NEW s \in Stores, StoreInv(s), RecordUndone(s) PROVE StoreInv(s)'
  <1>1. RestoreTypeOK /\ Reached(s, "record")
    BY DEF CallsInv, RecordUndone
  <1>2. /\ CallBecomes(s, "rollback", call[s].own, 0, call[s].refused)
        /\ TxnBecomes(s, disk[s].kind, disk[s].phase, disk[s].made,
              [disk[s].step EXCEPT ![call[s].target] = "undone"], disk[s].original)
    BY RecordSteps
  <1>3. UNCHANGED <<file, dir, past, snaps>>
    BY DEF RecordUndone
  <1>4. /\ past[s].result = "none"
        /\ disk[s].kind = "journaled" /\ disk[s].phase = "rolling_back"
        /\ call[s].target \in Files /\ disk[s].step[call[s].target] = "attempted"
    BY <1>1, Unreported DEF Reached
  <1>5. /\ disk'[s].kind = "journaled" /\ disk'[s].phase = "rolling_back"
        /\ disk'[s].made = disk[s].made /\ disk'[s].original = disk[s].original
        /\ \A g \in Files :
             disk'[s].step[g] = IF g = call[s].target THEN "undone" ELSE disk[s].step[g]
    BY <1>1, <1>2, <1>4, TxnTypes DEF TxnBecomes
  <1>6. call[s].target \in Kept(s) => file[call[s].target] = past[s].file[call[s].target]
    BY <1>1 DEF StoreInv, RollbackIsSound, KeptTargetIsBack
  <1>7. JournalIsTrue(s)'
    <2>1. ASSUME NEW g \in Kept(s)'
          PROVE  /\ disk'[s].step[g] # "planned" => disk'[s].original[g] = past'[s].file[g]
                 /\ \/ file'[g] = past'[s].file[g]
                    \/ disk'[s].step[g] = "attempted" /\ file'[g] = Saved
      <3>1. /\ g \in Files /\ g \in Kept(s)
            /\ disk[s].step[g] # "planned" => disk[s].original[g] = past[s].file[g]
            /\ \/ file[g] = past[s].file[g]
               \/ disk[s].step[g] = "attempted" /\ file[g] = Saved
        BY <1>3, <1>4, <2>1 DEF StoreInv, JournalIsTrue, Open, Kept
      <3>2. CASE g = call[s].target
        BY <1>3, <1>4, <1>5, <1>6, <3>1, <3>2
      <3>3. CASE g # call[s].target
        BY <1>3, <1>5, <3>1, <3>3
      <3> QED
        BY <3>2, <3>3
    <2>2. Untouched(s)' => IF disk'[s].made = "no" THEN dir' = past'[s].dir
                           ELSE past'[s].dir = "absent"
      BY <1>3, <1>4, <1>5 DEF StoreInv, JournalIsTrue, Open, Untouched
    <2> QED
      BY <1>5, <2>1, <2>2 DEF JournalIsTrue
  <1>8. ResultIsTrue(s)'
    BY <1>3, <1>4 DEF ResultIsTrue
  <1>9. BeginningIsSound(s)' /\ PublicationIsSound(s)' /\ RollbackIsSound(s)'
    BY <1>2, <1>5 DEF CallBecomes, BeginningIsSound, PublicationIsSound, RollbackIsSound, Reached
  <1> QED
    BY <1>2, <1>3, <1>7, <1>8, <1>9, SavesKept DEF CallBecomes, StoreInv

LEMMA UndoFailsStore ==
  ASSUME CallsInv, NEW s \in Stores, StoreInv(s), UndoFails(s) PROVE StoreInv(s)'
  <1>1. CallBecomes(s, "rollback", call[s].own, 0, call[s].refused \cup {call[s].target})
    BY UndoFailsSteps
  <1>2. UNCHANGED <<file, dir, disk, past, snaps>> /\ call[s].at \in {"undo", "record"}
    BY DEF UndoFails
  <1>3. BeginningIsSound(s)' /\ PublicationIsSound(s)' /\ RollbackIsSound(s)'
    BY <1>1, <1>2 DEF StoreInv, CallBecomes, BeginningIsSound, PublicationIsSound,
       RollbackIsSound, Reached
  <1> QED
    BY <1>1, <1>2, <1>3, SameWorld, SavesKept DEF CallBecomes, StoreInv

LEMMA UndoDirStore ==
  ASSUME CallsInv, NEW s \in Stores, StoreInv(s), UndoDir(s) PROVE StoreInv(s)'
  <1>1. /\ UNCHANGED <<file, disk, past, snaps>> /\ Reached(s, "rollback")
        /\ InStep(s, {"attempted"}) \subseteq call[s].refused
    BY DEF UndoDir, ToUndo
  <1>2. disk[s].kind = "journaled" /\ disk[s].phase = "rolling_back"
    BY <1>1 DEF StoreInv, RollbackIsSound, Reached
  <1>3. Untouched(s) => IF disk[s].made = "no" THEN dir = past[s].dir ELSE past[s].dir = "absent"
    BY <1>2 DEF StoreInv, JournalIsTrue, Open
  <1>4. /\ call'[s].at = "undo_dir" /\ call[s].refused \subseteq call'[s].refused
        /\ dir' = dir \/ (disk[s].made # "no" /\ dir' = "absent")
        /\ 0 \notin call'[s].refused => dir' = IF disk[s].made # "no" THEN "absent" ELSE dir
    <2>1. CASE /\ CallBecomes(s, "undo_dir", call[s].own, call[s].target, call[s].refused \cup {0})
               /\ UNCHANGED dir
      BY <2>1 DEF CallBecomes
    <2>2. CASE /\ CallBecomes(s, "undo_dir", call[s].own, call[s].target, call[s].refused)
               /\ dir' = IF disk[s].made # "no" THEN "absent" ELSE dir
      BY <2>2 DEF CallBecomes
    <2> QED
      BY <2>1, <2>2, UndoDirSteps
  <1>5. /\ Untouched(s) =>
             IF disk[s].made = "no" THEN dir' = past[s].dir ELSE past[s].dir = "absent"
        /\ Untouched(s) /\ 0 \notin call'[s].refused => dir' = past[s].dir
        /\ Untouched(s) /\ dir = past[s].dir => dir' = past[s].dir
    BY <1>3, <1>4
  <1>6. JournalIsTrue(s)'
    BY <1>1, <1>2, <1>5 DEF StoreInv, JournalIsTrue, Open, Kept, Untouched
  <1>7. ResultIsTrue(s)'
    BY <1>1, <1>2, <1>5 DEF StoreInv, ResultIsTrue, Kept, Untouched, InStep
  <1>8. BeginningIsSound(s)' /\ PublicationIsSound(s)'
    BY <1>4 DEF BeginningIsSound, PublicationIsSound, Reached
  <1>9. RollbackIsSound(s)'
    BY <1>1, <1>2, <1>4, <1>5 DEF RollbackIsSound, DirIsBack, Untouched, InStep, Reached
  <1> QED
    BY <1>1, <1>4, <1>6, <1>7, <1>8, <1>9, SavesKept DEF StoreInv

LEMMA RolledBackStore ==
  ASSUME CallsInv, NEW s \in Stores, StoreInv(s), RolledBack(s) PROVE StoreInv(s)'
  <1>1. CallBecomes(s, "remove", call[s].own, call[s].target, call[s].refused)
    BY GotoFacts DEF CallsInv, RolledBack, Places
  <1>2. UNCHANGED <<file, dir, disk, past, snaps>> /\ Reached(s, "undo_dir") /\ call[s].refused = {}
    BY DEF RolledBack
  <1>3. /\ disk[s].kind = "journaled" /\ disk[s].phase = "rolling_back"
        /\ InStep(s, {"attempted"}) = {} /\ DirIsBack(s)
    BY <1>2 DEF StoreInv, RollbackIsSound, Reached
  <1>4. InStep(s, {"attempted"})' = {} /\ DirIsBack(s)'
    BY <1>2, <1>3 DEF InStep, DirIsBack, Untouched
  <1>5. BeginningIsSound(s)' /\ PublicationIsSound(s)' /\ RollbackIsSound(s)'
    BY <1>1, <1>2, <1>3, <1>4 DEF CallBecomes, BeginningIsSound, PublicationIsSound,
       RollbackIsSound, Reached
  <1> QED
    BY <1>1, <1>2, <1>5, SameWorld, SavesKept DEF CallBecomes, StoreInv

(* What the result of a removed transaction says is true.                    *)
LEMMA RemovalFacts ==
  ASSUME NEW s \in Stores, StoreInv(s), Reached(s, "remove")
  PROVE  /\ disk[s].kind = "journaled"
         /\ disk[s].phase = "committed" => \A f \in Kept(s) : file[f] = Saved
         /\ disk[s].phase # "committed" =>
              /\ disk[s].phase = "rolling_back" /\ InStep(s, {"attempted"}) = {}
              /\ \A f \in Kept(s) : file[f] = past[s].file[f]
              /\ Untouched(s) => dir = past[s].dir
  <1>1. /\ disk[s].kind = "journaled"
        /\ disk[s].phase # "committed" =>
             disk[s].phase = "rolling_back" /\ InStep(s, {"attempted"}) = {} /\ DirIsBack(s)
    BY DEF StoreInv, RollbackIsSound
  <1>2. disk[s].phase = "committed" => \A f \in Kept(s) : file[f] = Saved
    BY <1>1 DEF StoreInv, JournalIsTrue
  <1>3. disk[s].phase # "committed" => \A f \in Kept(s) : file[f] = past[s].file[f]
    BY <1>1 DEF StoreInv, JournalIsTrue, Open, Kept, InStep
  <1> QED
    BY <1>1, <1>2, <1>3 DEF DirIsBack

LEMMA RemoveStore ==
  ASSUME CallsInv, NEW s \in Stores, StoreInv(s), Remove(s) PROVE StoreInv(s)'
  <1>1. RestoreTypeOK /\ Reached(s, "remove") /\ UNCHANGED <<file, dir, snaps>>
    BY DEF CallsInv, Remove
  <1>2. disk'[s].kind = "none"
    BY <1>1, DiskFacts, EmptyTxn DEF Remove
  <1>3. /\ past'[s].file = past[s].file /\ past'[s].dir = past[s].dir
        /\ past'[s].edited = past[s].edited
        /\ past'[s].result = IF disk[s].phase = "committed" THEN "restored" ELSE "rolled_back"
    BY <1>1, OutcomeFacts DEF Remove
  <1>4. call'[s].at \in {"idle", "create", "capture"}
    BY RemoveSteps
  <1> QED
    BY <1>1, <1>2, <1>3, <1>4, RemovalFacts, SameSnaps, ClearedStore

LEMMA RemoveStopsStore ==
  ASSUME CallsInv, NEW s \in Stores, StoreInv(s), RemoveStops(s) PROVE StoreInv(s)'
  <1>1. RestoreTypeOK /\ Reached(s, "remove") /\ UNCHANGED <<file, dir, snaps>>
    BY DEF CallsInv, RemoveStops
  <1>2. PICK kind \in {"none", "bare", "journaled", "torn", "wreck"} :
          Journal(s, [disk[s] EXCEPT !.kind = kind])
    BY DEF RemoveStops
  <1>3. TxnBecomes(s, kind, disk[s].phase, disk[s].made, disk[s].step, disk[s].original)
    BY <1>1, <1>2, KindFacts
  <1>4. /\ past'[s].file = past[s].file /\ past'[s].dir = past[s].dir
        /\ past'[s].edited = past[s].edited
        /\ past'[s].result = IF disk[s].phase = "committed" THEN "restored" ELSE "rolled_back"
    BY <1>1, OutcomeFacts DEF RemoveStops
  <1>5. End(s) \/ Blocked(s)
    BY DEF RemoveStops
  <1>6. /\ call'[s].at \in {"idle", "capture"}
        /\ call'[s].at = "capture" => call'[s].op = "salvage"
    BY <1>1, <1>5, EndFacts
  <1>7. JournalIsTrue(s)'
    BY <1>1, <1>3, <1>4, RemovalFacts DEF StoreInv, JournalIsTrue, TxnBecomes, Open, Kept, Untouched
  <1>8. ResultIsTrue(s)'
    BY <1>1, <1>3, <1>4, RemovalFacts DEF ResultIsTrue, TxnBecomes, Kept, Untouched, InStep
  <1>9. BeginningIsSound(s)' /\ PublicationIsSound(s)' /\ RollbackIsSound(s)'
    BY <1>6 DEF BeginningIsSound, PublicationIsSound, RollbackIsSound, Reached
  <1>10. SavesAreSound(s)'
    BY <1>1, <1>6, SameSnaps DEF SavesAreSound, SnapsAreWhole, Reached
  <1> QED
    BY <1>7, <1>8, <1>9, <1>10 DEF StoreInv

----------------------------------------------------------------------------
(* One store serves the workspace, as when --dir is never used.  With two, a *)
(* second one may undo its own orphan while the first restores, or take a    *)
(* snapshot of what the first has left half-way.                             *)
OneStore == \A s, t \in Stores : s = t

(* Saving and rotating.                                                     *)
LEMMA CaptureStore ==
  ASSUME OneStore, CallsInv, NEW s \in Stores, StoreInv(s),
         NEW status \in {"complete", "partial"}, Capture(s, status)
  PROVE  StoreInv(s)'
  <1> DEFINE new == Captured(s, status)
             q == snaps[s]
  <1>1. RestoreTypeOK
    BY DEF CallsInv
  <1>2. /\ new \in Snapshots /\ snaps' = [snaps EXCEPT ![s] = Append(q, new)]
        /\ call'[s].at \in {"idle", "prune"}
    BY CaptureSteps
  <1>3. UNCHANGED <<file, dir, disk, past>> /\ Reached(s, "capture")
    BY DEF Capture
  <1>4. Standard(new) => ~new.half
    <2>1. call[s].op = "salvage" \/ disk[s].kind = "none"
      BY <1>3 DEF StoreInv, SavesAreSound
    <2>2. Standard(new) => call[s].op # "salvage"
      BY DEF Standard, Captured
    <2>3. disk[s].kind = "none" => ~\E t \in Stores : HalfRestored(t)
      BY DEF OneStore, HalfRestored
    <2> QED
      BY <2>1, <2>2, <2>3 DEF Captured
  <1> HIDE DEF new
  <1>5. q \in Seq(Snapshots) /\ Len(q) \in Nat /\ DOMAIN q = 1 .. Len(q)
    BY <1>1, SnapsFacts
  <1>6. /\ snaps'[s] = Append(q, new)
        /\ snaps'[s] \in Seq(Snapshots) /\ Len(snaps'[s]) = Len(q) + 1
        /\ \A i \in 1 .. Len(q) : snaps'[s][i] = q[i]
        /\ snaps'[s][Len(q) + 1] = new
    <2>1. snaps'[s] = Append(q, new)
      BY <1>1, <1>2 DEF RestoreTypeOK
    <2> QED
      BY <1>2, <1>5, <2>1, AppendProperties
  <1>7. DOMAIN snaps'[s] = 1 .. Len(q) + 1
    BY <1>6, LenProperties
  <1>8. SnapsAreWhole(s)'
    <2>1. PICK i \in DOMAIN q : Standard(q[i])
      BY DEF StoreInv, SavesAreSound
    <2>2. i \in DOMAIN snaps'[s] /\ Standard(snaps'[s][i])
      BY <1>5, <1>6, <1>7, <2>1
    <2>3. ASSUME NEW j \in DOMAIN snaps'[s], Standard(snaps'[s][j]) PROVE ~snaps'[s][j].half
      <3>1. j \in 1 .. Len(q) \/ j = Len(q) + 1
        BY <1>5, <1>7
      <3> QED
        BY <1>4, <1>5, <1>6, <2>3, <3>1 DEF StoreInv, SavesAreSound
    <2> QED
      BY <2>2, <2>3 DEF SnapsAreWhole, Standard, Complete
  <1> QED
    BY <1>2, <1>3, <1>8, QuietStore

LEMMA RotateStore ==
  ASSUME CallsInv, NEW s \in Stores, StoreInv(s), Rotate(s) PROVE StoreInv(s)'
  <1> DEFINE q == snaps[s]
             w == snaps'[s]
  <1>1. RestoreTypeOK /\ Cardinality(Rotatable(s)) > 1
    BY DEF CallsInv, Rotate
  <1>2. PICK old \in DOMAIN q :
           /\ old = First(Rotatable(s)) /\ snaps' \in [Stores -> Seq(Snapshots)]
           /\ \/ /\ UNCHANGED <<lock, autosave, call, errors>>
                 /\ w = SubSeq(q, 1, old - 1) \o SubSeq(q, old + 1, Len(q))
              \/ /\ End(s) /\ Len(w) = Len(q) /\ w[old].status = "corrupt"
                 /\ \A i \in DOMAIN q \ {old} : w[i] = q[i]
    BY RotateSteps
  <1>3. PICK kept \in Rotatable(s) : kept # old
    BY <1>1, <1>2, RotateFacts
  <1>4. UNCHANGED <<file, dir, disk, past>> /\ call[s].at = "prune"
    BY DEF Rotate, Reached
  <1>5. /\ q \in Seq(Snapshots) /\ Len(q) \in Nat /\ DOMAIN q = 1 .. Len(q)
        /\ w \in Seq(Snapshots) /\ DOMAIN w = 1 .. Len(w)
        /\ kept \in DOMAIN q /\ Standard(q[kept])
    BY <1>1, <1>2, <1>3, SnapsFacts, LenProperties DEF Rotatable
  <1>6. \A i \in DOMAIN q : Standard(q[i]) => ~q[i].half
    BY DEF StoreInv, SavesAreSound
  <1>7. CASE /\ UNCHANGED <<lock, autosave, call, errors>>
             /\ w = SubSeq(q, 1, old - 1) \o SubSeq(q, old + 1, Len(q))
    <2>1. /\ Len(w) = Len(q) - 1
          /\ \A j \in 1 .. Len(q) - 1 : w[j] = IF j < old THEN q[j] ELSE q[j + 1]
      <3> DEFINE v == SubSeq(q, 1, old - 1) \o SubSeq(q, old + 1, Len(q))
      <3>1. old \in 1 .. Len(q)
        BY <1>5
      <3>2. /\ Len(v) = Len(q) - 1
            /\ \A j \in 1 .. Len(q) - 1 : v[j] = IF j < old THEN q[j] ELSE q[j + 1]
        BY <1>5, <3>1, Without
      <3>3. w = v
        BY <1>7
      <3> HIDE DEF v, w
      <3> QED
        BY <3>2, <3>3
    <2> HIDE DEF w
    <2>2. \E j \in DOMAIN w : Standard(w[j])
      <3>1. CASE kept < old
        <4>1. kept \in 1 .. Len(q) - 1
          BY <1>5, <3>1
        <4> QED
          BY <1>5, <2>1, <3>1, <4>1
      <3>2. CASE ~(kept < old)
        <4>1. kept - 1 \in 1 .. Len(q) - 1 /\ ~(kept - 1 < old) /\ kept - 1 + 1 = kept
          BY <1>3, <1>5, <3>2
        <4>2. w[kept - 1] = q[kept]
          BY <2>1, <4>1
        <4> QED
          BY <1>5, <2>1, <4>1, <4>2
      <3> QED
        BY <3>1, <3>2
    <2>3. ASSUME NEW j \in DOMAIN w, Standard(w[j]) PROVE ~w[j].half
      <3>1. j \in 1 .. Len(q) - 1
        BY <1>5, <2>1
      <3>2. PICK i \in DOMAIN q : w[j] = q[i]
        <4>1. j \in DOMAIN q /\ j + 1 \in DOMAIN q
          BY <1>5, <3>1
        <4> QED
          BY <2>1, <3>1, <4>1
      <3> QED
        BY <1>6, <2>3, <3>2
    <2>4. SnapsAreWhole(s)'
      BY <2>2, <2>3 DEF SnapsAreWhole, Standard, Complete, w
    <2> QED
      BY <1>4, <1>7, <2>4, QuietStore
  <1>8. CASE /\ End(s) /\ Len(w) = Len(q) /\ w[old].status = "corrupt"
             /\ \A i \in DOMAIN q \ {old} : w[i] = q[i]
    <2> HIDE DEF w
    <2>1. DOMAIN w = DOMAIN q
      BY <1>5, <1>8
    <2>2. w[kept] = q[kept]
      BY <1>3, <1>5, <1>8
    <2>3. ASSUME NEW j \in DOMAIN w, Standard(w[j]) PROVE ~w[j].half
      <3>1. j # old
        BY <1>8, <2>3 DEF Standard, Complete
      <3> QED
        BY <1>6, <1>8, <2>1, <2>3, <3>1
    <2>4. SnapsAreWhole(s)'
      BY <1>5, <2>1, <2>2, <2>3 DEF SnapsAreWhole, Standard, Complete, w
    <2> QED
      BY <1>4, <1>8, <2>4, EndStore
  <1> QED
    BY <1>2, <1>7, <1>8

----------------------------------------------------------------------------
(* The others: what they change counts as edited.                           *)
LEMMA EditedStore ==
  ASSUME CallsInv, NEW s \in Stores, StoreInv(s), NEW x \in Files \cup {0},
         past' = [t \in Stores |-> [past[t] EXCEPT !.edited = @ \cup {x}]],
         UNCHANGED <<disk, snaps, call>>,
         \A g \in Files \ {x} : file'[g] = file[g],
         dir' = dir \/ (dir' # "absent" /\ x \in Nested \cup {0})
  PROVE  StoreInv(s)'
  <1>1. RestoreTypeOK
    BY DEF CallsInv
  <1>2. /\ past'[s].file = past[s].file /\ past'[s].dir = past[s].dir
        /\ past'[s].edited = past[s].edited \cup {x} /\ past'[s].result = past[s].result
    BY <1>1, EditedFacts
  <1>3. /\ \A g \in Kept(s)' : g \in Kept(s) /\ file'[g] = file[g]
        /\ Untouched(s)' => Untouched(s) /\ dir' = dir
        /\ dir # "absent" => dir' # "absent"
    BY <1>2 DEF Kept, Untouched
  <1>4. JournalIsTrue(s)'
    BY <1>2, <1>3 DEF StoreInv, JournalIsTrue, Open
  <1>5. ResultIsTrue(s)'
    BY <1>2, <1>3 DEF StoreInv, ResultIsTrue, InStep
  <1>6. BeginningIsSound(s)'
    BY <1>2, <1>3 DEF StoreInv, BeginningIsSound, NothingPrepared, DirIsBack, Reached
  <1>7. PublicationIsSound(s)'
    BY <1>2, <1>3 DEF StoreInv, PublicationIsSound, TargetAttempted, InStep, Reached
  <1>8. RollbackIsSound(s)'
    BY <1>2, <1>3 DEF StoreInv, RollbackIsSound, TargetAttempted, KeptTargetIsBack, DirIsBack,
       InStep, Reached
  <1>9. SavesAreSound(s)'
    BY DEF StoreInv, SavesAreSound, Standard, Complete, Reached
  <1> QED
    BY <1>4, <1>5, <1>6, <1>7, <1>8, <1>9 DEF StoreInv

LEMMA SameStore ==
  ASSUME NEW s \in Stores, StoreInv(s), UNCHANGED <<file, dir, disk, snaps, call, past>>
  PROVE  StoreInv(s)'
  <1>1. BeginningIsSound(s)' /\ PublicationIsSound(s)' /\ RollbackIsSound(s)'
    BY DEF StoreInv, BeginningIsSound, PublicationIsSound, RollbackIsSound, NothingPrepared,
       DirIsBack,
       TargetAttempted, KeptTargetIsBack, Untouched, Kept, InStep, Reached
  <1>2. SavesAreSound(s)'
    BY DEF StoreInv, SavesAreSound, Standard, Complete, Reached
  <1> QED
    BY <1>1, <1>2, SameWorld DEF StoreInv

(* The state locks and their directory are no part of what a store knows.    *)
LEMMA LockingStore ==
  ASSUME NEW s \in Stores, StoreInv(s), MakeGoals(s) \/ AcquireStateLock(s) PROVE StoreInv(s)'
  BY SameStore DEF MakeGoals, AcquireStateLock

LEMMA OthersStore ==
  ASSUME CallsInv, NEW s \in Stores, StoreInv(s), Others PROVE StoreInv(s)'
  <1>1. file \in [Files -> Contents] /\ Managed \subseteq Files
    BY WorkspaceAssumption DEF CallsInv, RestoreTypeOK
  <1>2. ASSUME NEW f \in Files, Edit(f) PROVE StoreInv(s)'
    <2>1. \A g \in Files \ {f} : file'[g] = file[g]
      BY <1>1, <1>2 DEF Edit
    <2>2. dir' = dir \/ (dir' # "absent" /\ f \in Nested \cup {0})
      BY <1>2 DEF Edit
    <2> QED
      BY <1>2, <2>1, <2>2, EditedStore DEF Edit, Edited
  <1>3. CASE Share
    BY <1>3, EditedStore DEF Share
  <1>4. ASSUME NEW f \in Managed, WriterWrites(f) PROVE StoreInv(s)'
    <2>1. f \in Files /\ \A g \in Files \ {f} : file'[g] = file[g]
      BY <1>1, <1>4 DEF WriterWrites
    <2> QED
      BY <1>4, <2>1, EditedStore DEF WriterWrites, Edited
  <1>5. ASSUME NEW f \in Managed, WriterLocks(f) \/ WriterLeaves(f) PROVE StoreInv(s)'
    BY <1>5, SameStore DEF WriterLocks, WriterLeaves
  <1> QED
    BY <1>2, <1>3, <1>4, <1>5 DEF Others

----------------------------------------------------------------------------
(* One store.                                                               *)
StoresInv == CallsInv /\ \A s \in Stores : StoreInv(s)

LEMMA InitStores == RestoreInit => StoresInv
  <1> SUFFICES ASSUME RestoreInit PROVE StoresInv
    OBVIOUS
  <1>1. ASSUME NEW s \in Stores PROVE StoreInv(s)
    <2>1. call[s].at = "idle" /\ disk[s].kind = "none" /\ past[s].result = "none"
      BY EmptyTxn DEF RestoreInit, NoCall
    <2>2. SavesAreSound(s)
      <3> DEFINE new == [status |-> "complete", purpose |-> "standard", half |-> FALSE]
      <3>1. Standard(new) /\ ~new.half
        BY DEF Standard, Complete
      <3>2. snaps[s] = <<new>>
        BY DEF RestoreInit
      <3> HIDE DEF new
      <3>3. DOMAIN snaps[s] = {1} /\ snaps[s][1] = new
        BY <3>2
      <3> QED
        BY <2>1, <3>1, <3>3 DEF SavesAreSound, Reached
    <2>3. JournalIsTrue(s) /\ ResultIsTrue(s)
      BY <2>1 DEF JournalIsTrue, ResultIsTrue, Open
    <2>4. BeginningIsSound(s) /\ PublicationIsSound(s) /\ RollbackIsSound(s)
      BY <2>1 DEF BeginningIsSound, PublicationIsSound, RollbackIsSound, Reached
    <2> QED
      BY <2>2, <2>3, <2>4 DEF StoreInv
  <1> QED
    BY <1>1, InitCalls DEF StoresInv

LEMMA CallStore ==
  ASSUME OneStore, CallsInv, NEW s \in Stores, StoreInv(s), Call(s) PROVE StoreInv(s)'
  <1>1. CASE Recovery(s)
    BY <1>1, NoOrphanStore, ReapBareStore, SkipCommittedStore, LockingStore, RecoverOrphanStore,
       EndsStore DEF Recovery
  <1>2. CASE RestoreStep(s)
    BY <1>2, CreateStore, WriteJournalStore, LockStore, PlanDirStore, MakeDirStore, RecordDirStore,
       PrepareStore, CheckStore, AttemptStore, ReplaceStore, VerifyStore, CommitStore
     DEF RestoreStep
  <1>3. CASE RollbackStep(s)
    BY <1>3, UndoNextStore, UndoStore, RecordStore, UndoDirStore, RolledBackStore, EndsStore,
       RemoveStore DEF RollbackStep
  <1>4. CASE SaveStep(s)
    BY <1>4, CaptureStore, RotateStore, EndsStore DEF SaveStep
  <1>5. CASE Errors(s)
    BY <1>5, RollBackStore, UndoFailsStore, RemoveStopsStore, EndsStore DEF Errors
  <1> QED
    BY <1>1, <1>2, <1>3, <1>4, <1>5 DEF Call

LEMMA NextStores ==
  ASSUME OneStore PROVE StoresInv /\ [RestoreNext]_restoreVars => StoresInv'
  <1> SUFFICES ASSUME StoresInv, [RestoreNext]_restoreVars PROVE StoresInv'
    OBVIOUS
  <1>1. CallsInv /\ CallsInv'
    BY NextCalls DEF StoresInv
  <1>2. ASSUME NEW s \in Stores PROVE StoreInv(s)'
    <2>1. StoreInv(s)
      BY DEF StoresInv
    <2>2. CASE UNCHANGED restoreVars
      BY <2>1, <2>2, SameStore DEF restoreVars
    <2>3. CASE Others
      BY <1>1, <2>1, <2>3, OthersStore
    <2>4. ASSUME NEW t \in Stores, \/ BeginRestore(t) \/ Call(t)
                                   \/ \E op \in Operations \ {"restore"} : BeginOther(t, op)
          PROVE  StoreInv(s)'
      <3>1. t = s
        BY DEF OneStore
      <3> QED
        BY <1>1, <2>1, <2>4, <3>1, BeginStore, CallStore
    <2> QED
      BY <2>2, <2>3, <2>4 DEF RestoreNext
  <1> QED
    BY <1>1, <1>2 DEF StoresInv

(* What the locks of the state files leave behind, for any number of stores: *)
(* without goals/ no restore has come as far as its locks, and none ended.   *)
GoalsAreMade ==
    goals = "absent" => \A s \in Stores : /\ call[s].at \notin Locked \cup {"remove"}
                                          /\ disk[s].phase = "preparing"
                                          /\ past[s].result = "none"

LEMMA GoalsStay == goals = "made" /\ [RestoreNext]_restoreVars => goals' = "made"
  <1> SUFFICES ASSUME goals = "made", [RestoreNext]_restoreVars PROVE goals' = "made"
    OBVIOUS
  <1>1. ASSUME NEW s \in Stores, Recovery(s) PROVE goals' = "made"
    BY <1>1 DEF Recovery, NoOrphan, ReapBare, RefuseOrphan, SkipCommitted, MakeGoals,
       AcquireStateLock, RecoverOrphan, LocksTimeOut
  <1>2. ASSUME NEW s \in Stores, RestoreStep(s) PROVE goals' = "made"
    BY <1>2 DEF RestoreStep, Create, WriteJournal, Lock, PlanDir, MakeDir, RecordDir, PrepareFile,
       CheckUnchanged, Attempt, Replace, Verify, CommitRestore
  <1>3. ASSUME NEW s \in Stores, RollbackStep(s) PROVE goals' = "made"
    BY <1>3 DEF RollbackStep, UndoNext, Undo, RecordUndone, UndoDir, RolledBack,
       RollbackIncomplete, Remove
  <1>4. ASSUME NEW s \in Stores, SaveStep(s) PROVE goals' = "made"
    BY <1>4 DEF SaveStep, Capture, Rotate, RotateDone
  <1>5. ASSUME NEW s \in Stores, Errors(s) PROVE goals' = "made"
    BY <1>5 DEF Errors, RollBack, UndoFails, RemoveStops, GiveUp, Die
  <1>6. ASSUME NEW s \in Stores, Call(s) PROVE goals' = "made"
    BY <1>1, <1>2, <1>3, <1>4, <1>5, <1>6 DEF Call
  <1>7. ASSUME NEW s \in Stores, BeginRestore(s) \/ \E op \in Operations : BeginOther(s, op)
        PROVE  goals' = "made"
    BY <1>7 DEF BeginRestore, BeginOther
  <1>8. ASSUME Others PROVE goals' = "made"
    BY <1>8 DEF Others, Edit, Share, WriterLocks, WriterWrites, WriterLeaves
  <1>9. CASE UNCHANGED restoreVars
    BY <1>9 DEF restoreVars
  <1> QED
    BY <1>6, <1>7, <1>8, <1>9 DEF RestoreNext

(* A call that ends or goes on before its locks has done nothing to hide.    *)
LEMMA EarlyStep ==
  ASSUME GoalsAreMade, goals = "absent", NEW s \in Stores,
         \A t \in Stores \ {s} : call'[t] = call[t] /\ disk'[t] = disk[t],
         call'[s].at \notin Locked \cup {"remove"}, disk'[s].phase = "preparing",
         \A t \in Stores : past'[t].result = past[t].result
  PROVE  GoalsAreMade'
  BY DEF GoalsAreMade

LEMMA EarlyRecovery ==
  ASSUME CallsInv, GoalsAreMade, goals = "absent", goals' = "absent", NEW s \in Stores, Recovery(s)
  PROVE  GoalsAreMade'
  <1>1. RestoreTypeOK /\ disk[s].phase = "preparing"
    BY DEF CallsInv, GoalsAreMade
  <1>2. CASE NoOrphan(s) \/ ReapBare(s)
    <2>1. /\ call'[s].at \in {"create", "capture"}
          /\ \A t \in Stores \ {s} : call'[t] = call[t]
      BY <1>1, <1>2, ProceedFacts DEF NoOrphan, ReapBare, CallBecomes
    <2>2. /\ disk'[s].phase = "preparing" /\ UNCHANGED past
          /\ \A t \in Stores \ {s} : disk'[t] = disk[t]
      BY <1>1, <1>2, DiskFacts, EmptyTxn DEF NoOrphan, ReapBare
    <2> QED
      BY <2>1, <2>2, EarlyStep DEF Locked, Forward
  <1>3. CASE RefuseOrphan(s)
    <2>1. /\ call'[s].at \in {"idle", "capture"} /\ UNCHANGED <<disk, past>>
          /\ \A t \in Stores \ {s} : call'[t] = call[t]
      BY <1>1, <1>3, EndFacts DEF RefuseOrphan
    <2> QED
      BY <1>1, <2>1, EarlyStep DEF Locked, Forward
  <1>4. /\ ~SkipCommitted(s) /\ ~MakeGoals(s) /\ ~AcquireStateLock(s)
        /\ ~RecoverOrphan(s) /\ ~LocksTimeOut(s)
    BY <1>1 DEF SkipCommitted, MakeGoals, AcquireStateLock, RecoverOrphan, LocksTimeOut, LocksHeld
  <1> QED
    BY <1>2, <1>3, <1>4 DEF Recovery

LEMMA EarlyRestore ==
  ASSUME CallsInv, GoalsAreMade, goals = "absent", NEW s \in Stores,
         RestoreStep(s) \/ RollbackStep(s)
  PROVE  GoalsAreMade'
  <1>1. /\ RestoreTypeOK /\ disk[s].phase = "preparing"
        /\ call[s].at \notin Locked \cup {"remove"}
    BY DEF CallsInv, GoalsAreMade
  <1>2. CASE Create(s)
    <2>1. CallBecomes(s, "journal", TRUE, call[s].target, call[s].refused)
      BY <1>1, <1>2, OwnFacts DEF Create, Places
    <2>2. disk'[s].phase = "preparing" /\ \A t \in Stores \ {s} : disk'[t] = disk[t]
      BY <1>1, <1>2, DiskFacts, EmptyTxn DEF Create
    <2>3. \A t \in Stores : past'[t].result = past[t].result
      BY <1>1, <1>2 DEF Create, RestoreTypeOK, GoalsAreMade
    <2> QED
      BY <2>1, <2>2, <2>3, EarlyStep DEF CallBecomes, Locked, Forward
  <1>3. CASE WriteJournal(s)
    <2>1. CallBecomes(s, "lock", call[s].own, call[s].target, call[s].refused)
      BY <1>1, <1>3, GotoFacts DEF WriteJournal, Places
    <2>2. TxnBecomes(s, "journaled", disk[s].phase, disk[s].made, disk[s].step, disk[s].original)
      BY <1>1, <1>3, KindFacts DEF WriteJournal
    <2> QED
      BY <1>1, <1>3, <2>1, <2>2, EarlyStep
         DEF WriteJournal, CallBecomes, TxnBecomes, Locked, Forward
  <1>4. RestoreStep(s) => Create(s) \/ WriteJournal(s)
    BY <1>1 DEF RestoreStep, Lock, LocksHeld, PlanDir, MakeDir, RecordDir, PrepareFile,
       CheckUnchanged, Attempt, Replace, Verify, CommitRestore, Reached, Locked, Forward
  <1>5. ~RollbackStep(s)
    BY <1>1 DEF RollbackStep, UndoNext, Undo, RecordUndone, UndoDir, RolledBack,
       RollbackIncomplete, Remove, Reached, Locked
  <1> QED
    BY <1>2, <1>3, <1>4, <1>5

LEMMA EarlySave ==
  ASSUME CallsInv, GoalsAreMade, goals = "absent", NEW s \in Stores, SaveStep(s) \/ Errors(s)
  PROVE  GoalsAreMade'
  <1>1. /\ RestoreTypeOK /\ disk[s].phase = "preparing"
        /\ call[s].at \notin Locked \cup {"remove"}
    BY DEF CallsInv, GoalsAreMade
  <1>2. ~RollBack(s) /\ ~UndoFails(s) /\ ~RemoveStops(s)
    BY <1>1 DEF RollBack, CheckFails, UndoFails, RemoveStops, Reached, Locked, Forward
  <1>3. UNCHANGED <<disk, past>>
    BY <1>2 DEF SaveStep, Errors, Capture, Rotate, RotateDone, GiveUp, Die
  <1>4. CASE End(s)
    BY <1>1, <1>3, <1>4, EndFacts, CallEnds, EarlyStep DEF End, Locked, Forward
  <1>5. CASE \E status \in {"complete", "partial"} : Capture(s, status)
    BY <1>1, <1>3, <1>5, CaptureSteps, EarlyStep DEF Locked, Forward
  <1>6. CASE Rotate(s)
    BY <1>1, <1>3, <1>4, <1>6, EarlyStep DEF Rotate
  <1> QED
    BY <1>2, <1>4, <1>5, <1>6 DEF SaveStep, Errors, RotateDone, GiveUp, Die

LEMMA EarlyOthers ==
  ASSUME CallsInv, GoalsAreMade, goals = "absent", Others \/ UNCHANGED restoreVars
  PROVE  GoalsAreMade'
  <1>1. UNCHANGED <<call, disk>>
    BY DEF Others, Edit, Share, WriterLocks, WriterWrites, WriterLeaves, restoreVars
  <1>2. RestoreTypeOK /\ Managed \subseteq Files
    BY WorkspaceAssumption DEF CallsInv
  <1>3. \A t \in Stores : past'[t].result = past[t].result
    <2>1. CASE \E x \in Files \cup {0} :
                 past' = [t \in Stores |-> [past[t] EXCEPT !.edited = @ \cup {x}]]
      BY <1>2, <2>1, EditedFacts
    <2>2. CASE UNCHANGED past
      BY <2>2
    <2> QED
      BY <1>2, <2>1, <2>2
         DEF Others, Edit, Edited, Share, WriterLocks, WriterWrites, WriterLeaves, restoreVars
  <1> QED
    BY <1>1, <1>3 DEF GoalsAreMade

THEOREM GoalsInvariance == RestoreSpec => [](CallsInv /\ GoalsAreMade)
  <1>1. RestoreInit => GoalsAreMade
    BY EmptyTxn DEF RestoreInit, GoalsAreMade, NoCall, Locked, Forward
  <1>2. CallsInv /\ GoalsAreMade /\ [RestoreNext]_restoreVars => GoalsAreMade'
    <2> SUFFICES ASSUME CallsInv, GoalsAreMade, [RestoreNext]_restoreVars, goals' = "absent"
                 PROVE  GoalsAreMade'
      BY DEF GoalsAreMade
    <2>1. goals = "absent"
      BY GoalsStay DEF CallsInv, RestoreTypeOK
    <2>2. ASSUME NEW s \in Stores, BeginRestore(s) \/ \E op \in Operations : BeginOther(s, op)
          PROVE  GoalsAreMade'
      <3>1. call \in [Stores -> Calls] /\ disk[s].phase = "preparing"
        BY <2>1 DEF CallsInv, RestoreTypeOK, GoalsAreMade
      <3>2. /\ call'[s].at \in {"recover", "prune"} /\ UNCHANGED <<disk, past>>
            /\ \A t \in Stores \ {s} : call'[t] = call[t]
        BY <2>2, <3>1 DEF BeginRestore, BeginOther, NoCall
      <3> QED
        BY <2>1, <3>1, <3>2, EarlyStep DEF Locked, Forward
    <2>3. ASSUME NEW s \in Stores, Call(s) PROVE GoalsAreMade'
      BY <2>1, <2>3, EarlyRecovery, EarlyRestore, EarlySave DEF Call
    <2>4. CASE Others \/ UNCHANGED restoreVars
      BY <2>1, <2>4, EarlyOthers
    <2> QED
      BY <2>2, <2>3, <2>4 DEF RestoreNext
  <1> QED
    BY <1>1, <1>2, CallsInvariance, PTL DEF RestoreSpec

(* One store: its journal is true of the workspace, and every place of a     *)
(* restore, a rollback, a recovery and a save has established what the next  *)
(* step relies on, whatever users and writers change in between.             *)
THEOREM StoresInvariance ==
  ASSUME OneStore PROVE RestoreSpec => []StoresInv
  <1>1. RestoreInit => StoresInv
    BY InitStores
  <1>2. StoresInv /\ [RestoreNext]_restoreVars => StoresInv'
    BY NextStores
  <1> QED
    BY <1>1, <1>2, PTL DEF RestoreSpec

(* A restore that ended, by itself or by a later caller's recovery after any *)
(* deaths and errors, has restored or undone every file that nobody else     *)
(* changed meanwhile, an undone one has removed the ordinary directory it    *)
(* made, and goals/, which the locks need, is there after either.            *)
THEOREM RestoreSafe ==
  ASSUME OneStore PROVE RestoreSpec => []RestoredOrUndone
  <1>1. StoresInv /\ GoalsAreMade => RestoredOrUndone
    BY DEF StoresInv, StoreInv, CallsInv, RestoreTypeOK, GoalsAreMade, ResultIsTrue,
       RestoredOrUndone, Kept, Untouched
  <1> QED
    BY <1>1, StoresInvariance, GoalsInvariance, PTL

(* Rotation, failed saves and half-deleted snapshots never take the last     *)
(* complete standard snapshot, and a saver first clears what a dead restore  *)
(* left, so that no standard snapshot is of a half-restored workspace.       *)
THEOREM RecoveryPointsSafe ==
  ASSUME OneStore PROVE RestoreSpec => []RecoveryPointsAreWhole
  <1>1. StoresInv => RecoveryPointsAreWhole
    BY DEF StoresInv, StoreInv, SavesAreSound, RecoveryPointsAreWhole
  <1> QED
    BY <1>1, StoresInvariance, PTL
=============================================================================
