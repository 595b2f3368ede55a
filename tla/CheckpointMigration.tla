------------------------ MODULE CheckpointMigration ------------------------
(* The move of a workspace's checkpoint rows from its local vault into the  *)
(* global store and back (crates/codex-global-execution/src/                 *)
(* global_execution/enrollment.rs), with the saves that go on meanwhile: by  *)
(* the unmarked runtime into the vault, by the marked one through the worker *)
(* (application_state.rs, client.rs).                                        *)
(*                                                                          *)
(* Each command is a sequence of single durable writes and may end after any *)
(* of them, by death or by an error; the next call starts from the files.    *)
(* Rows are sets of saves.  A database is the object it is and the rows it   *)
(* has, so equal bytes are equal records.  The runtime itself is not part of *)
(* this repository: it serves the vault while neither marker is there, and   *)
(* the store under the final marker.                                         *)
EXTENDS FiniteSets, Naturals

CONSTANTS
    Migrations,   \* transaction ids
    Saves,        \* checkpoints, each saved once, by whichever route is open
    None,
    MaxFaults     \* bound: commands that die or stop on an error

ASSUME ConstantsAssumption ==
    /\ None \notin Migrations \cup Saves
    /\ MaxFaults \in Nat

Databases == [object : {None} \cup Migrations, rows : SUBSET Saves]
Markers == [kind : {"preparing", "final"}, of : Migrations]
Original == [object |-> None, rows |-> {}]      \* the vault before any migration

(* A file that is there is something.                                       *)
ASSUME NoneAssumption == None \notin Databases \cup Markers

VARIABLES
    \* the workspace's .agent-checkpoints
    vault,       \* status.sqlite3, or None
    displaced,   \* rollback-original-<t>: the vault a rollback moved aside, or None
    marker,      \* global-state.json: [kind, of], or None
    transition,  \* global-state-transition.json: the migration it names, or None
    slots,       \* the .tmp of each control file: "none", "torn" or "whole"
    denied,      \* migrations with a global-preparing-<t>.done
    \* the protected root
    journal,     \* checkpoint-migration-<t>.json: [state, base, rows]
    store,       \* checkpoint-<worktree>.sqlite3, or None
    route,       \* checkpoint-routing-<worktree>.json: [active, of]
    \* the processes
    command,     \* the command that holds the migration lock, and where it is
    lease,       \* the save whose lease holds the store's lock, or None
    at,          \* how far each save is
    acknowledged,   \* saves reported as made
    faults

controls  == <<marker, transition, slots, denied>>
local     == <<vault, displaced>>
protected == <<journal, store, route>>
clients   == <<lease, at, acknowledged>>
vars == <<local, controls, protected, command, clients, faults>>

Idle == [op |-> "none", of |-> None, at |-> "none"]

Init ==
    /\ vault = Original /\ displaced = [t \in Migrations |-> None]
    /\ marker = None /\ transition = None /\ denied = {}
    /\ slots = [t \in Migrations |-> [transition |-> "none", preparing |-> "none", final |-> "none"]]
    /\ journal = [t \in Migrations |-> [state |-> "none", base |-> None, rows |-> {}]]
    /\ store = None /\ route = [active |-> FALSE, of |-> None]
    /\ command = Idle
    /\ lease = None /\ at = [s \in Saves |-> "new"] /\ acknowledged = {} /\ faults = 0

----------------------------------------------------------------------------
t0 == command.of
mine == journal[t0]

At(op, step) == command.op = op /\ command.at = step
Go(step) == command' = [command EXCEPT !.at = step]
Done == command' = Idle
Record(state) == journal' = [journal EXCEPT ![t0].state = state]

(* Who may serve the rows.                                                  *)
VaultServes == marker = None /\ transition = None /\ vault # None
StoreServes == marker # None /\ marker.kind = "final" /\ route.active

(* pin_file denies writers from the first look at the vault until the old   *)
(* object is moved.                                                         *)
Pinned == command.at \notin {"none", "lock", "check", "withdraw", "settle"}

----------------------------------------------------------------------------
(* Saves.                                                                   *)

SaveLocally(s) ==
    /\ at[s] = "new" /\ VaultServes /\ ~Pinned
    /\ vault' = [vault EXCEPT !.rows = @ \cup {s}]
    /\ at' = [at EXCEPT ![s] = "done"] /\ acknowledged' = acknowledged \cup {s}
    /\ UNCHANGED <<displaced, controls, protected, command, lease, faults>>

(* Acquire: the route is read first, the store's lock waited for after.     *)
SeeRoute(s) ==
    /\ at[s] = "new" /\ StoreServes /\ store # None
    /\ at' = [at EXCEPT ![s] = "routed"]
    /\ UNCHANGED <<local, controls, protected, command, lease, acknowledged, faults>>

LockIsFree == lease = None /\ command.at \in {"none", "lock"}

Acquire(s) ==
    /\ at[s] = "routed" /\ LockIsFree
    /\ lease' = s /\ at' = [at EXCEPT ![s] = "leased"]
    /\ UNCHANGED <<local, controls, protected, command, acknowledged, faults>>

(* The lease runs out, or the worker that held it restarts.                 *)
Lapse ==
    /\ lease # None /\ lease' = None
    /\ UNCHANGED <<local, controls, protected, command, at, acknowledged, faults>>

MayApplyUnrouted(s) == lease = s
MayApply(s) == route.active /\ lease = s

(* CheckpointApply: one SQLite transaction, rows and receipt together.      *)
Apply(s) ==
    /\ at[s] = "leased" /\ MayApply(s)
    /\ store' = [store EXCEPT !.rows = @ \cup {s}]
    /\ at' = [at EXCEPT ![s] = "applied"]
    /\ UNCHANGED <<local, controls, journal, route, command, lease, acknowledged, faults>>

ApplyRefused(s) ==
    /\ at[s] = "leased" /\ ~MayApply(s)
    /\ at' = [at EXCEPT ![s] = "failed"]
    /\ UNCHANGED <<local, controls, protected, command, lease, acknowledged, faults>>

(* The answer arrives, or is lost: only the first reports success.          *)
Answer(s) ==
    /\ at[s] = "applied"
    /\ \/ at' = [at EXCEPT ![s] = "done"] /\ acknowledged' = acknowledged \cup {s}
       \/ at' = [at EXCEPT ![s] = "failed"] /\ UNCHANGED acknowledged
    /\ lease' = IF lease = s THEN None ELSE lease
    /\ UNCHANGED <<local, controls, protected, command, faults>>

----------------------------------------------------------------------------
(* prepare_checkpoint_migration changes nothing that is served: baseline,   *)
(* stage and journal have fresh names, and only the journal leads to them.  *)
Prepare(t) ==
    /\ command = Idle /\ vault # None /\ journal[t].state = "none"
    /\ journal' = [journal EXCEPT ![t].state = "prepared", ![t].base = vault]
    /\ UNCHANGED <<local, controls, store, route, command, clients, faults>>

Begin(op, t) ==
    /\ command = Idle /\ journal[t].state # "none"
    /\ command' = [op |-> op, of |-> t, at |-> "lock"]
    /\ UNCHANGED <<local, controls, protected, clients, faults>>

(* The store's lock, which a lease holds as well.                           *)
TakeLock ==
    /\ command.at = "lock" /\ lease = None /\ Go("check")
    /\ UNCHANGED <<local, controls, protected, clients, faults>>

LockTimesOut ==
    /\ command.at = "lock" /\ lease # None /\ Done
    /\ UNCHANGED <<local, controls, protected, clients, faults>>

----------------------------------------------------------------------------
(* publish_checkpoint_migration.                                            *)

IsMine(file) == file # None => file.of = t0

PublishAdmitted ==
    /\ mine.state \in {"prepared", "publishing", "committed"}
    /\ vault = mine.base
    /\ transition \in {None, t0} /\ IsMine(marker)

Exposed == marker # None /\ marker.kind = "final"

(* A final marker of this migration is finished, any other state of the     *)
(* files is published from the start.                                       *)
Check ==
    /\ At("publish", "check") /\ PublishAdmitted
    /\ \/ /\ Exposed /\ mine.state \in {"publishing", "committed"}
          /\ store # None /\ store.object = t0
          /\ Go("activate")
       \/ /\ ~Exposed /\ mine.state # "committed"
          /\ Go("intend")
    /\ UNCHANGED <<local, controls, protected, clients, faults>>

CheckRefused ==
    /\ At("publish", "check")
    /\ \/ ~PublishAdmitted
       \/ ~Exposed /\ mine.state = "committed"
    /\ Done
    /\ UNCHANGED <<local, controls, protected, clients, faults>>

Intend ==
    /\ At("publish", "intend")
    /\ Record("publishing") /\ Go("deactivate")
    /\ UNCHANGED <<local, controls, store, route, clients, faults>>

Deactivate ==
    /\ At("publish", "deactivate")
    /\ route' = [active |-> FALSE, of |-> t0] /\ Go("announce")
    /\ UNCHANGED <<local, controls, journal, store, clients, faults>>

(* checkpoint_marker_slot: the file of a control is created, then filled,   *)
(* under a name the transaction fixes; one that is there must be whole.  The *)
(* deny marker is moved to a name of its own, which nothing replaces.       *)
Kinds == {"transition", "preparing", "final"}
Writing == [transition |-> "announce", preparing |-> "deny", final |-> "seed"]

NeededAgain(kind) ==
    CASE kind = "transition" -> transition = None
      [] kind = "preparing"  -> marker = None
      [] kind = "final"      -> TRUE

Needed(kind) ==
    CASE kind = "transition" -> transition = None
      [] kind = "preparing"  -> marker = None /\ t0 \notin denied
      [] kind = "final"      -> TRUE

SetSlot(kind, state) == slots' = [slots EXCEPT ![t0][kind] = state]

CreateSlot(kind) ==
    /\ At("publish", Writing[kind]) /\ Needed(kind) /\ slots[t0][kind] = "none"
    /\ SetSlot(kind, "torn") /\ Go(kind)
    /\ UNCHANGED <<local, marker, transition, denied, protected, clients, faults>>

FillSlot(kind) ==
    /\ At("publish", kind)
    /\ SetSlot(kind, "whole") /\ Go(Writing[kind])
    /\ UNCHANGED <<local, marker, transition, denied, protected, clients, faults>>

Unusable(kind) ==
    IF kind = "final" /\ slots[t0].final = "whole"
    THEN marker # None /\ t0 \in denied
    ELSE slots[t0][kind] = "torn"

SlotRefused(kind) ==
    /\ At("publish", Writing[kind]) /\ Needed(kind) /\ Unusable(kind)
    /\ Done
    /\ UNCHANGED <<local, controls, protected, clients, faults>>

Announce ==
    /\ At("publish", "announce")
    /\ IF Needed("transition")
       THEN /\ slots[t0].transition = "whole"
            /\ transition' = t0 /\ SetSlot("transition", "none")
       ELSE UNCHANGED <<transition, slots>>
    /\ Go("deny")
    /\ UNCHANGED <<local, marker, denied, protected, clients, faults>>

Deny ==
    /\ At("publish", "deny")
    /\ IF Needed("preparing")
       THEN /\ slots[t0].preparing = "whole"
            /\ marker' = [kind |-> "preparing", of |-> t0] /\ SetSlot("preparing", "none")
       ELSE UNCHANGED <<marker, slots>>
    /\ Go("install")
    /\ UNCHANGED <<local, transition, denied, protected, clients, faults>>

Staged == [object |-> t0, rows |-> mine.base.rows]

(* The stage takes the store's name, or is recognised under it.             *)
Install ==
    /\ At("publish", "install") /\ store \in {None, Staged}
    /\ store' = Staged /\ Go("seed")
    /\ UNCHANGED <<local, controls, journal, route, clients, faults>>

InstallRefused ==
    /\ At("publish", "install") /\ store \notin {None, Staged} /\ Done
    /\ UNCHANGED <<local, controls, protected, clients, faults>>

Displace ==
    /\ At("publish", "seed") /\ slots[t0].final = "whole"
    /\ marker # None => t0 \notin denied
    /\ marker' = None /\ denied' = denied \cup {t0} /\ Go("expose")
    /\ UNCHANGED <<local, transition, slots, protected, clients, faults>>

Expose ==
    /\ At("publish", "expose")
    /\ marker' = [kind |-> "final", of |-> t0] /\ SetSlot("final", "none") /\ Go("activate")
    /\ UNCHANGED <<local, transition, denied, protected, clients, faults>>

Activate ==
    /\ At("publish", "activate")
    /\ route' = [active |-> TRUE, of |-> t0] /\ Go("commit")
    /\ UNCHANGED <<local, controls, journal, store, clients, faults>>

Commit ==
    /\ At("publish", "commit")
    /\ Record("committed") /\ Go("consume")
    /\ UNCHANGED <<local, controls, store, route, clients, faults>>

Consume ==
    /\ At("publish", "consume")
    /\ transition' = None /\ Done
    /\ UNCHANGED <<local, marker, slots, denied, protected, clients, faults>>

----------------------------------------------------------------------------
(* rollback_checkpoint_migration.                                           *)

RollbackAdmitted ==
    /\ mine.state \in {"committed", "rollback_preparing", "rolling_back"}
    /\ IF marker = None THEN mine.state = "rolling_back" ELSE marker.of = t0
    /\ mine.state = "rolling_back" \/ vault = mine.base

BeginRollback ==
    /\ At("rollback", "check") /\ RollbackAdmitted
    /\ IF mine.state = "committed" THEN Record("rollback_preparing") ELSE UNCHANGED journal
    /\ Go("disable")
    /\ UNCHANGED <<local, controls, store, route, clients, faults>>

(* Settled already, or not this migration's to withdraw.                    *)
RollbackRefused ==
    /\ At("rollback", "check") /\ ~RollbackAdmitted /\ Done
    /\ UNCHANGED <<local, controls, protected, clients, faults>>

Disable ==
    /\ At("rollback", "disable") /\ store # None
    /\ route' = [active |-> FALSE, of |-> t0]
    /\ Go(IF mine.state = "rolling_back" THEN "swap" ELSE "snapshot")
    /\ UNCHANGED <<local, controls, journal, store, clients, faults>>

Snapshot ==
    /\ At("rollback", "snapshot")
    /\ journal' = [journal EXCEPT ![t0].state = "rolling_back", ![t0].rows = store.rows]
    /\ Go("swap")
    /\ UNCHANGED <<local, controls, store, route, clients, faults>>

Returned == [object |-> t0, rows |-> mine.rows]

MayRestore == vault = None /\ displaced[t0] = mine.base

(* The exact old vault is moved aside; an attempt that got further is       *)
(* recognised by what it left.                                              *)
Swap ==
    /\ At("rollback", "swap") /\ store.rows = mine.rows
    /\ \/ vault = Returned /\ Go("withdraw") /\ UNCHANGED local
       \/ MayRestore /\ Go("restore") /\ UNCHANGED local
       \/ /\ vault # None /\ vault = mine.base
          /\ displaced' = [displaced EXCEPT ![t0] = vault] /\ vault' = None
          /\ Go("restore")
    /\ UNCHANGED <<controls, protected, clients, faults>>

SwapRefused ==
    /\ At("rollback", "swap")
    /\ \/ store.rows # mine.rows
       \/ vault \notin {Returned, mine.base} /\ ~MayRestore
    /\ Done
    /\ UNCHANGED <<local, controls, protected, clients, faults>>

Restore ==
    /\ At("rollback", "restore")
    /\ vault' = Returned /\ Go("withdraw")
    /\ UNCHANGED <<displaced, controls, protected, clients, faults>>

Withdraw ==
    /\ At("rollback", "withdraw")
    /\ marker' = None /\ Go("settle")
    /\ UNCHANGED <<local, transition, slots, denied, protected, clients, faults>>

Settle ==
    /\ At("rollback", "settle")
    /\ Record("rolled_back") /\ Done
    /\ UNCHANGED <<local, controls, store, route, clients, faults>>

(* Death, or an error of the next write: what is done stays done.           *)
Stop ==
    /\ command # Idle /\ command.at # "lock" /\ faults < MaxFaults
    /\ faults' = faults + 1 /\ Done
    /\ UNCHANGED <<local, controls, protected, clients>>

----------------------------------------------------------------------------
Publish ==
    \/ Check \/ CheckRefused \/ Intend \/ Deactivate
    \/ \E kind \in Kinds : CreateSlot(kind) \/ FillSlot(kind) \/ SlotRefused(kind)
    \/ Announce \/ Deny \/ Install \/ InstallRefused \/ Displace
    \/ Expose \/ Activate \/ Commit \/ Consume

Rollback ==
    \/ BeginRollback \/ RollbackRefused \/ Disable \/ Snapshot
    \/ Swap \/ SwapRefused \/ Restore \/ Withdraw \/ Settle

Command == TakeLock \/ LockTimesOut \/ Publish \/ Rollback

Save(s) ==
    \/ SaveLocally(s) \/ SeeRoute(s) \/ Acquire(s)
    \/ Apply(s) \/ ApplyRefused(s) \/ Answer(s)

Next ==
    \/ Command \/ Stop \/ Lapse
    \/ \E t \in Migrations : Prepare(t) \/ Begin("publish", t) \/ Begin("rollback", t)
    \/ \E s \in Saves : Save(s)

Spec == Init /\ [][Next]_vars

(* The owner reruns the command whose journal, transition or marker says it *)
(* is not over (enroll-global-codex-projects.ps1 and                         *)
(* bootstrap-global-codex-worktree.ps1 do for a publication); a command and  *)
(* the clock go on.                                                         *)
Unfinished(op, t) ==
    CASE op = "publish"  -> journal[t].state = "publishing" \/ transition = t
      [] op = "rollback" -> journal[t].state \in {"rollback_preparing", "rolling_back"}

Fairness ==
    /\ WF_vars(Command) /\ WF_vars(Lapse)
    /\ \A t \in Migrations, op \in {"publish", "rollback"} :
          SF_vars(Unfinished(op, t) /\ Begin(op, t))

FairSpec == Spec /\ Fairness

----------------------------------------------------------------------------
TypeOK ==
    /\ vault \in {None} \cup Databases /\ store \in {None} \cup Databases
    /\ displaced \in [Migrations -> {None} \cup Databases]
    /\ marker \in {None} \cup Markers
    /\ transition \in {None} \cup Migrations
    /\ slots \in [Migrations -> [Kinds -> {"none", "torn", "whole"}]]
    /\ denied \subseteq Migrations
    /\ route \in [active : BOOLEAN, of : {None} \cup Migrations]
    /\ lease \in {None} \cup Saves /\ acknowledged \subseteq Saves
    /\ at \in [Saves -> {"new", "routed", "leased", "applied", "failed", "done"}]

(* Whichever database the workspace's markers lead a runtime to has every   *)
(* save that was ever reported as made: publication, withdrawal, their      *)
(* interruption and their repetition never route the workspace back to rows *)
(* that are older (enrollment.rs, "carrying the latest global rows back").  *)
RoutedRowsAreLatest ==
    /\ VaultServes => acknowledged \subseteq vault.rows
    /\ StoreServes => store # None /\ acknowledged \subseteq store.rows
    /\ marker = None /\ transition = None => vault # None

(* What no rerun of either command gets past: a control file whose writing  *)
(* was cut short, the store an earlier migration left, a transition that a  *)
(* withdrawal did not take with it.                                         *)
Wedged ==
    /\ command = Idle
    /\ \E t \in Migrations :
          \/ /\ journal[t].state = "publishing"
             /\ \/ \E kind \in Kinds : slots[t][kind] = "torn"
                \/ store # None /\ store.object # t
          \/ /\ transition = t
             /\ journal[t].state \in {"rollback_preparing", "rolling_back", "rolled_back"}

Denied == transition # None \/ ~(VaultServes \/ StoreServes)

(* A workspace that a publication or a withdrawal has closed to its runtime *)
(* is opened again when the interrupted command is rerun, but for the three *)
(* obstructions above.                                                      *)
DenialEnds == Denied ~> (~Denied \/ Wedged)
=============================================================================
