--------------------------- MODULE DeviceControl ----------------------------
(***************************************************************************)
(* Remote control of a device: the policy and the commands the server      *)
(* keeps (apps/web/lib/device-control-repository.ts), and the runs of the  *)
(* shim that ask for them before and after they collect                    *)
(* (shim/rust/src/device_control.rs, collect_cmd of cli.rs).               *)
(*                                                                         *)
(* A device synchronises by polling: a run loads its state file, sends     *)
(* what it applied and the results it has, and gets the policy and the     *)
(* commands claimed for it.  A request or its answer may be lost, a run    *)
(* killed, a lease (5 minutes) or a command (10 minutes) may run out.      *)
(***************************************************************************)
EXTENDS Integers, FiniteSets

CONSTANTS
  CollectCommands, DoctorCommands,  \* ids of the commands that may be created
  Runs,                             \* runs of the shim that may overlap
  MaxPolicies,                      \* bound on the changes of the policy
  MaxDevFaults                      \* bound on lost messages and killed runs together

ASSUME DeviceAssumption == MaxPolicies \in Nat /\ MaxDevFaults \in Nat

Commands == CollectCommands \union DoctorCommands
Modes == {"off", "server_v1"}

VARIABLES
  policy,    \* the policy row: [gen, mode]; gen 0 while there is no row
  shown,     \* the observation row: what the device reported
  command,   \* the command rows: id -> [status, leased, old, fresh]
  admin,     \* a change of the policy under way: the generation it will write
  stateFile, \* device-control.json
  run,       \* run -> [stage, at, mem, todo, changed, round, asked]
  executed,  \* how often the device executed each command
  faults     \* [lost, kills, policies]

devVars == <<policy, shown, command, admin, stateFile, run, executed, faults>>

Results == [id : Commands, ok : BOOLEAN, fresh : BOOLEAN]

(* What device-control.json holds. *)
Files == [gen : 0 .. MaxPolicies + 1, mode : Modes, completed : SUBSET Commands,
          results : SUBSET Results, collects : SUBSET CollectCommands]

EmptyFile == [gen |-> 0, mode |-> "off", completed |-> {}, results |-> {}, collects |-> {}]
NoRun == [stage |-> "off", at |-> "send", mem |-> EmptyFile, todo |-> {},
          changed |-> FALSE, round |-> 1, asked |-> {}]

DevInit ==
  /\ policy = [gen |-> 0, mode |-> "off"]
  /\ shown = [gen |-> 0, mode |-> "off"]
  /\ command = [c \in Commands |-> [status |-> "none", leased |-> FALSE, old |-> FALSE, fresh |-> TRUE]]
  /\ admin = 0
  /\ stateFile = EmptyFile
  /\ run = [r \in Runs |-> NoRun]
  /\ executed = [c \in Commands |-> 0]
  /\ faults = [lost |-> 0, kills |-> 0, policies |-> 0]

-----------------------------------------------------------------------------
(* The web. *)

Active(c) == command[c].status \in {"pending", "claimed"}

(* What both transactions do with commands that are past their time. *)
ExpireOld(cmd) ==
  [c \in Commands |-> IF cmd[c].status \in {"pending", "claimed"} /\ cmd[c].old
                      THEN [cmd[c] EXCEPT !.status = "expired", !.leased = FALSE] ELSE cmd[c]]

SameType(c) == IF c \in CollectCommands THEN CollectCommands ELSE DoctorCommands

(* enqueueCommand: one active command of a type. *)
EnqueueCommand(c) ==
  /\ command[c].status = "none"
  /\ \A d \in SameType(c) : ~Active(d) \/ command[d].old
  /\ command' = [ExpireOld(command) EXCEPT ![c].status = "pending"]
  /\ UNCHANGED <<policy, shown, admin, stateFile, run, executed, faults>>

(* setDesiredContentMode reads the generation; FOR UPDATE locks the row, but
   there may be none yet, and then the first sync can insert it meanwhile. *)
ReadPolicy ==
  /\ admin = 0 /\ faults.policies < MaxPolicies
  /\ admin' = policy.gen + 1
  /\ faults' = [faults EXCEPT !.policies = @ + 1]
  /\ UNCHANGED <<policy, shown, command, stateFile, run, executed>>

WritePolicy(mode) ==
  /\ admin > 0
  /\ policy' = [gen |-> admin, mode |-> mode]
  /\ admin' = 0
  /\ UNCHANGED <<shown, command, stateFile, run, executed, faults>>

-----------------------------------------------------------------------------
(* The server's side of a sync: one transaction. *)

ResultOf(c, results) == {x \in results : x.id = c}

Record(cmd, results) ==
  [c \in Commands |->
     IF cmd[c].status = "claimed" /\ ResultOf(c, results) # {}
     THEN LET result == CHOOSE x \in ResultOf(c, results) : TRUE
          IN [cmd[c] EXCEPT !.status = IF result.ok THEN "succeeded" ELSE "failed",
                            !.leased = FALSE, !.fresh = result.fresh]
     ELSE cmd[c]]

ClaimableCommand(cmd) ==
  {c \in Commands : ~cmd[c].old /\ \/ cmd[c].status = "pending"
                                   \/ cmd[c].status = "claimed" /\ ~cmd[c].leased}

Serve(mem) ==
  LET settled == ExpireOld(Record(command, mem.results))
      handed == ClaimableCommand(settled)
      desired == IF policy.gen = 0 THEN [gen |-> 1, mode |-> mem.mode] ELSE policy
  IN [command |-> [c \in Commands |-> IF c \in handed
                                      THEN [settled[c] EXCEPT !.status = "claimed", !.leased = TRUE]
                                      ELSE settled[c]],
      handed |-> handed,
      policy |-> desired,
      shown |-> IF mem.gen >= shown.gen THEN [gen |-> mem.gen, mode |-> mem.mode] ELSE shown]

-----------------------------------------------------------------------------
(* A run of the shim. *)

(* Mutant of ApplyDesired: a generation that is already applied is skipped. *)
ApplyDesiredNewer(mem, desired) ==
  IF desired.gen <= mem.gen THEN mem ELSE [mem EXCEPT !.gen = desired.gen, !.mode = desired.mode]

ApplyDesired(mem, desired) ==
  IF desired.gen < mem.gen THEN mem ELSE [mem EXCEPT !.gen = desired.gen, !.mode = desired.mode]

Started(r, stage, mem) ==
  [run[r] EXCEPT !.stage = stage, !.at = "send", !.mem = mem, !.todo = {},
                 !.changed = FALSE, !.round = 1]

(* After the first sync the run collects, after the second it ends. *)
Collecting(r) ==
  [run[r] EXCEPT !.stage = "collect", !.at = "work", !.mem = EmptyFile, !.todo = {}, !.changed = FALSE,
                 !.round = 1, !.asked = {c \in Commands : command[c].status # "none"}]
AfterSync(r) == IF run[r].stage = "pre" THEN Collecting(r) ELSE NoRun

BeginRun(r) ==
  /\ run[r].stage = "off"
  /\ run' = [run EXCEPT ![r] = Started(r, "pre", stateFile)]
  /\ UNCHANGED <<policy, shown, command, admin, stateFile, executed, faults>>

(* sync_once up to the commands: the answer clears the results it was sent. *)
SyncRun(r) ==
  LET mem == run[r].mem
      served == Serve(mem)
      applied == ApplyDesired([mem EXCEPT !.results = {}], served.policy)
  IN /\ run[r].stage \in {"pre", "post"} /\ run[r].at = "send"
     /\ command' = served.command /\ policy' = served.policy /\ shown' = served.shown
     /\ run' = [run EXCEPT ![r] = [@ EXCEPT !.at = "execute", !.mem = applied, !.todo = served.handed,
                                            !.changed = applied # mem]]
     /\ UNCHANGED <<admin, stateFile, executed, faults>>

MayFail == faults.lost + faults.kills < MaxDevFaults

(* The request or the answer is lost; the run goes on without a sync. *)
LoseSync(r, answered) ==
  /\ run[r].stage \in {"pre", "post"} /\ run[r].at = "send"
  /\ MayFail
  /\ faults' = [faults EXCEPT !.lost = @ + 1]
  /\ IF answered
     THEN LET served == Serve(run[r].mem)
          IN command' = served.command /\ policy' = served.policy /\ shown' = served.shown
     ELSE UNCHANGED <<command, policy, shown>>
  /\ run' = [run EXCEPT ![r] = AfterSync(r)]
  /\ UNCHANGED <<admin, stateFile, executed>>

(* Mutant of Executed: a collect command is remembered only when it is done. *)
ExecutedUnremembered(r, c, ok) ==
  IF c \in CollectCommands THEN [run[r].mem EXCEPT !.collects = @ \union {c}]
  ELSE [run[r].mem EXCEPT !.completed = @ \union {c},
                          !.results = @ \union {[id |-> c, ok |-> ok, fresh |-> TRUE]}]

(* Mutant of Executed: a collect command that comes with the sync after the
   collection is done with that collection. *)
ExecutedAtOnce(r, c, ok) ==
  IF c \in DoctorCommands \/ run[r].stage = "post"
  THEN [run[r].mem EXCEPT !.completed = @ \union {c},
                          !.results = @ \union {[id |-> c, ok |-> ok, fresh |-> c \in run[r].asked]}]
  ELSE [run[r].mem EXCEPT !.completed = @ \union {c}, !.collects = @ \union {c}]

(* A collect command waits for the next collection. *)
Executed(r, c, ok) ==
  IF c \in CollectCommands
  THEN [run[r].mem EXCEPT !.completed = @ \union {c}, !.collects = @ \union {c}]
  ELSE [run[r].mem EXCEPT !.completed = @ \union {c},
                          !.results = @ \union {[id |-> c, ok |-> ok, fresh |-> TRUE]}]

(* execute_commands. *)
ExecuteCommand(r, c, ok) ==
  /\ run[r].at = "execute" /\ c \in run[r].todo
  /\ IF c \in run[r].mem.completed
     THEN /\ run' = [run EXCEPT ![r].todo = @ \ {c}]
          /\ UNCHANGED executed
     ELSE /\ executed' = [executed EXCEPT ![c] = @ + 1]
          /\ run' = [run EXCEPT ![r] = [@ EXCEPT !.at = "save", !.todo = run[r].todo \ {c}, !.changed = TRUE,
                                                 !.mem = Executed(r, c, ok)]]
  /\ UNCHANGED <<policy, shown, command, admin, stateFile, faults>>

SaveCommand(r) ==
  /\ run[r].at = "save"
  /\ stateFile' = run[r].mem
  /\ run' = [run EXCEPT ![r].at = "execute"]
  /\ UNCHANGED <<policy, shown, command, admin, executed, faults>>

(* Mutant of FinishSync: what was applied stays in memory until the
   confirmation is done. *)
FinishSyncUnsaved(r) ==
  /\ run[r].at = "execute" /\ run[r].todo = {}
  /\ stateFile' = IF run[r].changed /\ run[r].round = 1 THEN stateFile ELSE run[r].mem
  /\ run' = [run EXCEPT ![r] =
       IF @.changed /\ @.round = 1 THEN [@ EXCEPT !.at = "send", !.changed = FALSE, !.round = 2]
       ELSE AfterSync(r)]
  /\ UNCHANGED <<policy, shown, command, admin, executed, faults>>

(* The end of sync_once; sync_target confirms a change with a second one. *)
FinishSync(r) ==
  /\ run[r].at = "execute" /\ run[r].todo = {}
  /\ stateFile' = run[r].mem
  /\ run' = [run EXCEPT ![r] =
       IF @.changed /\ @.round = 1 THEN [@ EXCEPT !.at = "send", !.changed = FALSE, !.round = 2]
       ELSE AfterSync(r)]
  /\ UNCHANGED <<policy, shown, command, admin, executed, faults>>

(* complete_collect. *)
CollectResults(r, ok) ==
  [stateFile EXCEPT !.collects = {},
     !.results = @ \union {[id |-> c, ok |-> ok, fresh |-> c \in run[r].asked] : c \in stateFile.collects}]

(* The collection ends: complete_collect, then the second sync. *)
FinishCollect(r, ok) ==
  /\ run[r].stage = "collect"
  /\ stateFile' = CollectResults(r, ok)
  /\ run' = [run EXCEPT ![r] = Started(r, "post", stateFile')]
  /\ UNCHANGED <<policy, shown, command, admin, executed, faults>>

KillRun(r) ==
  /\ run[r].stage # "off" /\ MayFail
  /\ faults' = [faults EXCEPT !.kills = @ + 1]
  /\ run' = [run EXCEPT ![r] = NoRun]
  /\ UNCHANGED <<policy, shown, command, admin, stateFile, executed>>

-----------------------------------------------------------------------------
(* The clock. *)

EndLease(c) ==
  /\ command[c].leased
  /\ command' = [command EXCEPT ![c].leased = FALSE]
  /\ UNCHANGED <<policy, shown, admin, stateFile, run, executed, faults>>

GrowOld(c) ==
  /\ Active(c) /\ ~command[c].old
  /\ command' = [command EXCEPT ![c].old = TRUE]
  /\ UNCHANGED <<policy, shown, admin, stateFile, run, executed, faults>>

RunStep(r) ==
  \/ BeginRun(r) \/ SyncRun(r) \/ SaveCommand(r) \/ FinishSync(r)
  \/ \E c \in Commands, ok \in BOOLEAN : ExecuteCommand(r, c, ok)
  \/ \E ok \in BOOLEAN : FinishCollect(r, ok)

DevNext ==
  \/ ReadPolicy \/ \E mode \in Modes : WritePolicy(mode)
  \/ \E c \in Commands : EnqueueCommand(c) \/ EndLease(c) \/ GrowOld(c)
  \/ \E r \in Runs : RunStep(r) \/ KillRun(r) \/ \E answered \in BOOLEAN : LoseSync(r, answered)

DevSpec == DevInit /\ [][DevNext]_devVars


-----------------------------------------------------------------------------
(* Type correctness of the rows, of the state file and of the runs. *)
DevTypeOK ==
  /\ policy \in [gen : 0 .. MaxPolicies + 1, mode : Modes]
  /\ shown \in [gen : 0 .. MaxPolicies + 1, mode : Modes]
  /\ command \in [Commands -> [status : {"none", "pending", "claimed", "succeeded", "failed", "expired"},
                               leased : BOOLEAN, old : BOOLEAN, fresh : BOOLEAN]]
  /\ admin \in 0 .. MaxPolicies + 1
  /\ stateFile \in Files
  /\ run \in [Runs -> [stage : {"off", "pre", "collect", "post"}, at : {"send", "execute", "save", "work"},
                       mem : Files, todo : SUBSET Commands, changed : BOOLEAN, round : {1, 2},
                       asked : SUBSET Commands]]
  /\ executed \in [Commands -> Nat]
  /\ faults \in [lost : 0 .. MaxDevFaults, kills : 0 .. MaxDevFaults, policies : 0 .. MaxPolicies]

(* The settings page shows the policy as applied (listUserDevices: the
   reported generation and mode are the desired ones) only if a collection
   that starts now uses it, however the sync, its confirmation, a change of
   the policy and the death of the run interleave. *)
AppliedIsInForce ==
  policy.gen > 0 /\ shown = policy => stateFile.mode = policy.mode /\ stateFile.gen = policy.gen

(* A collect command that is reported as done was done by a collection that
   began after the command was given (complete_collect). *)
CollectedAfterAsked ==
  \A c \in CollectCommands : command[c].status \in {"succeeded", "failed"} => command[c].fresh

(* A command is taken up once, whatever is lost and whichever leases run out,
   except that a run killed before it saves its state repeats what it did
   (execute_commands). *)
ExecutedOncePerKill == \A c \in Commands : executed[c] <= 1 + faults.kills

(* A change of the policy reaches the device and is shown as applied, unless
   it is changed again (sync, apply_desired). *)
PolicyReachesDevice ==
  [](policy.gen > 0 => <>(shown = policy /\ stateFile.gen = policy.gen /\ stateFile.mode = policy.mode))
=============================================================================
