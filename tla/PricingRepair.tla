--------------------------- MODULE PricingRepair ----------------------------
(***************************************************************************)
(* The repair of events stored without a price (apps/web/lib/              *)
(* pricing-repair.ts).  One status row holds the work: a delivery of       *)
(* unpriced events, a catalog sync and a promotion of historical prices    *)
(* ask for it, a run claims it, prices a batch and writes back what is     *)
(* left, guarded by the row's generation.                                  *)
(*                                                                         *)
(* Times are stamps of one clock; 0 stands for NULL.  A model stands for a *)
(* model together with the time its price must cover.                      *)
(***************************************************************************)
EXTENDS Integers, FiniteSets, FiniteSetsExt

CONSTANTS
  LateEvents,      \* events that arrive without a price
  EventModel,      \* event -> model
  Repairers,       \* processes that may run the task
  RepairLimit,     \* events of a batch (adaptive_limit)
  MaxStamps,       \* bound: stamps the clock gives
  MaxReplays,      \* bound: batches of Codex replays to reconcile
  SlowRepair,      \* a run may outlive the five minutes of its claim
  FastEvents       \* an event may happen and arrive within one catalog sync

ASSUME RepairAssumption ==
  /\ IsFiniteSet(LateEvents)
  /\ RepairLimit \in Nat \ {0} /\ MaxStamps \in Nat /\ MaxReplays \in Nat
  /\ SlowRepair \in BOOLEAN /\ FastEvents \in BOOLEAN

VARIABLES
  repairRow,       \* pricing_repair_status: [state, generation, target, queued]
  stamp,           \* the clock
  priceList,       \* models the catalog and its history can price
  lateEvent,       \* event -> "none", "unpriced" or "priced"
  eventTs,         \* event -> its time
  replays,         \* batches of replayed Codex events not yet reconciled
  sync,            \* observedAt of the catalog sync under way, or 0
  repairer         \* process -> local state

repairVars == <<repairRow, stamp, priceList, lateEvent, eventTs, replays, sync, repairer>>

AllModels == {EventModel[e] : e \in LateEvents}
Resting == [pc |-> "idle"]

RepairInit ==
  /\ repairRow = [state |-> "idle", generation |-> 0, target |-> 0, queued |-> 0]
  /\ stamp = 0
  /\ priceList = {}
  /\ lateEvent = [e \in LateEvents |-> "none"]
  /\ eventTs = [e \in LateEvents |-> 0]
  /\ replays \in 0 .. MaxReplays
  /\ sync = 0
  /\ repairer = [r \in Repairers |-> Resting]

-----------------------------------------------------------------------------
(* Requests. *)

(* enqueue_pricing_repair: an idle row starts, any other row queues. *)
EnqueueRepair(row, at) ==
  IF row.state = "idle" \/ row.generation = 0 \/ row.target = 0
  THEN [state |-> "pending", generation |-> at, target |-> at, queued |-> 0]
  ELSE [row EXCEPT !.queued = at]

(* The delivery of an unpriced event, and the request in its transaction. *)
DeliverUnpriced(e, ts) ==
  /\ lateEvent[e] = "none" /\ stamp < MaxStamps
  /\ ts <= stamp
  /\ FastEvents \/ sync = 0 \/ ts < sync
  /\ stamp' = stamp + 1
  /\ lateEvent' = [lateEvent EXCEPT ![e] = "unpriced"]
  /\ eventTs' = [eventTs EXCEPT ![e] = ts]
  /\ repairRow' = EnqueueRepair(repairRow, stamp')
  /\ UNCHANGED <<priceList, replays, sync, repairer>>

(* markPricingRepairPending, and the same update in promote. *)
Restart(row, at) == [row EXCEPT !.state = "pending", !.generation = at, !.target = at]

(* The catalog sync reads the clock after the fetch and commits later. *)
SyncFetch ==
  /\ sync = 0 /\ stamp < MaxStamps
  /\ stamp' = stamp + 1
  /\ sync' = stamp'
  /\ UNCHANGED <<repairRow, priceList, lateEvent, eventTs, replays, repairer>>

SyncCommit(models) ==
  /\ sync # 0
  /\ priceList' = priceList \union models
  /\ repairRow' = Restart(repairRow, sync)
  /\ sync' = 0
  /\ UNCHANGED <<stamp, lateEvent, eventTs, replays, repairer>>

-----------------------------------------------------------------------------
(* A run of the task. *)

Larger(x, y) == IF x > y THEN x ELSE y

(* Mutant of Stale: a run that died keeps its claim. *)
StaleNever == FALSE

(* A claim of five minutes ago: only the run of a dead process is that old,
   or, when runs may be slow, any. *)
Stale == repairRow.state = "running" /\ (SlowRepair \/ \A r \in Repairers : repairer[r] = Resting)

(* claim: pending, failed or waiting and due, or running for five minutes. *)
ClaimRepair(r) ==
  /\ repairer[r].pc = "idle"
  /\ repairRow.generation # 0 /\ repairRow.target # 0
  /\ repairRow.state \in {"pending", "failed", "waiting"} \/ Stale
  /\ repairRow' = [repairRow EXCEPT !.state = "running",
                     !.target = Larger(@, repairRow.queued), !.queued = 0]
  /\ repairer' = [repairer EXCEPT ![r] =
       [pc |-> "claimed", generation |-> repairRow.generation, target |-> repairRow'.target]]
  /\ UNCHANGED <<stamp, priceList, lateEvent, eventTs, replays, sync>>

To(r, pc) == [repairer[r] EXCEPT !.pc = pc]
Settling(r, state) ==
  [pc |-> "settle", generation |-> repairer[r].generation, outcome |-> state]

(* reconcileCodexReplayUsage: a batch that found replays ends the run. *)
Replay(r) ==
  /\ repairer[r].pc = "claimed"
  /\ replays' = IF replays > 0 THEN replays - 1 ELSE 0
  /\ repairer' = [repairer EXCEPT ![r] =
       IF replays > 0 THEN Settling(r, "pending") ELSE To(r, "diagnose")]
  /\ UNCHANGED <<repairRow, stamp, priceList, lateEvent, eventTs, sync>>

Missing(target) == {e \in LateEvents : lateEvent[e] = "unpriced" /\ eventTs[e] < target}

(* getSchedule and getPricingRecoveryModels. *)
Diagnose(r) ==
  /\ repairer[r].pc = "diagnose"
  /\ repairer' = [repairer EXCEPT ![r] =
       [pc |-> "repair", generation |-> @.generation, target |-> @.target,
        found |-> Missing(@.target), models |-> {EventModel[e] : e \in Missing(@.target)} \intersect priceList]]
  /\ UNCHANGED <<repairRow, stamp, priceList, lateEvent, eventTs, replays, sync>>

(* The state that follows from what was found and what was priced; the
   rollups of priced events may still have to be marked dirty. *)
Outcomes(found, priced, hasMore) ==
  IF hasMore THEN {"pending"}
  ELSE IF Cardinality(found) <= Cardinality(priced) THEN {"idle", "pending"}
  ELSE {"waiting"}

(* repairPricingUsage: at most one batch, the oldest first. *)
Repair(r) ==
  /\ repairer[r].pc = "repair"
  /\ LET me == repairer[r]
         candidates == {e \in Missing(me.target) : EventModel[e] \in me.models}
     IN \E batch \in SUBSET candidates :
          /\ Cardinality(batch) = Min({RepairLimit, Cardinality(candidates)})
          /\ \A e \in batch, d \in candidates \ batch : eventTs[e] <= eventTs[d]
          /\ lateEvent' = [e \in LateEvents |-> IF e \in batch THEN "priced" ELSE lateEvent[e]]
          /\ \E outcome \in Outcomes(me.found, batch, batch # candidates) :
               repairer' = [repairer EXCEPT ![r] = Settling(r, outcome)]
  /\ UNCHANGED <<repairRow, stamp, priceList, eventTs, replays, sync>>

(* runHistoricalPricingStep when models are left that nothing prices: it
   has more to do, or promotes prices and restarts the row itself. *)
HistoryStep(r) ==
  /\ repairer[r].pc = "settle" /\ repairer[r].outcome = "waiting"
  /\ repairer' = [repairer EXCEPT ![r].outcome = "pending"]
  /\ \/ UNCHANGED <<repairRow, stamp, priceList>>
     \/ /\ stamp < MaxStamps
        /\ stamp' = stamp + 1
        /\ \E m \in AllModels : priceList' = priceList \union {m}
        /\ repairRow' = Restart(repairRow, stamp')
  /\ UNCHANGED <<lateEvent, eventTs, replays, sync>>

(* Mutant of Progress: a queued request does not reopen the row. *)
ProgressIgnoresQueue(row, state) ==
  [row EXCEPT !.state = state, !.target = Larger(@, row.queued), !.queued = 0]

(* markProgress: a queued request takes precedence over the outcome. *)
Progress(row, state) ==
  [row EXCEPT !.state = IF row.queued # 0 THEN "pending" ELSE state,
              !.target = Larger(@, row.queued), !.queued = 0]

Settle(r) ==
  /\ repairer[r].pc = "settle"
  /\ repairRow' = IF repairRow.generation = repairer[r].generation
                  THEN Progress(repairRow, repairer[r].outcome) ELSE repairRow
  /\ repairer' = [repairer EXCEPT ![r] = Resting]
  /\ UNCHANGED <<stamp, priceList, lateEvent, eventTs, replays, sync>>

(* markFailed. *)
FailRepair(r) ==
  /\ repairer[r].pc # "idle"
  /\ repairRow' = IF repairRow.generation = repairer[r].generation
                  THEN [repairRow EXCEPT !.state = "failed"] ELSE repairRow
  /\ repairer' = [repairer EXCEPT ![r] = Resting]
  /\ UNCHANGED <<stamp, priceList, lateEvent, eventTs, replays, sync>>

DieRepair(r) ==
  /\ repairer[r].pc # "idle"
  /\ repairer' = [repairer EXCEPT ![r] = Resting]
  /\ UNCHANGED <<repairRow, stamp, priceList, lateEvent, eventTs, replays, sync>>

-----------------------------------------------------------------------------
RepairNext ==
  \/ \E e \in LateEvents, ts \in 0 .. MaxStamps : DeliverUnpriced(e, ts)
  \/ SyncFetch
  \/ \E models \in SUBSET AllModels : SyncCommit(models)
  \/ \E r \in Repairers :
       \/ ClaimRepair(r) \/ Replay(r) \/ Diagnose(r) \/ Repair(r) \/ HistoryStep(r)
       \/ Settle(r) \/ FailRepair(r) \/ DieRepair(r)

RepairSpec == RepairInit /\ [][RepairNext]_repairVars

RepairFails == \E r \in Repairers : FailRepair(r) \/ DieRepair(r)

(* What a run does of itself once it holds the claim. *)
RepairSteps(r) == Replay(r) \/ Diagnose(r) \/ Repair(r) \/ Settle(r)

-----------------------------------------------------------------------------
(* Type correctness of the status row and the runs. *)
RepairTypeOK ==
  /\ repairRow \in [state : {"idle", "pending", "running", "failed", "waiting"},
                    generation : 0 .. MaxStamps, target : 0 .. MaxStamps, queued : 0 .. MaxStamps]
  /\ stamp \in 0 .. MaxStamps /\ sync \in 0 .. stamp /\ replays \in 0 .. MaxReplays
  /\ \A r \in Repairers : repairer[r].pc \in {"idle", "claimed", "diagnose", "repair", "settle"}

(* The row rests only when every delivered event has a price: no request
   that came during a run is lost with the run's outcome (markProgress,
   enqueue_pricing_repair). *)
IdleMeansRepaired ==
  repairRow.state = "idle" => \A e \in LateEvents : lateEvent[e] # "unpriced"

(* Once runs no longer fail or die, an event whose model can be priced is
   priced: the claim of a dead run is taken over, batches are continued and
   a new generation starts again (claim, runPricingRepairTaskWith). *)
SupportedPriced ==
  <>[][~ RepairFails]_repairVars =>
    []<>(\A e \in LateEvents : lateEvent[e] = "unpriced" => EventModel[e] \notin priceList)
=============================================================================
