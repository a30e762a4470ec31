--------------------------- MODULE PricingProofs ----------------------------
(***************************************************************************)
(* What prices keep: PricingRepair for any events, processes, batch limit  *)
(* and number of requests, that its status row rests only when every       *)
(* delivered event has a price; PricingHistory for any price list, pages   *)
(* and steps, that what a job promotes is the price list.                  *)
(***************************************************************************)
EXTENDS PricingRepair, PricingHistory, FiniteSetTheorems, SequenceTheorems,
        WellFoundedInduction, TLAPS

Stamps == 0 .. MaxStamps
States == {"idle", "pending", "running", "failed", "waiting"}
RepairRows == [state : States, generation : Stamps, target : Stamps, queued : Stamps]
ClaimedRuns == [pc : {"claimed", "diagnose"}, generation : Stamps, target : Stamps]
RepairRuns == [pc : {"repair"}, generation : Stamps, target : Stamps,
               found : SUBSET LateEvents, models : SUBSET AllModels]
SettleRuns == [pc : {"settle"}, generation : Stamps, outcome : {"idle", "pending", "waiting"}]
RepairRunStates == {Resting} \union ClaimedRuns \union RepairRuns \union SettleRuns

(* The types of the row, the events and the runs.                          *)
RepairTyped ==
    /\ repairRow \in RepairRows
    /\ stamp \in Stamps /\ sync \in 0 .. stamp /\ replays \in 0 .. MaxReplays
    /\ lateEvent \in [LateEvents -> {"none", "unpriced", "priced"}]
    /\ eventTs \in [LateEvents -> Nat]
    /\ repairer \in [Repairers -> RepairRunStates]

UnpricedEvents == {e \in LateEvents : lateEvent[e] = "unpriced"}

(* The run that holds the claim of the row's generation.                   *)
Claims(r) == repairer[r] # Resting /\ repairer[r].generation = repairRow.generation

(* Generations are stamps of the past, and the one of the catalog sync     *)
(* under way is in no row and no run; an event it does not cover comes     *)
(* later.                                                                  *)
StampInv ==
    /\ repairRow.generation <= stamp /\ repairRow.target <= stamp /\ repairRow.queued <= stamp
    /\ repairRow.state # "idle" => repairRow.generation # 0 /\ repairRow.target # 0
    /\ sync # 0 => repairRow.generation # sync
    /\ \A e \in LateEvents : lateEvent[e] # "none" => eventTs[e] <= stamp /\ (sync # 0 => eventTs[e] < sync)
    /\ \A r \in Repairers : repairer[r] # Resting =>
          repairer[r].generation <= stamp /\ (sync # 0 => repairer[r].generation # sync)

(* One run at most holds the claim, and only of a row that is running.     *)
ClaimInv ==
    /\ \A r \in Repairers : Claims(r) => repairRow.state = "running"
    /\ \A r, q \in Repairers : Claims(r) /\ Claims(q) => r = q

(* A row at rest has nothing left, and one with work left reaches all of   *)
(* it.                                                                     *)
RestInv ==
    /\ repairRow.state = "idle" => UnpricedEvents = {}
    /\ repairRow.state # "idle" => \A e \in UnpricedEvents : eventTs[e] < Larger(repairRow.target, repairRow.queued)

(* What the run that holds the claim knows, while nothing is queued: its   *)
(* target is beyond every unpriced event, it has found all of them, and it *)
(* lets the row rest only when there are none.                             *)
Knows(r) ==
    /\ repairer[r].pc \in {"claimed", "diagnose", "repair"} => \A e \in UnpricedEvents : eventTs[e] < repairer[r].target
    /\ repairer[r].pc = "repair" => UnpricedEvents \subseteq repairer[r].found
    /\ repairer[r].pc = "settle" /\ repairer[r].outcome = "idle" => UnpricedEvents = {}
KnowsInv == repairRow.queued = 0 => \A r \in Repairers : Claims(r) => Knows(r)

RepairInv == RepairTyped /\ StampInv /\ ClaimInv /\ RestInv /\ KnowsInv

-----------------------------------------------------------------------------
(* The records of a row and a run after a change.                          *)
LEMMA RowFields ==
    ASSUME NEW row \in RepairRows, NEW s, NEW q
    PROVE  /\ [row EXCEPT !.queued = q] =
                [state |-> row.state, generation |-> row.generation, target |-> row.target, queued |-> q]
           /\ [row EXCEPT !.state = s] =
                [state |-> s, generation |-> row.generation, target |-> row.target, queued |-> row.queued]
<1>1. ASSUME NEW w, w = [row EXCEPT !.queued = q]
      PROVE  w = [state |-> row.state, generation |-> row.generation, target |-> row.target, queued |-> q]
  BY <1>1 DEF RepairRows
<1>2. ASSUME NEW w, w = [row EXCEPT !.state = s]
      PROVE  w = [state |-> s, generation |-> row.generation, target |-> row.target, queued |-> row.queued]
  BY <1>2 DEF RepairRows
<1> QED  BY <1>1, <1>2

(* The row of a restart, which keeps what is queued.                       *)
LEMMA RestartFields ==
    ASSUME NEW row \in RepairRows, NEW at
    PROVE  Restart(row, at) = [state |-> "pending", generation |-> at, target |-> at, queued |-> row.queued]
<1>1. ASSUME NEW w, w = [row EXCEPT !.state = "pending", !.generation = at, !.target = at]
      PROVE  w = [state |-> "pending", generation |-> at, target |-> at, queued |-> row.queued]
  BY <1>1 DEF RepairRows
<1> QED  BY <1>1 DEF Restart

(* The later of two stamps.                                                *)
LEMMA LargerTyped ==
    ASSUME NEW x \in Stamps, NEW y \in Stamps
    PROVE  Larger(x, y) \in {x, y} /\ x <= Larger(x, y) /\ y <= Larger(x, y) /\ Larger(x, 0) = x
BY RepairAssumption DEF Larger, Stamps

(* The record of one run changes.                                          *)
LEMMA RunMoves ==
    ASSUME RepairTyped, NEW r \in Repairers, NEW n \in RepairRunStates, repairer' = [repairer EXCEPT ![r] = n]
    PROVE  /\ repairer' \in [Repairers -> RepairRunStates] /\ repairer'[r] = n
           /\ \A q \in Repairers : q # r => repairer'[q] = repairer[q]
BY DEF RepairTyped

(* The fields of a run at each place.                                      *)
LEMMA RunFields ==
    ASSUME NEW v \in RepairRunStates
    PROVE  /\ v.pc \in {"idle", "claimed", "diagnose", "repair", "settle"}
           /\ v.pc = "idle" <=> v = Resting
           /\ v.pc \in {"claimed", "diagnose"} => v \in ClaimedRuns
           /\ v.pc = "repair" => v \in RepairRuns
           /\ v.pc = "settle" => v \in SettleRuns
           /\ v # Resting => v.generation \in Stamps
BY DEF RepairRunStates, Resting, ClaimedRuns, RepairRuns, SettleRuns

(* A step that leaves the row and the claim of every run alone, and prices *)
(* nothing but unpriced events, keeps what the runs that do not move know. *)
LEMMA KnowsStays ==
    ASSUME NEW r, Knows(r), repairer'[r] = repairer[r], eventTs' = eventTs,
           UnpricedEvents' \subseteq UnpricedEvents
    PROVE  Knows(r)'
BY DEF Knows

(* A step of run r that leaves the row, the clock and the events: the run  *)
(* keeps its claim or rests, and what it knows then has to be shown.       *)
LEMMA RepairRunStep ==
    ASSUME RepairInv, NEW r \in Repairers, NEW n \in RepairRunStates, repairer' = [repairer EXCEPT ![r] = n],
           UNCHANGED <<repairRow, stamp, sync, eventTs>>,
           replays' \in 0 .. MaxReplays,
           lateEvent' \in [LateEvents -> {"none", "unpriced", "priced"}],
           \A e \in LateEvents : lateEvent'[e] # "none" <=> lateEvent[e] # "none",
           UnpricedEvents' \subseteq UnpricedEvents,
           n # Resting => repairer[r] # Resting /\ n.generation = repairer[r].generation,
           Claims(r) /\ n # Resting /\ repairRow.queued = 0 => Knows(r)'
    PROVE  RepairInv'
<1>1. /\ repairer' \in [Repairers -> RepairRunStates] /\ repairer'[r] = n
      /\ \A q \in Repairers : q # r => repairer'[q] = repairer[q]
  BY RunMoves DEF RepairInv
<1>2. RepairTyped'
  BY <1>1 DEF RepairInv, RepairTyped
<1>3. StampInv'
  BY <1>1 DEF RepairInv, StampInv
<1>4. \A q \in Repairers : Claims(q)' => Claims(q) /\ (q = r => n # Resting)
  BY <1>1 DEF Claims
<1>5. ClaimInv'
  BY <1>4 DEF RepairInv, ClaimInv
<1>6. RestInv'
  BY DEF RepairInv, RestInv
<1>7. KnowsInv'
  <2> SUFFICES ASSUME repairRow.queued = 0, NEW q \in Repairers, Claims(q)'  PROVE Knows(q)'
    BY DEF KnowsInv
  <2>1. CASE q = r
    BY <1>4, <2>1
  <2>2. CASE q # r
    <3>1. Knows(q) /\ repairer'[q] = repairer[q]
      BY <1>1, <1>4, <2>2 DEF RepairInv, KnowsInv
    <3> QED  BY <3>1, KnowsStays
  <2> QED  BY <2>1, <2>2
<1> QED  BY <1>2, <1>3, <1>5, <1>6, <1>7 DEF RepairInv

(* Runs that are all as they were, or rest, after a change of the row to a *)
(* generation no run has, one that is pending.                             *)
LEMMA NoHolder ==
    ASSUME \A q \in Repairers : repairer'[q] # Resting => repairer'[q].generation # repairRow'.generation
    PROVE  ClaimInv' /\ KnowsInv'
BY DEF ClaimInv, KnowsInv, Claims

-----------------------------------------------------------------------------
(* The steps of a run.                                                     *)
LEMMA ReplayKeeps ==
    ASSUME RepairInv, NEW r \in Repairers, Replay(r)
    PROVE  RepairInv'
<1>1. RepairTyped /\ repairer[r] \in RepairRunStates /\ repairer[r].pc = "claimed" /\ repairer[r] \in ClaimedRuns
  BY RunFields DEF RepairInv, RepairTyped, Replay
<1>2. PICK n : n = IF replays > 0 THEN Settling(r, "pending") ELSE To(r, "diagnose")
  OBVIOUS
<1>3. ASSUME NEW v \in ClaimedRuns, NEW w, w = [v EXCEPT !.pc = "diagnose"]
      PROVE  w = [pc |-> "diagnose", generation |-> v.generation, target |-> v.target]
  BY <1>3 DEF ClaimedRuns
<1>4. \/ n = [pc |-> "settle", generation |-> repairer[r].generation, outcome |-> "pending"]
      \/ n = [pc |-> "diagnose", generation |-> repairer[r].generation, target |-> repairer[r].target]
  BY <1>1, <1>2, <1>3 DEF Settling, To
<1>5. n \in RepairRunStates /\ n.generation = repairer[r].generation
  BY <1>1, <1>4 DEF RepairRunStates, ClaimedRuns, SettleRuns
<1>6. replays' \in 0 .. MaxReplays
  BY <1>1, RepairAssumption DEF RepairTyped, Replay
<1>7. repairer' = [repairer EXCEPT ![r] = n] /\ UNCHANGED <<repairRow, stamp, sync, eventTs, lateEvent>>
  BY <1>2 DEF Replay
<1>8. ASSUME Claims(r), repairRow.queued = 0  PROVE Knows(r)'
  <2>1. Knows(r) /\ repairer'[r] = n /\ UnpricedEvents' = UnpricedEvents
    BY <1>1, <1>5, <1>7, <1>8, RunMoves DEF RepairInv, KnowsInv, UnpricedEvents
  <2> QED  BY <1>1, <1>4, <1>7, <2>1 DEF Knows
<1>9. repairer[r] # Resting
  BY <1>1 DEF Resting
<1>10. UnpricedEvents' = UnpricedEvents
  BY <1>7 DEF UnpricedEvents
<1> QED  BY <1>1, <1>5, <1>6, <1>7, <1>8, <1>9, <1>10, RepairRunStep DEF RepairTyped

(* A run finds every unpriced event before its target.                     *)
LEMMA DiagnoseKeeps ==
    ASSUME RepairInv, NEW r \in Repairers, Diagnose(r)
    PROVE  RepairInv'
<1>1. RepairTyped /\ repairer[r] \in RepairRunStates /\ repairer[r].pc = "diagnose" /\ repairer[r] \in ClaimedRuns
  BY RunFields DEF RepairInv, RepairTyped, Diagnose
<1>2. PICK n : n = [pc |-> "repair", generation |-> repairer[r].generation, target |-> repairer[r].target,
                    found |-> Missing(repairer[r].target),
                    models |-> {EventModel[e] : e \in Missing(repairer[r].target)} \intersect priceList]
  OBVIOUS
<1>3. repairer' = [repairer EXCEPT ![r] = n] /\ UNCHANGED <<repairRow, stamp, sync, eventTs, lateEvent, replays>>
  BY <1>2 DEF Diagnose
<1>4. n.found \subseteq LateEvents /\ n.models \subseteq AllModels
  BY <1>2 DEF Missing, AllModels
<1>5. n \in RepairRuns /\ n.generation = repairer[r].generation
  BY <1>1, <1>2, <1>4 DEF RepairRuns, ClaimedRuns
<1>6. n \in RepairRunStates
  BY <1>5 DEF RepairRunStates
<1>7. UnpricedEvents' = UnpricedEvents
  BY <1>3 DEF UnpricedEvents
<1>8. ASSUME Claims(r), repairRow.queued = 0  PROVE Knows(r)'
  <2>1. Knows(r) /\ repairer'[r] = n
    BY <1>1, <1>3, <1>6, <1>8, RunMoves DEF RepairInv, KnowsInv
  <2>2. \A e \in UnpricedEvents : eventTs[e] < repairer[r].target
    BY <1>1, <2>1 DEF Knows
  <2>3. UnpricedEvents \subseteq n.found
    BY <1>2, <2>2 DEF Missing, UnpricedEvents
  <2>4. n.pc = "repair" /\ n.target = repairer[r].target
    BY <1>2
  <2> QED  BY <1>3, <1>7, <2>1, <2>2, <2>3, <2>4 DEF Knows
<1>9. repairer[r] # Resting
  BY <1>1 DEF Resting
<1> QED  BY <1>1, <1>3, <1>5, <1>6, <1>7, <1>8, <1>9, RepairRunStep DEF RepairTyped

(* A batch that is all it could be, and as large as what was found, is all *)
(* of it.                                                                  *)
LEMMA RepairKeeps ==
    ASSUME RepairInv, NEW r \in Repairers, Repair(r)
    PROVE  RepairInv'
<1>1. RepairTyped /\ repairer[r] \in RepairRunStates /\ repairer[r].pc = "repair" /\ repairer[r] \in RepairRuns
  BY RunFields DEF RepairInv, RepairTyped, Repair
<1> DEFINE me == repairer[r]
           found == {e \in Missing(me.target) : EventModel[e] \in me.models}
<1>0. PICK batch \in SUBSET found :
          /\ lateEvent' = [e \in LateEvents |-> IF e \in batch THEN "priced" ELSE lateEvent[e]]
          /\ \E outcome \in Outcomes(me.found, batch, batch # found) :
                repairer' = [repairer EXCEPT ![r] = Settling(r, outcome)]
  BY Zenon DEF Repair
<1>2. PICK outcome \in Outcomes(me.found, batch, batch # found) :
          repairer' = [repairer EXCEPT ![r] = Settling(r, outcome)]
  BY <1>0
<1>3. batch \subseteq UnpricedEvents
  BY <1>0 DEF Missing, UnpricedEvents
<1>4. outcome \in {"idle", "pending", "waiting"}
      /\ (outcome = "idle" => batch = found /\ Cardinality(me.found) <= Cardinality(batch))
  BY <1>2 DEF Outcomes
<1> HIDE DEF found
<1>5. /\ lateEvent' \in [LateEvents -> {"none", "unpriced", "priced"}]
      /\ \A e \in LateEvents : lateEvent'[e] # "none" <=> lateEvent[e] # "none"
      /\ UnpricedEvents' = UnpricedEvents \ batch
  <2>1. lateEvent \in [LateEvents -> {"none", "unpriced", "priced"}]
    BY <1>1 DEF RepairTyped
  <2> QED  BY <1>0, <1>3, <2>1 DEF UnpricedEvents
<1>6. PICK n : n = Settling(r, outcome)
  OBVIOUS
<1>7. n \in SettleRuns /\ n.generation = me.generation /\ n.outcome = outcome /\ n.pc = "settle"
  BY <1>1, <1>4, <1>6 DEF SettleRuns, RepairRuns, Settling
<1>8. n \in RepairRunStates
  BY <1>7 DEF RepairRunStates
<1>9. repairer' = [repairer EXCEPT ![r] = n] /\ UNCHANGED <<repairRow, stamp, sync, eventTs, replays>>
  BY <1>2, <1>6 DEF Repair
<1>10. ASSUME Claims(r), repairRow.queued = 0  PROVE Knows(r)'
  <2>1. Knows(r) /\ repairer'[r] = n
    BY <1>1, <1>8, <1>9, <1>10, RunMoves DEF RepairInv, KnowsInv
  <2>2. UnpricedEvents \subseteq me.found /\ me.found \subseteq LateEvents
    BY <1>1, <2>1 DEF Knows, RepairRuns
  <2>3. ASSUME outcome = "idle"  PROVE UnpricedEvents' = {}
    <3>1. IsFiniteSet(me.found)
      BY <2>2, RepairAssumption, FS_Subset
    <3>2. batch \subseteq me.found /\ Cardinality(me.found) <= Cardinality(batch)
      BY <1>3, <1>4, <2>2, <2>3
    <3>3. IsFiniteSet(batch) /\ Cardinality(batch) \in Nat /\ Cardinality(me.found) \in Nat
      BY <3>1, <3>2, FS_Subset, FS_CardinalityType
    <3>4. /\ Cardinality(batch) <= Cardinality(me.found)
          /\ Cardinality(me.found) = Cardinality(batch) => me.found = batch
      BY <3>1, <3>2, FS_Subset
    <3>5. batch = me.found
      BY <3>2, <3>3, <3>4
    <3> QED  BY <1>5, <2>2, <3>5
  <2> QED  BY <1>7, <2>1, <2>3 DEF Knows
<1>11. me # Resting
  BY <1>1 DEF Resting
<1> QED  BY <1>1, <1>5, <1>7, <1>8, <1>9, <1>10, <1>11, RepairRunStep DEF RepairTyped

(* A run that dies holds nothing.                                          *)
LEMMA DieRepairKeeps ==
    ASSUME RepairInv, NEW r \in Repairers, DieRepair(r)
    PROVE  RepairInv'
<1>1. Resting \in RepairRunStates
  BY DEF RepairRunStates
<1>2. repairer' = [repairer EXCEPT ![r] = Resting]
      /\ UNCHANGED <<repairRow, stamp, sync, eventTs, lateEvent, replays>>
  BY DEF DieRepair
<1>3. UnpricedEvents' = UnpricedEvents /\ RepairTyped
  BY <1>2 DEF UnpricedEvents, RepairInv
<1> QED  BY <1>1, <1>2, <1>3, RepairRunStep DEF RepairTyped

(* The outcome of the run that holds the claim, or what was queued; of any *)
(* other run nothing.                                                      *)
LEMMA SettleKeeps ==
    ASSUME RepairInv, NEW r \in Repairers, Settle(r)
    PROVE  RepairInv'
<1>1. RepairTyped /\ repairer[r] \in RepairRunStates /\ repairer[r].pc = "settle" /\ repairer[r] \in SettleRuns
  BY RunFields DEF RepairInv, RepairTyped, Settle
<1>2. repairer' = [repairer EXCEPT ![r] = Resting]
      /\ UNCHANGED <<stamp, sync, eventTs, lateEvent, replays>>
  BY DEF Settle
<1>3. Resting \in RepairRunStates /\ UnpricedEvents' = UnpricedEvents
  BY <1>2 DEF RepairRunStates, UnpricedEvents
<1>4. CASE repairRow.generation # repairer[r].generation
  BY <1>1, <1>2, <1>3, <1>4, RepairRunStep DEF RepairTyped, Settle
<1>5. CASE repairRow.generation = repairer[r].generation
  <2>1. Claims(r)
    BY <1>1, <1>5 DEF Claims, Resting
  <2>2. PICK s, t : s = (IF repairRow.queued # 0 THEN "pending" ELSE repairer[r].outcome)
                    /\ t = Larger(repairRow.target, repairRow.queued)
    OBVIOUS
  <2>3. repairRow' = [repairRow EXCEPT !.state = s, !.target = t, !.queued = 0]
    BY <1>5, <2>2 DEF Settle, Progress
  <2>4. repairRow \in RepairRows
    BY <1>1 DEF RepairTyped
  <2>5. repairRow' = [state |-> s, generation |-> repairRow.generation, target |-> t, queued |-> 0]
    <3>1. ASSUME NEW v \in RepairRows, NEW w, w = [v EXCEPT !.state = s, !.target = t, !.queued = 0]
          PROVE  w = [state |-> s, generation |-> v.generation, target |-> t, queued |-> 0]
      BY <3>1 DEF RepairRows
    <3> QED  BY <2>3, <2>4, <3>1
  <2>6. s \in {"idle", "pending", "waiting"} /\ t \in {repairRow.target, repairRow.queued}
        /\ t \in Stamps /\ repairRow.target <= t /\ Larger(t, 0) = t
    BY <1>1, <2>2, <2>4, LargerTyped DEF RepairRows, SettleRuns
  <2>7. RepairTyped' /\ \A q \in Repairers : q # r => repairer'[q] = repairer[q]
    <3>1. repairRow' \in RepairRows
      BY <2>4, <2>5, <2>6, RepairAssumption DEF RepairRows, States, Stamps
    <3> QED  BY <1>1, <1>2, <1>3, <3>1, RunMoves DEF RepairTyped
  <2>8. \A q \in Repairers : q # r => ~Claims(q)
    BY <2>1 DEF RepairInv, ClaimInv
  <2>9. \A q \in Repairers : repairer'[q] # Resting => repairer'[q].generation # repairRow'.generation
    BY <1>1, <1>2, <1>3, <2>5, <2>7, <2>8, RunMoves DEF Claims
  <2>10. repairRow.state = "running"
    BY <2>1 DEF RepairInv, ClaimInv
  <2>11. StampInv'
    <3>1. repairRow.generation # 0 /\ repairRow.target # 0
      BY <2>10 DEF RepairInv, StampInv
    <3>2. \A q \in Repairers : repairer'[q] # Resting => repairer'[q] = repairer[q]
      BY <1>1, <1>3, <1>2, <2>7, RunMoves
    <3>3. repairRow'.target # 0 /\ repairRow'.target <= stamp /\ 0 <= stamp
      BY <1>1, <2>4, <2>5, <2>6, <3>1, RepairAssumption DEF RepairInv, StampInv, RepairRows, Stamps, RepairTyped
    <3> QED  BY <1>2, <2>5, <3>1, <3>2, <3>3 DEF RepairInv, StampInv
  <2>12. RestInv'
    <3>1. s = "idle" => UnpricedEvents = {}
      BY <1>1, <2>1, <2>2 DEF RepairInv, KnowsInv, Knows
    <3>2. \A e \in UnpricedEvents : eventTs[e] < t
      BY <2>2, <2>10 DEF RepairInv, RestInv
    <3> QED  BY <1>2, <1>3, <2>5, <2>6, <3>1, <3>2 DEF RestInv
  <2> QED  BY <2>7, <2>9, <2>11, <2>12, NoHolder DEF RepairInv
<1> QED  BY <1>4, <1>5

(* A row whose run fails, as every row that does not rest, is claimed      *)
(* again.                                                                  *)
LEMMA FailRepairKeeps ==
    ASSUME RepairInv, NEW r \in Repairers, FailRepair(r)
    PROVE  RepairInv'
<1>1. RepairTyped /\ repairer[r] \in RepairRunStates /\ repairer[r] # Resting
  BY RunFields DEF RepairInv, RepairTyped, FailRepair
<1>2. repairer' = [repairer EXCEPT ![r] = Resting]
      /\ UNCHANGED <<stamp, sync, eventTs, lateEvent, replays>>
  BY DEF FailRepair
<1>3. Resting \in RepairRunStates /\ UnpricedEvents' = UnpricedEvents
  BY <1>2 DEF RepairRunStates, UnpricedEvents
<1>4. CASE repairRow.generation # repairer[r].generation
  BY <1>1, <1>2, <1>3, <1>4, RepairRunStep DEF RepairTyped, FailRepair
<1>5. CASE repairRow.generation = repairer[r].generation
  <2>1. Claims(r)
    BY <1>1, <1>5 DEF Claims
  <2>2. repairRow \in RepairRows /\ repairRow.state = "running"
    BY <1>1, <2>1 DEF RepairTyped, RepairInv, ClaimInv
  <2>3. repairRow' = [state |-> "failed", generation |-> repairRow.generation,
                      target |-> repairRow.target, queued |-> repairRow.queued]
    BY <1>5, <2>2, RowFields DEF FailRepair
  <2>4. RepairTyped' /\ \A q \in Repairers : q # r => repairer'[q] = repairer[q]
    <3>1. repairRow' \in RepairRows
      BY <2>2, <2>3 DEF RepairRows, States
    <3> QED  BY <1>1, <1>2, <1>3, <3>1, RunMoves DEF RepairTyped
  <2>5. \A q \in Repairers : q # r => ~Claims(q)
    BY <2>1 DEF RepairInv, ClaimInv
  <2>6. \A q \in Repairers : repairer'[q] # Resting => repairer'[q].generation # repairRow'.generation
    BY <1>1, <1>2, <1>3, <2>3, <2>4, <2>5, RunMoves DEF Claims
  <2>7. StampInv'
    <3>1. \A q \in Repairers : repairer'[q] # Resting => repairer'[q] = repairer[q]
      BY <1>1, <1>3, <1>2, <2>4, RunMoves
    <3> QED  BY <1>2, <2>2, <2>3, <3>1 DEF RepairInv, StampInv
  <2>8. RestInv'
    BY <1>2, <1>3, <2>2, <2>3 DEF RepairInv, RestInv
  <2> QED  BY <2>4, <2>6, <2>7, <2>8, NoHolder DEF RepairInv
<1> QED  BY <1>4, <1>5

-----------------------------------------------------------------------------
(* A row that gets the next stamp as its generation and target is held by  *)
(* no run and reaches every event that has arrived.                        *)
LEMMA FreshRow ==
    ASSUME RepairInv, stamp < MaxStamps, stamp' = stamp + 1, UNCHANGED <<sync, replays>>,
           NEW queued \in Stamps, queued <= stamp + 1,
           repairRow' = [state |-> "pending", generation |-> stamp + 1, target |-> stamp + 1, queued |-> queued],
           repairer' \in [Repairers -> RepairRunStates],
           \A q \in Repairers : repairer'[q] # Resting =>
              repairer[q] # Resting /\ repairer'[q].generation = repairer[q].generation,
           lateEvent' \in [LateEvents -> {"none", "unpriced", "priced"}], eventTs' \in [LateEvents -> Nat],
           \A e \in LateEvents : lateEvent'[e] # "none" =>
              eventTs'[e] <= stamp /\ (sync # 0 => eventTs'[e] < sync)
    PROVE  RepairInv'
<1>1. /\ stamp \in Nat /\ sync \in Nat /\ sync <= stamp /\ stamp + 1 \in Stamps /\ MaxStamps \in Nat
      /\ replays \in 0 .. MaxReplays /\ queued \in Nat
  BY RepairAssumption DEF RepairInv, RepairTyped, Stamps
<1>2. RepairTyped'
  <2>1. repairRow' \in RepairRows
    BY <1>1 DEF RepairRows, States
  <2> QED  BY <1>1, <2>1 DEF RepairTyped, Stamps
<1>3. \A q \in Repairers : repairer[q] # Resting =>
         /\ repairer[q].generation \in Nat /\ repairer[q].generation <= stamp
         /\ sync # 0 => repairer[q].generation # sync
  <2>1. \A q \in Repairers : repairer[q] # Resting => repairer[q].generation \in Stamps
    BY RunFields DEF RepairInv, RepairTyped
  <2> QED  BY <1>1, <2>1 DEF RepairInv, StampInv, Stamps
<1>4. StampInv'
  <2>1. \A q \in Repairers : repairer'[q] # Resting =>
           repairer'[q].generation <= stamp + 1 /\ (sync # 0 => repairer'[q].generation # sync)
    BY <1>1, <1>3
  <2>2. \A e \in LateEvents : lateEvent'[e] # "none" =>
           eventTs'[e] <= stamp + 1 /\ (sync # 0 => eventTs'[e] < sync)
    BY <1>1
  <2> QED  BY <1>1, <2>1, <2>2 DEF StampInv
<1>5. \A q \in Repairers : repairer'[q] # Resting => repairer'[q].generation # repairRow'.generation
  BY <1>1, <1>3
<1>6. RestInv'
  <2>1. \A e \in LateEvents : lateEvent'[e] = "unpriced" => eventTs'[e] < stamp + 1
    BY <1>1
  <2>2. Larger(stamp + 1, queued) = stamp + 1
    BY <1>1 DEF Larger
  <2> QED  BY <2>1, <2>2 DEF RestInv, UnpricedEvents
<1> QED  BY <1>2, <1>4, <1>5, <1>6, NoHolder DEF RepairInv

(* The history is asked for prices, and restarts the row when it has some. *)
LEMMA HistoryStepKeeps ==
    ASSUME RepairInv, NEW r \in Repairers, HistoryStep(r)
    PROVE  RepairInv'
<1>1. RepairTyped /\ repairer[r] \in RepairRunStates /\ repairer[r] \in SettleRuns /\ repairer[r] # Resting
  BY RunFields DEF RepairInv, RepairTyped, HistoryStep
<1>2. ASSUME NEW v \in SettleRuns, NEW w, w = [v EXCEPT !.outcome = "pending"]
      PROVE  w = [pc |-> "settle", generation |-> v.generation, outcome |-> "pending"]
  BY <1>2 DEF SettleRuns
<1>3. PICK n : n = [repairer[r] EXCEPT !.outcome = "pending"]
  OBVIOUS
<1>4. n = [pc |-> "settle", generation |-> repairer[r].generation, outcome |-> "pending"]
  BY <1>1, <1>2, <1>3
<1>5. n \in RepairRunStates /\ n.generation = repairer[r].generation
  BY <1>1, <1>4 DEF RepairRunStates, SettleRuns
<1>6. repairer' = [repairer EXCEPT ![r] = n] /\ UNCHANGED <<lateEvent, eventTs, replays, sync>>
  BY <1>3 DEF HistoryStep
<1>7. /\ repairer' \in [Repairers -> RepairRunStates] /\ repairer'[r] = n
      /\ \A q \in Repairers : q # r => repairer'[q] = repairer[q]
  BY <1>1, <1>5, <1>6, RunMoves
<1>8. UnpricedEvents' = UnpricedEvents
  BY <1>6 DEF UnpricedEvents
<1>9. CASE UNCHANGED <<repairRow, stamp, priceList>>
  <2>1. Knows(r)'
    BY <1>4, <1>7 DEF Knows
  <2> QED  BY <1>1, <1>5, <1>6, <1>8, <1>9, <2>1, RepairRunStep DEF RepairTyped
<1>10. CASE stamp < MaxStamps /\ stamp' = stamp + 1 /\ repairRow' = Restart(repairRow, stamp')
  <2>1. repairRow \in RepairRows /\ repairRow.queued \in Stamps /\ repairRow.queued <= stamp + 1
    BY <1>1, RepairAssumption DEF RepairInv, RepairTyped, RepairRows, StampInv, Stamps
  <2>2. repairRow' = [state |-> "pending", generation |-> stamp + 1, target |-> stamp + 1, queued |-> repairRow.queued]
    BY <1>10, <2>1, RestartFields
  <2>3. \A q \in Repairers : repairer'[q] # Resting =>
           repairer[q] # Resting /\ repairer'[q].generation = repairer[q].generation
    BY <1>1, <1>5, <1>7
  <2>4. \A e \in LateEvents : lateEvent'[e] # "none" =>
           eventTs'[e] <= stamp /\ (sync # 0 => eventTs'[e] < sync)
    BY <1>6 DEF RepairInv, StampInv
  <2> QED  BY <1>1, <1>6, <1>7, <1>10, <2>1, <2>2, <2>3, <2>4, FreshRow DEF RepairTyped
<1> QED  BY <1>9, <1>10 DEF HistoryStep

(* A delivery starts a row at rest, and is queued behind any other.        *)
LEMMA DeliverUnpricedKeeps ==
    ASSUME ~FastEvents, RepairInv, NEW d \in LateEvents, NEW ts \in 0 .. MaxStamps, DeliverUnpriced(d, ts)
    PROVE  RepairInv'
<1>1. RepairTyped /\ repairRow \in RepairRows /\ stamp \in Nat /\ sync \in Nat /\ sync <= stamp
      /\ ts \in Nat /\ stamp + 1 \in Stamps
  BY RepairAssumption DEF RepairInv, RepairTyped, Stamps, DeliverUnpriced
<1>2. /\ lateEvent[d] = "none" /\ stamp < MaxStamps /\ ts <= stamp /\ (sync # 0 => ts < sync)
      /\ stamp' = stamp + 1 /\ UNCHANGED <<replays, sync, repairer>>
      /\ lateEvent' = [lateEvent EXCEPT ![d] = "unpriced"] /\ eventTs' = [eventTs EXCEPT ![d] = ts]
      /\ repairRow' = EnqueueRepair(repairRow, stamp + 1)
  BY DEF DeliverUnpriced
<1>3. lateEvent' \in [LateEvents -> {"none", "unpriced", "priced"}] /\ eventTs' \in [LateEvents -> Nat]
  BY <1>1, <1>2 DEF RepairTyped
<1>4. \A e \in LateEvents : lateEvent'[e] # "none" =>
         eventTs'[e] <= stamp /\ (sync # 0 => eventTs'[e] < sync)
  BY <1>1, <1>2 DEF RepairInv, StampInv, RepairTyped
<1>5. repairer' \in [Repairers -> RepairRunStates] /\ repairer' = repairer
  BY <1>1, <1>2 DEF RepairTyped
<1>6. CASE repairRow.state = "idle" \/ repairRow.generation = 0 \/ repairRow.target = 0
  <2>1. repairRow' = [state |-> "pending", generation |-> stamp + 1, target |-> stamp + 1, queued |-> 0]
    BY <1>2, <1>6 DEF EnqueueRepair
  <2>2. 0 \in Stamps /\ 0 <= stamp + 1
    BY <1>1, RepairAssumption DEF Stamps
  <2> QED  BY <1>2, <1>3, <1>4, <1>5, <2>1, <2>2, FreshRow
<1>7. CASE repairRow.state # "idle" /\ repairRow.generation # 0 /\ repairRow.target # 0
  <2>1. repairRow' = [state |-> repairRow.state, generation |-> repairRow.generation,
                      target |-> repairRow.target, queued |-> stamp + 1]
    BY <1>1, <1>2, <1>7, RowFields DEF EnqueueRepair
  <2>2. repairRow' \in RepairRows
    BY <1>1, <2>1 DEF RepairRows
  <2>3. RepairTyped'
    BY <1>1, <1>2, <1>3, <1>5, <2>2 DEF RepairTyped, Stamps
  <2>4. StampInv'
    <3>1. repairRow.generation <= stamp + 1 /\ repairRow.target <= stamp + 1
      BY <1>1 DEF RepairInv, StampInv, RepairRows, Stamps
    <3>2. \A q \in Repairers : repairer[q] # Resting => repairer[q].generation <= stamp + 1
      <4>1. \A q \in Repairers : repairer[q] # Resting => repairer[q].generation \in Nat
        BY <1>1, RunFields DEF RepairTyped, Stamps
      <4> QED  BY <1>1, <4>1 DEF RepairInv, StampInv
    <3>3. \A e \in LateEvents : lateEvent'[e] # "none" =>
             eventTs'[e] <= stamp + 1 /\ (sync # 0 => eventTs'[e] < sync)
      BY <1>1, <1>3, <1>4
    <3> QED  BY <1>1, <1>2, <1>5, <1>7, <2>1, <3>1, <3>2, <3>3 DEF RepairInv, StampInv
  <2>5. ClaimInv'
    BY <1>5, <2>1 DEF RepairInv, ClaimInv, Claims
  <2>6. RestInv'
    <3>1. \A e \in LateEvents : lateEvent'[e] = "unpriced" => eventTs'[e] < stamp + 1
      BY <1>1, <1>3, <1>4
    <3>2. Larger(repairRow.target, stamp + 1) = stamp + 1
      BY <1>1 DEF RepairInv, StampInv, Larger, RepairRows, Stamps
    <3> QED  BY <1>7, <2>1, <3>1, <3>2 DEF RestInv, UnpricedEvents
  <2>7. KnowsInv'
    BY <1>1, <2>1 DEF KnowsInv
  <2> QED  BY <2>3, <2>4, <2>5, <2>6, <2>7 DEF RepairInv
<1> QED  BY <1>6, <1>7

(* The catalog sync reads the clock: every event that has arrived is older, *)
(* and so is every generation.                                             *)
LEMMA SyncFetchKeeps ==
    ASSUME RepairInv, SyncFetch
    PROVE  RepairInv'
<1>1. /\ RepairTyped /\ stamp \in Nat /\ stamp + 1 \in Stamps /\ stamp + 1 # 0
      /\ repairRow \in RepairRows
  BY RepairAssumption DEF RepairInv, RepairTyped, Stamps, SyncFetch
<1>2. stamp' = stamp + 1 /\ sync' = stamp + 1 /\ UNCHANGED <<repairRow, lateEvent, eventTs, replays, repairer>>
  BY DEF SyncFetch
<1>3. RepairTyped'
  BY <1>1, <1>2 DEF RepairTyped, Stamps
<1>4. \A q \in Repairers : repairer[q] # Resting =>
         repairer[q].generation <= stamp + 1 /\ repairer[q].generation # stamp + 1
  <2>1. \A q \in Repairers : repairer[q] # Resting => repairer[q].generation \in Nat
    BY <1>1, RunFields DEF RepairTyped, Stamps
  <2> QED  BY <1>1, <2>1 DEF RepairInv, StampInv
<1>5. \A e \in LateEvents : lateEvent[e] # "none" => eventTs[e] <= stamp + 1 /\ eventTs[e] < stamp + 1
  <2>1. \A e \in LateEvents : eventTs[e] \in Nat
    BY <1>1 DEF RepairTyped
  <2> QED  BY <1>1, <2>1 DEF RepairInv, StampInv
<1>6. /\ repairRow.generation <= stamp + 1 /\ repairRow.target <= stamp + 1 /\ repairRow.queued <= stamp + 1
      /\ repairRow.generation # stamp + 1
  BY <1>1 DEF RepairInv, StampInv, RepairRows, Stamps
<1>7. StampInv'
  BY <1>2, <1>4, <1>5, <1>6 DEF RepairInv, StampInv
<1>8. ClaimInv' /\ RestInv' /\ KnowsInv'
  BY <1>2 DEF RepairInv, ClaimInv, RestInv, KnowsInv, Knows, Claims, UnpricedEvents
<1> QED  BY <1>3, <1>7, <1>8 DEF RepairInv

(* It commits with the stamp it read, which no run has, and which is later *)
(* than every event: one that came since is older all the same.            *)
LEMMA SyncCommitKeeps ==
    ASSUME RepairInv, NEW models \in SUBSET AllModels, SyncCommit(models)
    PROVE  RepairInv'
<1>1. /\ RepairTyped /\ sync # 0 /\ stamp \in Nat /\ sync \in Nat /\ sync <= stamp /\ sync \in Stamps
      /\ repairRow \in RepairRows
  BY RepairAssumption DEF RepairInv, RepairTyped, Stamps, SyncCommit
<1>2. sync' = 0 /\ UNCHANGED <<stamp, lateEvent, eventTs, replays, repairer>>
  BY DEF SyncCommit
<1>3. repairRow' = [state |-> "pending", generation |-> sync, target |-> sync, queued |-> repairRow.queued]
  BY <1>1, RestartFields DEF SyncCommit
<1>4. RepairTyped'
  <2>1. repairRow' \in RepairRows
    BY <1>1, <1>3 DEF RepairRows, States
  <2> QED  BY <1>1, <1>2, <2>1 DEF RepairTyped
<1>5. StampInv'
  BY <1>1, <1>2, <1>3 DEF RepairInv, StampInv
<1>6. \A q \in Repairers : repairer'[q] # Resting => repairer'[q].generation # repairRow'.generation
  BY <1>1, <1>2, <1>3 DEF RepairInv, StampInv
<1>7. RestInv'
  <2>1. \A e \in UnpricedEvents : eventTs[e] \in Nat /\ eventTs[e] < sync
    BY <1>1 DEF RepairInv, StampInv, UnpricedEvents, RepairTyped
  <2>2. sync <= Larger(sync, repairRow.queued) /\ Larger(sync, repairRow.queued) \in Nat
    BY <1>1, LargerTyped DEF RepairRows, Stamps
  <2>3. \A e \in UnpricedEvents : eventTs[e] < Larger(sync, repairRow.queued)
    BY <1>1, <2>1, <2>2
  <2> QED  BY <1>2, <1>3, <2>3 DEF RestInv, UnpricedEvents
<1> QED  BY <1>4, <1>5, <1>6, <1>7, NoHolder DEF RepairInv

(* A run claims a row that nobody holds and takes its whole reach along.   *)
LEMMA ClaimRepairKeeps ==
    ASSUME ~SlowRepair, RepairInv, NEW r \in Repairers, ClaimRepair(r)
    PROVE  RepairInv'
<1>1. /\ RepairTyped /\ repairRow \in RepairRows /\ repairRow.generation # 0 /\ repairRow.target # 0
      /\ repairRow.state # "idle"
  BY DEF RepairInv, RepairTyped, ClaimRepair, Stale
<1>2. PICK t : t = Larger(repairRow.target, repairRow.queued)
  OBVIOUS
<1>3. t \in Stamps /\ t # 0 /\ t <= stamp /\ Larger(t, 0) = t
  <2>1. repairRow.target \in Stamps /\ repairRow.queued \in Stamps
    BY <1>1 DEF RepairRows
  <2>2. t \in {repairRow.target, repairRow.queued} /\ repairRow.target <= t
    BY <1>2, <2>1, LargerTyped
  <2>3. t \in Stamps
    BY <2>1, <2>2
  <2> QED  BY <1>1, <2>1, <2>2, <2>3, LargerTyped, RepairAssumption DEF RepairInv, StampInv, Stamps
<1>4. repairRow' = [state |-> "running", generation |-> repairRow.generation, target |-> t, queued |-> 0]
  <2>1. ASSUME NEW v \in RepairRows, NEW w, w = [v EXCEPT !.state = "running", !.target = t, !.queued = 0]
        PROVE  w = [state |-> "running", generation |-> v.generation, target |-> t, queued |-> 0]
    BY <2>1 DEF RepairRows
  <2>2. repairRow' = [repairRow EXCEPT !.state = "running", !.target = t, !.queued = 0]
    BY <1>2 DEF ClaimRepair
  <2> QED  BY <1>1, <2>1, <2>2
<1>5. PICK n : n = [pc |-> "claimed", generation |-> repairRow.generation, target |-> t]
  OBVIOUS
<1>6. n \in RepairRunStates /\ n.generation = repairRow.generation /\ n.pc = "claimed" /\ n.target = t
  BY <1>1, <1>3, <1>5 DEF RepairRunStates, ClaimedRuns, RepairRows
<1>7. repairer' = [repairer EXCEPT ![r] = n] /\ UNCHANGED <<stamp, lateEvent, eventTs, replays, sync>>
  <2>1. repairRow'.target = t
    BY <1>4
  <2>2. n = [pc |-> "claimed", generation |-> repairRow.generation, target |-> repairRow'.target]
    BY <1>5, <2>1
  <2> QED  BY <2>2 DEF ClaimRepair
<1>8. /\ repairer' \in [Repairers -> RepairRunStates] /\ repairer'[r] = n
      /\ \A q \in Repairers : q # r => repairer'[q] = repairer[q]
  BY <1>1, <1>6, <1>7, RunMoves
<1>9. \A q \in Repairers : ~Claims(q)
  <2>1. CASE repairRow.state \in {"pending", "failed", "waiting"}
    BY <2>1 DEF RepairInv, ClaimInv
  <2>2. CASE Stale
    BY <2>2 DEF Stale, Claims
  <2> QED  BY <2>1, <2>2 DEF ClaimRepair
<1>10. \A q \in Repairers : Claims(q)' => q = r
  BY <1>4, <1>8, <1>9 DEF Claims
<1>11. RepairTyped'
  <2>1. repairRow' \in RepairRows
    BY <1>1, <1>3, <1>4, RepairAssumption DEF RepairRows, States, Stamps
  <2> QED  BY <1>1, <1>7, <1>8, <2>1 DEF RepairTyped
<1>12. StampInv'
  <2>1. 0 <= stamp
    BY <1>1, RepairAssumption DEF RepairTyped, Stamps
  <2>2. \A q \in Repairers : repairer'[q] # Resting =>
           repairer'[q].generation <= stamp /\ (sync # 0 => repairer'[q].generation # sync)
    BY <1>6, <1>8 DEF RepairInv, StampInv
  <2> QED  BY <1>1, <1>3, <1>4, <1>7, <2>1, <2>2 DEF RepairInv, StampInv
<1>13. ClaimInv'
  BY <1>4, <1>10 DEF ClaimInv
<1>14. UnpricedEvents' = UnpricedEvents /\ \A e \in UnpricedEvents : eventTs[e] < t
  BY <1>1, <1>2, <1>7 DEF UnpricedEvents, RepairInv, RestInv
<1>15. RestInv'
  BY <1>3, <1>4, <1>7, <1>14 DEF RestInv
<1>16. KnowsInv'
  <2>1. Knows(r)'
    BY <1>6, <1>7, <1>8, <1>14 DEF Knows
  <2> QED  BY <1>10, <2>1 DEF KnowsInv
<1> QED  BY <1>11, <1>12, <1>13, <1>15, <1>16 DEF RepairInv

-----------------------------------------------------------------------------
(* The invariant holds at the start ...                                    *)
LEMMA RepairInvInit == RepairInit => RepairInv
<1> SUFFICES ASSUME RepairInit  PROVE RepairInv
  OBVIOUS
<1>1. RepairTyped
  BY RepairAssumption DEF RepairInit, RepairTyped, RepairRows, States, Stamps, RepairRunStates
<1>2. UnpricedEvents = {} /\ \A r \in Repairers : repairer[r] = Resting
  BY DEF RepairInit, UnpricedEvents
<1> QED  BY <1>1, <1>2 DEF RepairInit, RepairInv, StampInv, ClaimInv, RestInv, KnowsInv, Claims

(* ... and every step keeps it, when no run outlives its claim and no      *)
(* event comes in that is later than the sync under way.                   *)
LEMMA RepairInvNext ==
    ASSUME ~SlowRepair, ~FastEvents, RepairInv, [RepairNext]_repairVars
    PROVE  RepairInv'
<1>1. CASE UNCHANGED repairVars
  BY <1>1 DEF repairVars, RepairInv, RepairTyped, StampInv, ClaimInv, RestInv, KnowsInv, Knows, Claims, UnpricedEvents
<1>2. ASSUME NEW e \in LateEvents, NEW ts \in 0 .. MaxStamps, DeliverUnpriced(e, ts)  PROVE RepairInv'
  BY <1>2, DeliverUnpricedKeeps
<1>3. CASE SyncFetch
  BY <1>3, SyncFetchKeeps
<1>4. ASSUME NEW models \in SUBSET AllModels, SyncCommit(models)  PROVE RepairInv'
  BY <1>4, SyncCommitKeeps
<1>5. ASSUME NEW r \in Repairers,
             \/ ClaimRepair(r) \/ Replay(r) \/ Diagnose(r) \/ Repair(r) \/ HistoryStep(r)
             \/ Settle(r) \/ FailRepair(r) \/ DieRepair(r)
      PROVE  RepairInv'
  BY <1>5, ClaimRepairKeeps, ReplayKeeps, DiagnoseKeeps, RepairKeeps, HistoryStepKeeps,
     SettleKeeps, FailRepairKeeps, DieRepairKeeps
<1> QED  BY <1>1, <1>2, <1>3, <1>4, <1>5 DEF RepairNext

(* The row rests only when every delivered event has a price, for any      *)
(* events, processes and batch limit: a request that comes during a run,   *)
(* a catalog sync that commits late and a run that is overtaken by either  *)
(* cannot make it rest (markProgress, enqueue_pricing_repair). No run may  *)
(* outlive the five minutes of its claim, and no event may happen and      *)
(* arrive within a catalog sync.                                           *)
THEOREM RestsOnlyRepaired ==
    ASSUME ~SlowRepair, ~FastEvents
    PROVE  RepairSpec => []IdleMeansRepaired
<1>1. RepairInv => IdleMeansRepaired
  BY DEF RepairInv, RestInv, IdleMeansRepaired, UnpricedEvents
<1>2. RepairInv /\ [RepairNext]_repairVars => RepairInv'
  BY RepairInvNext
<1> QED  BY <1>1, <1>2, RepairInvInit, PTL DEF RepairSpec

-----------------------------------------------------------------------------
(* The types need neither: a run that outlives its claim and an event that *)
(* comes in during a catalog sync leave the row, the clock and the runs    *)
(* what they are.                                                          *)
LEMMA RepairTypedNext == RepairTyped /\ [RepairNext]_repairVars => RepairTyped'
<1> SUFFICES ASSUME RepairTyped, [RepairNext]_repairVars  PROVE RepairTyped'
  OBVIOUS
<1>1. /\ repairRow \in RepairRows /\ stamp \in Stamps /\ Stamps \subseteq Nat /\ 0 \in Stamps
      /\ sync \in 0..stamp /\ \A n \in 0..stamp : n \in Stamps
  BY RepairAssumption DEF RepairTyped, Stamps
<1>2. \A row \in RepairRows : row.generation \in Stamps /\ row.target \in Stamps /\ row.queued \in Stamps
  BY DEF RepairRows
<1>3. \A s \in States, g, t, q \in Stamps :
         [state |-> s, generation |-> g, target |-> t, queued |-> q] \in RepairRows
  BY DEF RepairRows
<1>4. ASSUME NEW at \in Stamps  PROVE Restart(repairRow, at) \in RepairRows
  <2>1. Restart(repairRow, at) = [state |-> "pending", generation |-> at, target |-> at, queued |-> repairRow.queued]
    BY <1>1, RestartFields
  <2>2. "pending" \in States
    BY DEF States
  <2> QED  BY <1>1, <1>2, <1>3, <2>1, <2>2
<1>5. CASE \E e \in LateEvents, ts \in 0 .. MaxStamps : DeliverUnpriced(e, ts)
  <2>1. PICK e \in LateEvents, ts \in 0 .. MaxStamps : DeliverUnpriced(e, ts)
    BY <1>5
  <2>2. stamp' = stamp + 1 /\ stamp + 1 \in Stamps /\ ts \in Nat /\ UNCHANGED <<replays, sync, repairer>>
        /\ lateEvent' = [lateEvent EXCEPT ![e] = "unpriced"] /\ eventTs' = [eventTs EXCEPT ![e] = ts]
        /\ repairRow' = EnqueueRepair(repairRow, stamp + 1)
    BY <2>1, RepairAssumption, <1>1 DEF DeliverUnpriced, Stamps
  <2>3. repairRow' \in RepairRows
    <3>1. [repairRow EXCEPT !.queued = stamp + 1] \in RepairRows
      BY <1>1, <2>2 DEF RepairRows
    <3>2. [state |-> "pending", generation |-> stamp + 1, target |-> stamp + 1, queued |-> 0] \in RepairRows
      BY <1>1, <1>3, <2>2 DEF States
    <3> QED  BY <2>2, <3>1, <3>2 DEF EnqueueRepair
  <2>4. sync \in 0..(stamp + 1)
    BY <1>1
  <2>5. lateEvent' \in [LateEvents -> {"none", "unpriced", "priced"}] /\ eventTs' \in [LateEvents -> Nat]
    BY <2>2 DEF RepairTyped
  <2> QED  BY <2>2, <2>3, <2>4, <2>5 DEF RepairTyped
<1>6. CASE SyncFetch
  BY <1>1, <1>6, RepairAssumption DEF SyncFetch, RepairTyped, Stamps
<1>7. CASE \E models \in SUBSET AllModels : SyncCommit(models)
  <2>1. repairRow' = Restart(repairRow, sync) /\ sync' = 0
        /\ UNCHANGED <<stamp, lateEvent, eventTs, replays, repairer>>
    BY <1>7 DEF SyncCommit
  <2>2. repairRow' \in RepairRows /\ 0 \in 0..stamp
    BY <1>1, <1>4, <2>1
  <2> QED  BY <2>1, <2>2 DEF RepairTyped
<1>8. ASSUME NEW r \in Repairers, NEW n \in RepairRunStates, repairer' = [repairer EXCEPT ![r] = n],
             repairRow' \in RepairRows,
             stamp' = stamp \/ (stamp' = stamp + 1 /\ stamp < MaxStamps), sync' = sync,
             replays' \in 0 .. MaxReplays, eventTs' = eventTs,
             lateEvent' \in [LateEvents -> {"none", "unpriced", "priced"}]
      PROVE  RepairTyped'
  <2>1. stamp' \in Stamps /\ sync' \in 0..stamp'
    BY <1>1, <1>8, RepairAssumption DEF Stamps
  <2>2. repairer' \in [Repairers -> RepairRunStates]
    BY <1>8, RunMoves
  <2> QED  BY <1>8, <2>1, <2>2 DEF RepairTyped
<1>9. /\ replays \in 0 .. MaxReplays /\ (IF replays > 0 THEN replays - 1 ELSE 0) \in 0 .. MaxReplays
      /\ lateEvent \in [LateEvents -> {"none", "unpriced", "priced"}]
  BY RepairAssumption DEF RepairTyped
<1>10. Resting \in RepairRunStates
  BY DEF RepairRunStates
<1>11. ASSUME NEW r \in Repairers, ClaimRepair(r)  PROVE RepairTyped'
  <2> DEFINE t == Larger(repairRow.target, repairRow.queued)
             n == [pc |-> "claimed", generation |-> repairRow.generation, target |-> repairRow'.target]
  <2>1. t \in Stamps
    BY <1>1, <1>2, LargerTyped
  <2>2. repairRow' = [repairRow EXCEPT !.state = "running", !.target = t, !.queued = 0]
    BY <1>11 DEF ClaimRepair
  <2> HIDE DEF t
  <2>3. repairRow' \in RepairRows
    BY <1>1, <2>1, <2>2 DEF RepairRows, States
  <2>4. n \in RepairRunStates
    BY <1>1, <1>2, <2>3 DEF RepairRunStates, ClaimedRuns
  <2>5. repairer' = [repairer EXCEPT ![r] = n] /\ UNCHANGED <<stamp, lateEvent, eventTs, replays, sync>>
    BY <1>11 DEF ClaimRepair
  <2> HIDE DEF n
  <2> QED  BY <1>8, <1>9, <2>3, <2>4, <2>5
<1>12. ASSUME NEW r \in Repairers, Replay(r)  PROVE RepairTyped'
  <2>1. repairer[r] \in ClaimedRuns
    BY <1>12, RunFields DEF RepairTyped, Replay
  <2>2. To(r, "diagnose") \in RepairRunStates /\ Settling(r, "pending") \in RepairRunStates
    BY <2>1 DEF To, Settling, RepairRunStates, ClaimedRuns, SettleRuns
  <2>3. \E n \in RepairRunStates : repairer' = [repairer EXCEPT ![r] = n]
    BY <1>12, <2>2 DEF Replay
  <2>4. UNCHANGED <<repairRow, stamp, lateEvent, eventTs, sync>> /\ replays' \in 0 .. MaxReplays
    BY <1>9, <1>12 DEF Replay
  <2> QED  BY <1>1, <1>8, <1>9, <2>3, <2>4
<1>13. ASSUME NEW r \in Repairers, Diagnose(r)  PROVE RepairTyped'
  <2> DEFINE n == [pc |-> "repair", generation |-> repairer[r].generation, target |-> repairer[r].target,
                   found |-> Missing(repairer[r].target),
                   models |-> {EventModel[e] : e \in Missing(repairer[r].target)} \intersect priceList]
  <2>1. repairer[r] \in ClaimedRuns
    BY <1>13, RunFields DEF RepairTyped, Diagnose
  <2>2. Missing(repairer[r].target) \subseteq LateEvents
        /\ {EventModel[e] : e \in Missing(repairer[r].target)} \subseteq AllModels
    BY DEF Missing, AllModels
  <2>3. n \in RepairRunStates
    BY <2>1, <2>2 DEF RepairRunStates, RepairRuns, ClaimedRuns
  <2>4. repairer' = [repairer EXCEPT ![r] = n] /\ UNCHANGED <<repairRow, stamp, lateEvent, eventTs, replays, sync>>
    BY <1>13 DEF Diagnose
  <2> HIDE DEF n
  <2> QED  BY <1>1, <1>8, <1>9, <2>3, <2>4
<1>14. ASSUME NEW r \in Repairers, Repair(r)  PROVE RepairTyped'
  <2> DEFINE me == repairer[r]
             found == {e \in Missing(me.target) : EventModel[e] \in me.models}
  <2>1. PICK batch \in SUBSET found :
            /\ lateEvent' = [e \in LateEvents |-> IF e \in batch THEN "priced" ELSE lateEvent[e]]
            /\ \E outcome \in Outcomes(me.found, batch, batch # found) :
                  repairer' = [repairer EXCEPT ![r] = Settling(r, outcome)]
    BY Zenon, <1>14 DEF Repair
  <2>2. PICK outcome \in {"idle", "pending", "waiting"} : repairer' = [repairer EXCEPT ![r] = Settling(r, outcome)]
    BY <2>1 DEF Outcomes
  <2>3. repairer[r] \in RepairRuns
    BY <1>14, RunFields DEF RepairTyped, Repair
  <2>4. Settling(r, outcome) \in RepairRunStates
    BY <2>2, <2>3 DEF Settling, RepairRunStates, RepairRuns, SettleRuns
  <2> HIDE DEF me, found
  <2>5. lateEvent' \in [LateEvents -> {"none", "unpriced", "priced"}]
    BY <1>9, <2>1
  <2>6. UNCHANGED <<repairRow, stamp, eventTs, replays, sync>>
    BY <1>14 DEF Repair
  <2> QED  BY <1>1, <1>8, <1>9, <2>2, <2>4, <2>5, <2>6
<1>15. ASSUME NEW r \in Repairers, HistoryStep(r)  PROVE RepairTyped'
  <2>1. repairer[r] \in SettleRuns
    BY <1>15, RunFields DEF RepairTyped, HistoryStep
  <2>2. [repairer[r] EXCEPT !.outcome = "pending"] \in RepairRunStates
    BY <2>1 DEF RepairRunStates, SettleRuns
  <2>3. \E n \in RepairRunStates : repairer' = [repairer EXCEPT ![r] = n]
    BY <1>15, <2>2 DEF HistoryStep
  <2>4. /\ repairRow' \in RepairRows /\ UNCHANGED <<lateEvent, eventTs, replays, sync>>
        /\ stamp' = stamp \/ (stamp' = stamp + 1 /\ stamp < MaxStamps)
    <3>1. CASE UNCHANGED <<repairRow, stamp, priceList>>
      BY <1>1, <1>15, <3>1 DEF HistoryStep
    <3>2. CASE stamp < MaxStamps /\ stamp' = stamp + 1 /\ repairRow' = Restart(repairRow, stamp')
      <4>1. stamp + 1 \in Stamps
        BY <1>1, <3>2, RepairAssumption DEF Stamps
      <4> QED  BY <1>4, <1>15, <3>2, <4>1 DEF HistoryStep
    <3> QED  BY <1>15, <3>1, <3>2 DEF HistoryStep
  <2> QED  BY <1>8, <1>9, <2>3, <2>4
<1>16. ASSUME NEW r \in Repairers, Settle(r)  PROVE RepairTyped'
  <2>1. repairer[r] \in SettleRuns
    BY <1>16, RunFields DEF RepairTyped, Settle
  <2>2. ASSUME NEW state \in States  PROVE Progress(repairRow, state) \in RepairRows
    <3> DEFINE t == Larger(repairRow.target, repairRow.queued)
               s == IF repairRow.queued # 0 THEN "pending" ELSE state
    <3>1. t \in Stamps /\ s \in States
      BY <1>1, <1>2, LargerTyped DEF States
    <3>2. Progress(repairRow, state) = [repairRow EXCEPT !.state = s, !.target = t, !.queued = 0]
      BY DEF Progress
    <3> HIDE DEF t, s
    <3> QED  BY <1>1, <3>1, <3>2 DEF RepairRows
  <2>3. repairer[r].outcome \in States
    BY <2>1 DEF SettleRuns, States
  <2>4. repairRow' \in RepairRows
    BY <1>1, <1>16, <2>2, <2>3 DEF Settle
  <2>5. repairer' = [repairer EXCEPT ![r] = Resting] /\ UNCHANGED <<stamp, lateEvent, eventTs, replays, sync>>
    BY <1>16 DEF Settle
  <2> QED  BY <1>8, <1>9, <1>10, <2>4, <2>5
<1>17. ASSUME NEW r \in Repairers, FailRepair(r)  PROVE RepairTyped'
  <2>1. repairRow' \in RepairRows
    BY <1>1, <1>17 DEF FailRepair, RepairRows, States
  <2>2. repairer' = [repairer EXCEPT ![r] = Resting] /\ UNCHANGED <<stamp, lateEvent, eventTs, replays, sync>>
    BY <1>17 DEF FailRepair
  <2> QED  BY <1>8, <1>9, <1>10, <2>1, <2>2
<1>18. ASSUME NEW r \in Repairers, DieRepair(r)  PROVE RepairTyped'
  BY <1>1, <1>8, <1>9, <1>10, <1>18 DEF DieRepair
<1>19. CASE UNCHANGED repairVars
  BY <1>19 DEF repairVars, RepairTyped
<1>20. CASE \E r \in Repairers :
              \/ ClaimRepair(r) \/ Replay(r) \/ Diagnose(r) \/ Repair(r) \/ HistoryStep(r)
              \/ Settle(r) \/ FailRepair(r) \/ DieRepair(r)
  BY <1>11, <1>12, <1>13, <1>14, <1>15, <1>16, <1>17, <1>18, <1>20
<1> QED  BY <1>5, <1>6, <1>7, <1>19, <1>20 DEF RepairNext

(* The status row and the runs keep their types, for any events, runs,     *)
(* batch limit and number of requests, slow runs and fast events included  *)
(* (pricing-repair.ts).                                                    *)
THEOREM RepairTypeCorrect == RepairSpec => []RepairTypeOK
<1>1. RepairInit => RepairTyped
  BY RepairInvInit DEF RepairInv
<1>2. RepairTyped => RepairTypeOK
  <2> SUFFICES ASSUME RepairTyped  PROVE RepairTypeOK
    OBVIOUS
  <2>1. \A r \in Repairers : repairer[r].pc \in {"idle", "claimed", "diagnose", "repair", "settle"}
    BY RunFields DEF RepairTyped
  <2> QED  BY <2>1 DEF RepairTyped, RepairTypeOK, RepairRows, States, Stamps
<1> QED  BY <1>1, <1>2, RepairTypedNext, PTL DEF RepairSpec

-----------------------------------------------------------------------------
(***************************************************************************)
(* The recovery of historical prices, of PricingHistory.                   *)
(***************************************************************************)

(* Less-than as a relation. *)
LessThan == {p \in Nat \X Nat : p[1] < p[2]}

(* A nonempty set of natural numbers has a least one. *)
LEMMA MinOf ==
    ASSUME NEW D \in SUBSET Nat, D # {}
    PROVE  Min(D) \in D /\ \A j \in D : Min(D) <= j
<1>1. OpToRel(<, Nat) = LessThan
  BY DEF OpToRel, LessThan
<1>2. IsWellFoundedOn(LessThan, Nat)
  BY <1>1, NatLessThanWellFounded
<1>3. PICK i \in D : \A j \in D : <<j, i>> \notin LessThan
  BY <1>2, WFMin
<1>4. \A j \in D : j < i => <<j, i>> \in LessThan
  BY DEF LessThan
<1>5. \A j \in D : ~(j < i)
  BY <1>3, <1>4
<1>6. \A j \in D : i <= j
  BY <1>5
<1> QED  BY <1>6 DEF Min

(* A nonempty set of natural numbers with a bound has a greatest one. *)
LEMMA MaxOf ==
    ASSUME NEW D \in SUBSET Nat, D # {}, NEW n \in Nat, \A d \in D : d <= n
    PROVE  Max(D) \in D /\ \A j \in D : j <= Max(D)
<1> DEFINE U == {u \in Nat : \A d \in D : d <= u}
<1>1. U \in SUBSET Nat /\ U # {}
  OBVIOUS
<1>2. PICK u \in U : \A v \in U : u <= v
  BY <1>1, MinOf
<1>3. u \in D
  <2> SUFFICES ASSUME u \notin D  PROVE FALSE
    OBVIOUS
  <2>1. \A d \in D : d < u
    OBVIOUS
  <2>2. u # 0 /\ u - 1 \in Nat
    <3>1. PICK d \in D : TRUE
      OBVIOUS
    <3>2. d \in Nat /\ u \in Nat /\ d < u
      BY <2>1, <3>1
    <3> QED  BY <3>2
  <2>3. u - 1 \in U
    BY <2>1, <2>2
  <2> QED  BY <1>2, <2>3
<1> QED  BY <1>2, <1>3 DEF Max

(* An interval has as many numbers as its ends say. *)
LEMMA IntervalSize ==
    ASSUME NEW lo \in Nat, NEW hi \in Int, lo <= hi + 1
    PROVE  Cardinality(lo .. hi) = hi - lo + 1
<1>1. CASE lo > hi
  <2>1. hi - lo + 1 = 0
    BY <1>1
  <2> QED  BY <1>1, <2>1, FS_Interval
<1>2. CASE ~(lo > hi)
  BY <1>2, FS_Interval
<1> QED  BY <1>1, <1>2

(* When set holds a tail of seq exactly, the rest of seq is left.          *)
LEMMA WithoutTail ==
    ASSUME NEW S, NEW seq \in Seq(S), NEW set, NEW k \in 0 .. Len(seq),
           \A i \in 1 .. Len(seq) : seq[i] \notin set <=> i <= k
    PROVE  Without(seq, set) = [i \in 1 .. k |-> seq[i]]
<1> DEFINE kept == {i \in DOMAIN seq : seq[i] \notin set}
           at(n) == CHOOSE i \in kept : Cardinality({j \in kept : j < i}) = n - 1
<1>1. kept = 1 .. k
  OBVIOUS
<1>2. Cardinality(kept) = k
  <2>1. k \in Nat /\ 1 <= k + 1 /\ k - 1 + 1 = k
    BY LenProperties
  <2>2. Cardinality(1 .. k) = k - 1 + 1
    BY <2>1, IntervalSize
  <2> QED  BY <1>1, <2>1, <2>2
<1> HIDE DEF kept
<1>3. \A i \in kept : Cardinality({j \in kept : j < i}) = i - 1
  <2> SUFFICES ASSUME NEW i \in kept  PROVE Cardinality({j \in kept : j < i}) = i - 1
    OBVIOUS
  <2>1. i \in Nat \ {0} /\ {j \in kept : j < i} = 1 .. (i - 1)
    BY <1>1
  <2>2. Cardinality(1 .. (i - 1)) = i - 1
    BY <2>1, IntervalSize
  <2> QED  BY <2>1, <2>2
<1>4. \A n \in 1 .. k : at(n) = n
  <2> SUFFICES ASSUME NEW n \in 1 .. k  PROVE at(n) = n
    OBVIOUS
  <2>1. n \in kept /\ Cardinality({j \in kept : j < n}) = n - 1
    BY <1>1, <1>3
  <2>2. at(n) \in kept /\ Cardinality({j \in kept : j < at(n)}) = n - 1
    BY <2>1
  <2> HIDE DEF at
  <2> QED  BY <1>1, <1>3, <2>2
<1>5. Without(seq, set) = [n \in 1 .. Cardinality(kept) |-> seq[at(n)]]
  BY DEF Without, kept
<1> HIDE DEF at
<1> QED  BY <1>2, <1>4, <1>5

(* An interval of commits, newest first. *)
LEMMA NewestInterval ==
    ASSUME NEW lo \in Nat, NEW hi \in Nat, lo <= hi + 1
    PROVE  Newest(lo .. hi) = [n \in 1 .. (hi - lo + 1) |-> hi - n + 1]
<1> DEFINE R == lo .. hi
           at(n) == CHOOSE c \in R : Cardinality({d \in R : d > c}) = n - 1
<1>1. Cardinality(R) = hi - lo + 1
  BY FS_Interval
<1>2. \A c \in R : Cardinality({d \in R : d > c}) = hi - c
  <2> SUFFICES ASSUME NEW c \in R  PROVE Cardinality({d \in R : d > c}) = hi - c
    OBVIOUS
  <2>1. c \in Nat /\ c <= hi /\ {d \in R : d > c} = (c + 1) .. hi
    OBVIOUS
  <2>2. Cardinality((c + 1) .. hi) = hi - c
    BY <2>1, IntervalSize
  <2> QED  BY <2>1, <2>2
<1>3. \A n \in 1 .. (hi - lo + 1) : at(n) = hi - n + 1
  <2> SUFFICES ASSUME NEW n \in 1 .. (hi - lo + 1)  PROVE at(n) = hi - n + 1
    OBVIOUS
  <2>1. hi - n + 1 \in R /\ Cardinality({d \in R : d > hi - n + 1}) = n - 1
    BY <1>2
  <2>2. at(n) \in R /\ Cardinality({d \in R : d > at(n)}) = n - 1
    BY <2>1
  <2> HIDE DEF at
  <2> QED  BY <1>2, <2>2
<1>4. Newest(R) = [n \in 1 .. Cardinality(R) |-> at(n)]
  BY DEF Newest
<1> HIDE DEF R, at
<1> QED  BY <1>1, <1>3, <1>4 DEF R

(* The baseline of a job and the last commit of its range. *)
BaselineOf(from) == Max(Baseline(from))
LatestBy(to) == Max(Baseline(to))

(* A commit is in the baseline when it is not later than the last of it.   *)
LEMMA BaselineUpTo ==
    ASSUME NEW t \in Nat
    PROVE  /\ Max(Baseline(t)) \in Commits /\ Baseline(t) # {}
           /\ \A c \in Commits : CommitTime[c] <= t <=> c <= Max(Baseline(t))
<1>1. Commits = 1 .. Len(CommitTime) /\ Len(CommitTime) \in Nat /\ 1 \in Commits
  BY HistTimesAssumption DEF Commits
<1>2. Baseline(t) \in SUBSET Nat /\ 1 \in Baseline(t) /\ \A c \in Baseline(t) : c <= Len(CommitTime)
  BY <1>1, HistTimesAssumption DEF Baseline
<1>3. Max(Baseline(t)) \in Baseline(t) /\ \A c \in Baseline(t) : c <= Max(Baseline(t))
  BY <1>1, <1>2, MaxOf
<1>4. ASSUME NEW c \in Commits, c <= Max(Baseline(t))  PROVE CommitTime[c] <= t
  <2> DEFINE e == Max(Baseline(t))
  <2> HIDE DEF e
  <2>1. e \in Commits /\ CommitTime[e] <= t /\ c <= e
    BY <1>3, <1>4 DEF Baseline, e
  <2>2. CommitTime[c] \in Nat /\ CommitTime[e] \in Nat
    BY <2>1, <1>1, HistTimesAssumption
  <2>3. c = e \/ CommitTime[c] < CommitTime[e]
    BY <1>1, <2>1, HistTimesAssumption
  <2> QED  BY <2>1, <2>2, <2>3
<1>5. ASSUME NEW c \in Commits, CommitTime[c] <= t  PROVE c <= Max(Baseline(t))
  BY <1>3, <1>5 DEF Baseline
<1> QED  BY <1>2, <1>3, <1>4, <1>5 DEF Baseline

(* The commits in range are those from the baseline, or behind it, up to   *)
(* the last one.                                                           *)
LEMMA RangeInterval ==
    ASSUME NEW from \in Nat, NEW to \in Nat, from < to
    PROVE  /\ BaselineOf(from) \in Commits /\ LatestBy(to) \in Commits /\ BaselineOf(from) <= LatestBy(to)
           /\ Commits \in SUBSET Nat /\ (BaselineOf(from) .. LatestBy(to)) \in SUBSET Commits
           /\ \E lo \in {BaselineOf(from), BaselineOf(from) + 1} : InRange(from, to) = lo .. LatestBy(to)
<1> DEFINE b == BaselineOf(from)
           e == LatestBy(to)
<1>1. Commits = 1 .. Len(CommitTime) /\ Len(CommitTime) \in Nat
  BY HistTimesAssumption DEF Commits
<1>2. /\ b \in Commits /\ e \in Commits
      /\ \A c \in Commits : CommitTime[c] <= from <=> c <= b
      /\ \A c \in Commits : CommitTime[c] <= to <=> c <= e
  BY BaselineUpTo DEF BaselineOf, LatestBy
<1>3. \A c \in Commits : CommitTime[c] \in Nat
  BY <1>1, HistTimesAssumption
<1> HIDE DEF b, e
<1>4. b <= e
  BY <1>1, <1>2, <1>3
<1>5. b .. e \in SUBSET Commits
  BY <1>1, <1>2
<1>6. \A c \in Commits : c < b => CommitTime[c] < CommitTime[b]
  BY <1>2, HistTimesAssumption
<1>7. CASE CommitTime[b] = from
  <2>1. \A c \in Commits : from <= CommitTime[c] <=> b <= c
    <3> SUFFICES ASSUME NEW c \in Commits  PROVE from <= CommitTime[c] <=> b <= c
      OBVIOUS
    <3> QED  BY <1>1, <1>2, <1>3, <1>6, <1>7
  <2>2. InRange(from, to) = b .. e
    BY <1>1, <1>2, <1>5, <2>1 DEF InRange
  <2> QED  BY <1>1, <1>2, <1>4, <1>5, <2>2 DEF b, e
<1>8. CASE CommitTime[b] # from
  <2>1. \A c \in Commits : from <= CommitTime[c] <=> b + 1 <= c
    <3> SUFFICES ASSUME NEW c \in Commits  PROVE from <= CommitTime[c] <=> b + 1 <= c
      OBVIOUS
    <3>1. c = b => ~(from <= CommitTime[c])
      BY <1>2, <1>1, <1>3, <1>8
    <3> QED  BY <1>1, <1>2, <1>3, <1>6, <3>1
  <2>2. InRange(from, to) = (b + 1) .. e
    BY <1>1, <1>2, <1>5, <2>1 DEF InRange
  <2> QED  BY <1>1, <1>2, <1>4, <1>5, <2>2 DEF b, e
<1> QED  BY <1>7, <1>8

-----------------------------------------------------------------------------
(* The fold of the snapshots.  A job spans days, and every commit it uses  *)
(* begins to count within them, later commits later.                       *)
Intervals == [model : HistModels, from : Nat, until : Nat, price : HistPrices]
Spanning(job) ==
  /\ job.from \in Nat /\ job.to \in Nat /\ job.from < job.to /\ job.to < Open
  /\ job.models \in SUBSET HistModels
  /\ \A c \in Commits : CommitTime[c] # job.to

Used(job) == BaselineOf(job.from) .. LatestBy(job.to)

(* The price list gives every model a price or none.                       *)
SnapshotsTyped == snapshots \in [Commits -> [HistModels -> HistPrices \union {NoPrice}]]

(* The commits are used in the order in which they begin to count. *)
LEMMA BoundariesGrow ==
    ASSUME NEW job, Spanning(job)
    PROVE  /\ Used(job) \in SUBSET Commits /\ Used(job) \in SUBSET Nat
           /\ \A c \in Used(job) : /\ Boundary(job, c) \in Nat
                                   /\ job.from <= Boundary(job, c) /\ Boundary(job, c) < job.to
           /\ \A c, d \in Used(job) : c < d => Boundary(job, c) < Boundary(job, d)
<1> DEFINE b == BaselineOf(job.from)
           e == LatestBy(job.to)
<1>1. /\ b \in Commits /\ e \in Commits /\ Commits \in SUBSET Nat /\ (b .. e) \in SUBSET Commits
      /\ \A c \in Commits : CommitTime[c] <= job.from <=> c <= b
      /\ \A c \in Commits : CommitTime[c] <= job.to <=> c <= e
  BY RangeInterval, BaselineUpTo DEF Spanning, BaselineOf, LatestBy
<1>2. \A c \in Commits : CommitTime[c] \in Nat
  BY HistTimesAssumption DEF Commits
<1>3. job.from \in Nat /\ job.to \in Nat /\ job.from < job.to /\ \A c \in Commits : CommitTime[c] # job.to
  BY DEF Spanning
<1> HIDE DEF b, e
<1>4. Used(job) = b .. e
  BY DEF Used, b, e
<1>5. \A c \in Used(job) : c \in Commits /\ c \in Nat /\ b <= c /\ c <= e
  BY <1>1, <1>4
<1>6. ASSUME NEW c \in Used(job)
      PROVE  Boundary(job, c) \in Nat /\ job.from <= Boundary(job, c) /\ Boundary(job, c) < job.to
  <2>1. CommitTime[c] \in Nat /\ CommitTime[c] <= job.to /\ CommitTime[c] # job.to
    BY <1>1, <1>2, <1>3, <1>5
  <2> QED  BY <1>3, <2>1 DEF Boundary
<1>7. ASSUME NEW c \in Used(job), NEW d \in Used(job), c < d
      PROVE  Boundary(job, c) < Boundary(job, d)
  <2>1. CommitTime[c] \in Nat /\ CommitTime[d] \in Nat /\ CommitTime[c] < CommitTime[d]
    BY <1>2, <1>5, <1>7, HistTimesAssumption
  <2>2. b < d /\ ~(CommitTime[d] <= job.from)
    BY <1>1, <1>5, <1>7
  <2> QED  BY <1>3, <2>1, <2>2 DEF Boundary
<1> QED  BY <1>1, <1>4, <1>6, <1>7

(* The price of the history as far as a set of commits tells it. *)
Showing(E, m) == {c \in E : snapshots[c][m] # NoPrice}
PriceBy(job, E, m, t) ==
  LET before == {c \in E : Boundary(job, c) <= t}
  IN IF before \intersect Showing(E, m) # {} THEN snapshots[Max(before)][m]
     ELSE IF Showing(E, m) # {} THEN snapshots[Min(Showing(E, m))][m] ELSE NoPrice

(* What one more commit c, later than the others, changes in it. *)
Grown(job, E, c, m, t) ==
  /\ Boundary(job, c) <= t => PriceBy(job, E \union {c}, m, t) = snapshots[c][m]
  /\ t < Boundary(job, c) =>
       PriceBy(job, E \union {c}, m, t) =
         IF Showing(E, m) = {} THEN snapshots[c][m] ELSE PriceBy(job, E, m, t)
  /\ Boundary(job, c) <= t /\ Showing(E, m) # {} => PriceBy(job, E, m, t) = snapshots[Max(E)][m]

LEMMA PriceGrows ==
    ASSUME NEW job, Spanning(job), NEW c \in Used(job), NEW E \in SUBSET Used(job),
           \A d \in E : d < c, NEW m, NEW t \in Nat
    PROVE  Grown(job, E, c, m, t)
<1> DEFINE N == E \union {c}
           B == Boundary(job, c)
           before(X) == {d \in X : Boundary(job, d) <= t}
<1>1. /\ Used(job) \in SUBSET Nat
      /\ \A d \in Used(job) : Boundary(job, d) \in Nat
      /\ \A d \in E : Boundary(job, d) < B
  BY BoundariesGrow
<1>2. B \in Nat
  BY <1>1
<1>3. Max(N) = c
  BY <1>1 DEF Max
<1>4. /\ Showing(N, m) = IF snapshots[c][m] # NoPrice THEN Showing(E, m) \union {c} ELSE Showing(E, m)
      /\ Showing(E, m) \subseteq E
  BY DEF Showing
<1>5. ASSUME Showing(E, m) # {}  PROVE Min(Showing(N, m)) = Min(Showing(E, m))
  <2>1. Showing(E, m) \in SUBSET Nat /\ \A d \in Showing(E, m) : d < c
    BY <1>1, <1>4
  <2>2. Min(Showing(E, m)) \in Showing(E, m) /\ \A j \in Showing(E, m) : Min(Showing(E, m)) <= j
    BY <2>1, <1>5, MinOf
  <2>3. Showing(N, m) \in SUBSET Nat /\ Showing(N, m) # {}
    BY <1>1, <1>4, <1>5
  <2>4. Min(Showing(N, m)) \in Showing(N, m) /\ \A j \in Showing(N, m) : Min(Showing(N, m)) <= j
    BY <2>3, MinOf
  <2>5. Min(Showing(E, m)) \in Showing(N, m) /\ Min(Showing(E, m)) < c /\ Min(Showing(E, m)) \in Nat
    BY <1>4, <2>1, <2>2
  <2>6. Min(Showing(N, m)) \in Nat /\ Min(Showing(N, m)) <= Min(Showing(E, m)) /\ c \in Nat
    BY <1>1, <2>3, <2>4, <2>5
  <2>7. Min(Showing(N, m)) # c
    BY <2>5, <2>6
  <2>8. Min(Showing(N, m)) \in Showing(E, m)
    BY <1>4, <2>4, <2>7
  <2> QED  BY <2>2, <2>5, <2>6, <2>8
<1>6. B <= t => before(N) = N /\ before(E) = E
  <2> SUFFICES ASSUME B <= t  PROVE \A d \in N : Boundary(job, d) <= t
    OBVIOUS
  <2> TAKE d \in N
  <2>1. Boundary(job, d) \in Nat /\ Boundary(job, d) <= B
    BY <1>1, <1>2
  <2> QED  BY <1>2, <2>1
<1>7. t < B => before(N) = before(E)
  BY <1>2
<1>8. /\ PriceBy(job, N, m, t) =
           IF before(N) \intersect Showing(N, m) # {} THEN snapshots[Max(before(N))][m]
           ELSE IF Showing(N, m) # {} THEN snapshots[Min(Showing(N, m))][m] ELSE NoPrice
      /\ PriceBy(job, E, m, t) =
           IF before(E) \intersect Showing(E, m) # {} THEN snapshots[Max(before(E))][m]
           ELSE IF Showing(E, m) # {} THEN snapshots[Min(Showing(E, m))][m] ELSE NoPrice
  BY DEF PriceBy
<1>9. \A X : Showing(X, m) = {} \/ X \intersect Showing(X, m) # {}
  BY DEF Showing
<1>10. Showing(E, m) = {} => Min(Showing(N, m)) = c \/ Showing(N, m) = {}
  <2>1. c \in Nat
    BY <1>1
  <2> QED  BY <1>4, <2>1 DEF Min
<1>11. c \notin before(E) /\ before(E) \subseteq E
  BY <1>1
<1> HIDE DEF N, B, before
<1>12. ASSUME B <= t  PROVE PriceBy(job, N, m, t) = snapshots[c][m]
  <2>1. CASE Showing(N, m) = {}
    BY <1>4, <1>8, <2>1
  <2>2. CASE Showing(N, m) # {}
    BY <1>3, <1>6, <1>8, <1>9, <1>12, <2>2
  <2> QED  BY <2>1, <2>2
<1>13. ASSUME t < B, Showing(E, m) = {}  PROVE PriceBy(job, N, m, t) = snapshots[c][m]
  <2>1. before(N) \intersect Showing(N, m) = {}
    BY <1>4, <1>7, <1>11, <1>13
  <2>2. CASE snapshots[c][m] = NoPrice
    BY <1>4, <1>8, <1>13, <2>1, <2>2
  <2>3. CASE snapshots[c][m] # NoPrice
    <3>1. Showing(N, m) # {}
      BY <1>4, <2>3
    <3> QED  BY <1>8, <1>10, <1>13, <2>1, <3>1
  <2> QED  BY <2>2, <2>3
<1>14. ASSUME t < B, Showing(E, m) # {}  PROVE PriceBy(job, N, m, t) = PriceBy(job, E, m, t)
  <2>1. before(N) \intersect Showing(N, m) = before(E) \intersect Showing(E, m)
    BY <1>4, <1>7, <1>11, <1>14
  <2>2. Showing(N, m) # {}
    BY <1>4, <1>14
  <2> QED  BY <1>5, <1>7, <1>8, <1>14, <2>1, <2>2
<1>16. B <= t /\ Showing(E, m) # {} => PriceBy(job, E, m, t) = snapshots[Max(E)][m]
  BY <1>6, <1>8, <1>9
<1> QED  BY <1>12, <1>13, <1>14, <1>16 DEF N, B, Grown

-----------------------------------------------------------------------------
(* The candidates of a model, and what they say when the commits of E have *)
(* been folded in.  The open one has the price of the last commit, and the *)
(* closed ones end where some commit begins to count.                      *)
Mine(set, m) == {i \in set : i.model = m}

Placed(job, E, m, mine) ==
  \A i \in mine :
    /\ i \in Intervals /\ i.model = m /\ job.from <= i.from /\ i.from < job.to
    /\ \E c \in E : i.from <= Boundary(job, c)
    /\ i.until = Open \/ (i.from < i.until /\ \E c \in E : i.until <= Boundary(job, c))

OpenCurrent(E, m, mine) ==
  /\ mine = {} <=> Showing(E, m) = {}
  /\ \A i \in mine : i.until = Open => i.price = snapshots[Max(E)][m]
  /\ mine # {} /\ snapshots[Max(E)][m] # NoPrice => \E i \in mine : i.until = Open

Telling(job, E, m, mine) ==
  \A t \in job.from .. job.to - 1 :
    /\ \A i \in CoveredBy(mine, m, t) : i.price = PriceBy(job, E, m, t)
    /\ PriceBy(job, E, m, t) # NoPrice => CoveredBy(mine, m, t) # {}

Folded(job, E, m, mine) ==
  Placed(job, E, m, mine) /\ OpenCurrent(E, m, mine) /\ Telling(job, E, m, mine)

(* Nothing has been folded in. *)
LEMMA FoldedNone ==
    ASSUME NEW job, NEW m  PROVE Folded(job, {}, m, {})
<1>1. Showing({}, m) = {}
  BY DEF Showing
<1>2. \A t : PriceBy(job, {}, m, t) = NoPrice /\ CoveredBy({}, m, t) = {}
  BY <1>1 DEF PriceBy, CoveredBy
<1> QED  BY <1>1, <1>2 DEF Folded, Placed, OpenCurrent, Telling

(* A commit that keeps the price of the open candidate changes nothing. *)
LEMMA FoldSame ==
    ASSUME SnapshotsTyped, HistoryAssumption,
           NEW job, Spanning(job), NEW c \in Used(job), NEW E \in SUBSET Used(job),
           \A d \in E : d < c, NEW m \in HistModels, NEW mine, Folded(job, E, m, mine),
           NEW o \in mine, o.until = Open, o.price = snapshots[c][m]
    PROVE  Folded(job, E \union {c}, m, mine)
<1> DEFINE N == E \union {c}
           B == Boundary(job, c)
<1>1. /\ Used(job) \in SUBSET Nat
      /\ \A d \in Used(job) : Boundary(job, d) \in Nat
      /\ \A d \in E : Boundary(job, d) < B
  BY BoundariesGrow
<1>2. Max(N) = c
  BY <1>1 DEF Max
<1>3. /\ Placed(job, E, m, mine) /\ OpenCurrent(E, m, mine) /\ Telling(job, E, m, mine)
  BY DEF Folded
<1>4. o \in Intervals /\ snapshots[c][m] # NoPrice /\ snapshots[Max(E)][m] = snapshots[c][m]
  BY <1>3, HistoryAssumption DEF Placed, OpenCurrent, Intervals
<1>5. Showing(E, m) # {} /\ Showing(N, m) # {}
  BY <1>3, <1>4 DEF OpenCurrent, Showing
<1>6. Placed(job, N, m, mine)
  BY <1>3 DEF Placed
<1>7. OpenCurrent(N, m, mine)
  BY <1>2, <1>3, <1>4, <1>5 DEF OpenCurrent
<1>8. ASSUME NEW t \in job.from .. job.to - 1  PROVE PriceBy(job, N, m, t) = PriceBy(job, E, m, t)
  <2>1. t \in Nat /\ B \in Nat
    BY <1>1 DEF Spanning
  <2>2. Grown(job, E, c, m, t)
    BY <2>1, PriceGrows
  <2>3. CASE B <= t
    BY <1>4, <1>5, <2>2, <2>3 DEF Grown
  <2>4. CASE t < B
    BY <1>5, <2>2, <2>4 DEF Grown
  <2> QED  BY <2>1, <2>3, <2>4
<1>9. Telling(job, N, m, mine)
  BY <1>3, <1>8 DEF Telling
<1> QED  BY <1>6, <1>7, <1>9 DEF Folded

(* A commit with another price closes the open candidates and, if it gives *)
(* a price, opens one.                                                     *)
LEMMA FoldChange ==
    ASSUME SnapshotsTyped, HistoryAssumption,
           NEW job, Spanning(job), NEW c \in Used(job), NEW E \in SUBSET Used(job),
           \A d \in E : d < c, NEW m \in HistModels, NEW mine, Folded(job, E, m, mine),
           NEW next, NEW left,
           next = IF snapshots[c][m] = NoPrice THEN {}
                  ELSE {[model |-> m, from |-> IF mine = {} THEN job.from ELSE Boundary(job, c),
                         until |-> Open, price |-> snapshots[c][m]]},
           left = {i \in mine : i.until # Open}
                    \union {[i EXCEPT !.until = Boundary(job, c)] : i \in {o \in mine : o.until = Open}}
    PROVE  Folded(job, E \union {c}, m, left \union next)
<1> DEFINE N == E \union {c}
           B == Boundary(job, c)
           new == left \union next
<1>1. /\ Used(job) \in SUBSET Nat
      /\ \A d \in Used(job) : Boundary(job, d) \in Nat
      /\ \A d \in E : Boundary(job, d) \in Nat /\ Boundary(job, d) < B
      /\ B \in Nat /\ job.from <= B /\ B < job.to
  BY BoundariesGrow
<1>2. Max(N) = c
  BY <1>1 DEF Max
<1>3. /\ Placed(job, E, m, mine) /\ OpenCurrent(E, m, mine) /\ Telling(job, E, m, mine)
  BY DEF Folded
<1>4. job.from \in Nat /\ job.to \in Nat /\ job.from < job.to /\ job.to < Open /\ Open \in Nat
  BY HistoryAssumption DEF Spanning, Open
<1>5. c \in Commits /\ (snapshots[c][m] = NoPrice \/ snapshots[c][m] \in HistPrices)
  BY BoundariesGrow DEF SnapshotsTyped
<1>18. ASSUME NEW t \in Nat
       PROVE  /\ B <= t => PriceBy(job, N, m, t) = snapshots[c][m]
              /\ t < B => PriceBy(job, N, m, t) =
                            IF Showing(E, m) = {} THEN snapshots[c][m] ELSE PriceBy(job, E, m, t)
  <2>1. Grown(job, E, c, m, t)
    BY PriceGrows
  <2> QED  BY <2>1 DEF Grown
<1> HIDE DEF N, B
<1>6. \A i \in mine : /\ i \in Intervals /\ i.model = m /\ job.from <= i.from /\ i.from < job.to
                      /\ i.from \in Nat /\ i.until \in Nat /\ i.from < B
                      /\ i.until # Open => i.from < i.until /\ i.until < B
  <2> SUFFICES ASSUME NEW i \in mine
               PROVE  /\ i \in Intervals /\ i.model = m /\ job.from <= i.from /\ i.from < job.to
                      /\ i.from \in Nat /\ i.until \in Nat /\ i.from < B
                      /\ i.until # Open => i.from < i.until /\ i.until < B
    OBVIOUS
  <2>1. i \in Intervals /\ i.model = m /\ job.from <= i.from /\ i.from < job.to
    BY <1>3 DEF Placed
  <2>2. i.from \in Nat /\ i.until \in Nat
    BY <2>1 DEF Intervals
  <2>3. PICK d \in E : i.from <= Boundary(job, d)
    BY <1>3 DEF Placed
  <2>4. i.from < B
    BY <1>1, <2>2, <2>3
  <2>5. ASSUME i.until # Open  PROVE i.from < i.until /\ i.until < B
    <3>1. i.from < i.until /\ \E e \in E : i.until <= Boundary(job, e)
      BY <1>3, <2>5 DEF Placed
    <3>2. PICK e \in E : i.until <= Boundary(job, e)
      BY <3>1
    <3> QED  BY <1>1, <2>2, <3>1, <3>2
  <2> QED  BY <2>1, <2>2, <2>4, <2>5
<1>7. \A i \in mine : /\ [i EXCEPT !.until = B] \in Intervals
                      /\ [i EXCEPT !.until = B].model = m /\ [i EXCEPT !.until = B].from = i.from
                      /\ [i EXCEPT !.until = B].until = B /\ [i EXCEPT !.until = B].price = i.price
  BY <1>1, <1>6 DEF Intervals
<1>8. left = {i \in mine : i.until # Open}
               \union {[i EXCEPT !.until = B] : i \in {o \in mine : o.until = Open}}
  BY DEF B
<1>9. \A i \in left : /\ i \in Intervals /\ i.model = m /\ job.from <= i.from /\ i.from < job.to
                      /\ i.from < B /\ i.from < i.until /\ i.until <= B /\ i.until # Open
                      /\ i.from \in Nat /\ i.until \in Nat
  <2> SUFFICES ASSUME NEW i \in left
               PROVE  /\ i \in Intervals /\ i.model = m /\ job.from <= i.from /\ i.from < job.to
                      /\ i.from < B /\ i.from < i.until /\ i.until <= B /\ i.until # Open
                      /\ i.from \in Nat /\ i.until \in Nat
    OBVIOUS
  <2>1. CASE i \in mine /\ i.until # Open
    BY <1>1, <1>6, <2>1
  <2>2. CASE ~(i \in mine /\ i.until # Open)
    <3>1. PICK o \in mine : o.until = Open /\ i = [o EXCEPT !.until = B]
      BY <1>8, <2>2
    <3>2. i \in Intervals /\ i.model = m /\ i.from = o.from /\ i.until = B
      BY <1>7, <3>1
    <3> QED  BY <1>1, <1>4, <1>6, <3>2
  <2> QED  BY <2>1, <2>2
<1>10. (left = {} <=> mine = {})
  <2>1. ASSUME NEW o \in mine  PROVE left # {}
    <3>1. CASE o.until # Open
      <4>1. o \in left
        BY ONLY <1>8, <3>1, o \in mine
      <4> QED  BY ONLY <4>1
    <3>2. CASE o.until = Open
      <4>1. [o EXCEPT !.until = B] \in left
        BY ONLY <1>8, <3>2, o \in mine
      <4> QED  BY ONLY <4>1
    <3> QED  BY ONLY <3>1, <3>2
  <2>2. mine = {} => left = {}
    BY ONLY <1>8
  <2> QED  BY ONLY <2>1, <2>2
<1>11. \A i \in next : /\ i \in Intervals /\ i.model = m /\ i.until = Open /\ i.price = snapshots[c][m]
                       /\ i.from = IF mine = {} THEN job.from ELSE B
  BY <1>1, <1>4, <1>5 DEF Intervals, B
<1>12. next = {} <=> snapshots[c][m] = NoPrice
  OBVIOUS
<1>13. Placed(job, N, m, new)
  <2> SUFFICES ASSUME NEW i \in new
               PROVE  /\ i \in Intervals /\ i.model = m /\ job.from <= i.from /\ i.from < job.to
                      /\ i.from <= B /\ (i.until = Open \/ (i.from < i.until /\ i.until <= B))
    BY DEF Placed, N, B
  <2>1. CASE i \in left
    <3>1. i.from <= B
      BY <1>1, <1>9, <2>1
    <3> QED  BY <1>9, <2>1, <3>1
  <2>2. CASE i \in next
    BY <1>1, <1>4, <1>11, <2>2
  <2> QED  BY <2>1, <2>2
<1>14. Showing(N, m) = {} <=> (Showing(E, m) = {} /\ snapshots[c][m] = NoPrice)
  BY DEF Showing, N
<1>15. OpenCurrent(N, m, new)
  <2>1. new = {} <=> Showing(N, m) = {}
    BY <1>3, <1>10, <1>12, <1>14 DEF OpenCurrent
  <2>2. \A i \in new : i.until = Open => i.price = snapshots[c][m]
    BY <1>9, <1>11
  <2>3. snapshots[c][m] # NoPrice => \E i \in new : i.until = Open
    BY <1>11, <1>12
  <2> QED  BY <1>2, <2>1, <2>2, <2>3 DEF OpenCurrent
<1>16. ASSUME NEW t \in job.from .. job.to - 1
       PROVE  /\ \A i \in CoveredBy(new, m, t) : i.price = PriceBy(job, N, m, t)
              /\ PriceBy(job, N, m, t) # NoPrice => CoveredBy(new, m, t) # {}
  <2>1. t \in Nat /\ job.from <= t /\ t < job.to /\ t < Open
    BY <1>4
  <2>2. /\ B <= t => PriceBy(job, N, m, t) = snapshots[c][m]
        /\ t < B => PriceBy(job, N, m, t) =
                      IF Showing(E, m) = {} THEN snapshots[c][m] ELSE PriceBy(job, E, m, t)
    BY <1>18, <2>1
  <2>3. /\ \A i \in CoveredBy(mine, m, t) : i.price = PriceBy(job, E, m, t)
        /\ PriceBy(job, E, m, t) # NoPrice => CoveredBy(mine, m, t) # {}
    BY <1>3 DEF Telling
  <2>4. CASE B <= t
    <3>1. \A i \in left : ~(t < i.until)
      BY <1>1, <1>9, <2>1, <2>4
    <3>2. \A i \in next : i.from <= t /\ t < i.until
      BY <1>1, <1>4, <1>11, <2>1, <2>4
    <3>3. CoveredBy(new, m, t) = next
      BY <1>11, <3>1, <3>2 DEF CoveredBy
    <3> QED  BY <1>11, <1>12, <2>2, <2>4, <3>3
  <2>5. CASE t < B /\ mine = {}
    <3>1. left = {} /\ Showing(E, m) = {}
      BY <1>3, <1>10, <2>5 DEF OpenCurrent
    <3>2. \A i \in next : i.from <= t /\ t < i.until
      BY <1>11, <2>1, <2>5
    <3>3. CoveredBy(new, m, t) = next
      BY <1>11, <3>1, <3>2 DEF CoveredBy
    <3> QED  BY <1>11, <1>12, <2>2, <2>5, <3>1, <3>3
  <2>6. CASE t < B /\ mine # {}
    <3>1. PriceBy(job, N, m, t) = PriceBy(job, E, m, t)
      BY <1>3, <2>2, <2>6 DEF OpenCurrent
    <3>2. \A i \in next : ~(i.from <= t)
      BY <1>1, <1>11, <2>1, <2>6
    <3>3. ASSUME NEW i \in CoveredBy(new, m, t)
          PROVE  i.price = PriceBy(job, E, m, t)
      <4>1. i \in left /\ i.from <= t /\ t < i.until /\ i.model = m
        BY <3>2, <3>3 DEF CoveredBy
      <4>2. CASE i \in mine
        <5>1. i \in CoveredBy(mine, m, t)
          BY <4>1, <4>2 DEF CoveredBy
        <5> QED  BY <2>3, <5>1
      <4>3. CASE i \notin mine
        <5>1. PICK o \in mine : o.until = Open /\ i = [o EXCEPT !.until = B]
          BY <1>8, <4>1, <4>3
        <5>2. i.from = o.from /\ i.price = o.price /\ o.model = m
          BY <1>6, <1>7, <5>1
        <5>3. o \in CoveredBy(mine, m, t)
          BY <2>1, <4>1, <5>1, <5>2 DEF CoveredBy
        <5> QED  BY <2>3, <5>2, <5>3
      <4> QED  BY <4>2, <4>3
    <3>4. ASSUME NEW i \in CoveredBy(mine, m, t)  PROVE CoveredBy(new, m, t) # {}
      <4>1. i \in mine /\ i.from <= t /\ t < i.until /\ i.model = m
        BY <3>4 DEF CoveredBy
      <4>2. CASE i.until # Open
        <5>1. i \in left
          BY <1>8, <4>1, <4>2
        <5> QED  BY <4>1, <5>1 DEF CoveredBy
      <4>3. CASE i.until = Open
        <5> DEFINE j == [i EXCEPT !.until = B]
        <5>1. j \in left
          BY <1>8, <4>1, <4>3
        <5>2. j.model = m /\ j.from = i.from /\ j.until = B
          BY <1>7, <4>1
        <5> HIDE DEF j
        <5> QED  BY <2>6, <4>1, <5>1, <5>2 DEF CoveredBy
      <4> QED  BY <4>2, <4>3
    <3> QED  BY <2>3, <3>1, <3>3, <3>4
  <2>7. B <= t \/ t < B
    BY <1>1, <2>1
  <2> QED  BY <2>4, <2>5, <2>6, <2>7
<1>17. Telling(job, N, m, new)
  BY <1>16 DEF Telling
<1> QED  BY <1>13, <1>15, <1>17 DEF Folded, N

(* One model of a snapshot is folded in as the two lemmas say. *)
LEMMA ApplyModelFolds ==
    ASSUME SnapshotsTyped, HistoryAssumption,
           NEW job, Spanning(job), NEW c \in Used(job), NEW E \in SUBSET Used(job),
           \A d \in E : d < c, NEW m \in HistModels, NEW set, Folded(job, E, m, Mine(set, m))
    PROVE  Folded(job, E \union {c}, m, Mine(ApplyModel(job, c, m, set), m))
<1> DEFINE mine == Mine(set, m)
           open == {i \in mine : i.until = Open}
           price == snapshots[c][m]
           B == Boundary(job, c)
           closed == {[i EXCEPT !.until = B] : i \in {o \in open : B > o.from}}
           start == IF mine = {} THEN job.from ELSE B
           next == IF price = NoPrice \/ start >= job.to THEN {}
                   ELSE {[model |-> m, from |-> start, until |-> Open, price |-> price]}
           kept == {i \in (set \ open) \union closed : next = {} \/ i.model # m \/ i.from # start}
           all == {[i EXCEPT !.until = B] : i \in open}
           given == IF price = NoPrice THEN {}
                    ELSE {[model |-> m, from |-> start, until |-> Open, price |-> price]}
           left == {i \in mine : i.until # Open} \union all
<1>1. ApplyModel(job, c, m, set) =
        IF \E i \in open : i.price = price THEN set ELSE kept \union next
  BY DEF ApplyModel, Mine
<1>2. Folded(job, E, m, mine)
  OBVIOUS
<1>3. CASE \E i \in open : i.price = price
  <2>1. PICK o \in mine : o.until = Open /\ o.price = price
    BY <1>3
  <2> HIDE DEF mine
  <2>2. Folded(job, E \union {c}, m, mine)
    BY <1>2, <2>1, FoldSame
  <2>3. ApplyModel(job, c, m, set) = set
    BY <1>1, <1>3
  <2> QED  BY <2>2, <2>3 DEF mine
<1>4. CASE ~ \E i \in open : i.price = price
  <2>1. /\ \A d \in E : Boundary(job, d) \in Nat /\ Boundary(job, d) < B
        /\ B \in Nat /\ job.from <= B /\ B < job.to
    BY BoundariesGrow
  <2>2. job.from \in Nat /\ job.to \in Nat /\ job.from < job.to
    BY DEF Spanning
  <2>3. \A i \in mine : i \in Intervals /\ i.model = m /\ i.from \in Nat /\ i.from < B
    <3> SUFFICES ASSUME NEW i \in mine
                 PROVE  i \in Intervals /\ i.model = m /\ i.from \in Nat /\ i.from < B
      OBVIOUS
    <3>1. i \in Intervals /\ i.model = m
      BY <1>2 DEF Folded, Placed
    <3>2. PICK d \in E : i.from <= Boundary(job, d)
      BY <1>2 DEF Folded, Placed
    <3>3. i.from \in Nat
      BY <3>1 DEF Intervals
    <3> QED  BY <2>1, <3>1, <3>2, <3>3
  <2>4. closed = all
    BY <2>1, <2>3
  <2>5. next = given
    BY <2>1, <2>2
  <2>6. \A i \in open : /\ [i EXCEPT !.until = B].model = m
                        /\ [i EXCEPT !.until = B].from = i.from
    BY <2>3 DEF Intervals
  <2>7. \A i \in left : i.model = m /\ i.from # B
    <3> SUFFICES ASSUME NEW i \in left  PROVE i.model = m /\ i.from # B
      OBVIOUS
    <3>1. CASE i \in mine
      BY <2>1, <2>3, <3>1
    <3>2. CASE i \in all
      <4>1. PICK o \in open : i = [o EXCEPT !.until = B]
        BY <3>2
      <4> QED  BY <2>1, <2>3, <2>6, <4>1
    <3> QED  BY <3>1, <3>2
  <2>8. mine = {} => left = {}
    OBVIOUS
  <2>9. \A i : i \in Mine(kept \union next, m) <=> i \in left \union given
    <3> SUFFICES ASSUME NEW i
                 PROVE  i \in Mine(kept \union next, m) <=> i \in left \union given
      OBVIOUS
    <3>1. i \in Mine(next, m) <=> i \in given
      BY <2>5 DEF Mine
    <3>2. i \in left => i.model = m /\ i.from # start
      BY <2>7, <2>8
    <3>3. i \in (set \ open) \union closed /\ i.model = m <=> i \in left
      <4>1. i \in set /\ i.model = m <=> i \in mine
        BY DEF Mine
      <4>2. i \in closed <=> i \in all
        BY <2>4
      <4>3. i \in all => i.model = m
        BY <2>7
      <4> QED  BY <4>1, <4>2, <4>3
    <3>4. i \in Mine(kept, m) <=> i \in left
      BY <3>2, <3>3 DEF Mine
    <3>5. i \in Mine(kept \union next, m) <=> i \in Mine(kept, m) \/ i \in Mine(next, m)
      BY DEF Mine
    <3> QED  BY <3>1, <3>4, <3>5
  <2>10. Mine(ApplyModel(job, c, m, set), m) = left \union given
    BY <1>1, <1>4, <2>9
  <2>11. left = {i \in mine : i.until # Open}
                  \union {[i EXCEPT !.until = Boundary(job, c)] : i \in {o \in mine : o.until = Open}}
    OBVIOUS
  <2>12. given = IF snapshots[c][m] = NoPrice THEN {}
                 ELSE {[model |-> m, from |-> IF mine = {} THEN job.from ELSE Boundary(job, c),
                        until |-> Open, price |-> snapshots[c][m]]}
    OBVIOUS
  <2> HIDE DEF mine, left, given
  <2>13. Folded(job, E \union {c}, m, left \union given)
    BY <1>2, <2>11, <2>12, FoldChange
  <2> QED  BY <2>10, <2>13
<1> QED  BY <1>3, <1>4

(* The candidates of a job, when the commits of E have been folded in. *)
AllFolded(job, E, set) ==
  /\ \A i \in set : i.model \in job.models
  /\ \A m \in job.models : Folded(job, E, m, Mine(set, m))

LEMMA ApplySnapshotFolds ==
    ASSUME SnapshotsTyped, HistoryAssumption,
           NEW job, Spanning(job), NEW c \in Used(job), NEW E \in SUBSET Used(job),
           \A d \in E : d < c, NEW set, AllFolded(job, E, set)
    PROVE  AllFolded(job, E \union {c}, ApplySnapshot(job, set, c))
<1>1. \A i \in ApplySnapshot(job, set, c) : i.model \in job.models
  BY DEF ApplySnapshot
<1>2. ASSUME NEW m \in job.models
      PROVE  Folded(job, E \union {c}, m, Mine(ApplySnapshot(job, set, c), m))
  <2>1. Mine(ApplySnapshot(job, set, c), m) = Mine(ApplyModel(job, c, m, set), m)
    BY DEF ApplySnapshot, Mine
  <2>2. m \in HistModels /\ Folded(job, E, m, Mine(set, m))
    BY DEF Spanning, AllFolded
  <2> QED  BY <2>1, <2>2, ApplyModelFolds
<1> QED  BY <1>1, <1>2 DEF AllFolded

(* The fold over the commits of one step is a function.                    *)
FoldOf(job, refs, f, n) ==
  f = [k \in 0 .. n |-> IF k = 0 THEN candidates ELSE ApplySnapshot(job, f[k - 1], refs[k])]

LEMMA FoldExists ==
    ASSUME NEW job, NEW refs, NEW n \in Nat
    PROVE  \E f : FoldOf(job, refs, f, n)
<1> DEFINE D == {k \in Nat : ~ \E f : FoldOf(job, refs, f, k)}
<1> SUFFICES ASSUME n \in D  PROVE FALSE
  OBVIOUS
<1>1. D \in SUBSET Nat /\ D # {}
  OBVIOUS
<1> DEFINE l == Min(D)
<1> HIDE DEF l, D
<1>2. l \in D /\ \A k \in D : l <= k
  BY <1>1, MinOf DEF l
<1>3. l \in Nat /\ ~ \E f : FoldOf(job, refs, f, l)
  BY <1>2 DEF D
<1>4. CASE l = 0
  <2> DEFINE f == [k \in 0 .. 0 |-> candidates]
  <2>1. f = [k \in 0 .. 0 |-> IF k = 0 THEN candidates ELSE ApplySnapshot(job, f[k - 1], refs[k])]
    OBVIOUS
  <2>2. FoldOf(job, refs, f, l)
    BY <1>4, <2>1 DEF FoldOf
  <2> QED  BY <1>3, <2>2
<1>5. CASE l # 0
  <2>1. l - 1 \in Nat /\ l - 1 \notin D
    BY <1>2, <1>3, <1>5
  <2>2. PICK g : FoldOf(job, refs, g, l - 1)
    BY <2>1 DEF D
  <2> DEFINE f == [k \in 0 .. l |-> IF k = l THEN ApplySnapshot(job, g[l - 1], refs[l]) ELSE g[k]]
             next(h, k) == IF k = 0 THEN candidates ELSE ApplySnapshot(job, h[k - 1], refs[k])
  <2>3. \A k \in 0 .. l - 1 : g[k] = next(g, k)
    BY <2>2 DEF FoldOf
  <2>4. ASSUME NEW k \in 0 .. l  PROVE f[k] = next(f, k)
    <3>1. CASE k = l
      <4>1. l - 1 \in 0 .. l /\ f[l - 1] = g[l - 1]
        BY <1>3, <1>5
      <4> QED  BY <1>3, <1>5, <3>1, <4>1
    <3>2. CASE k # l
      <4>1. k \in 0 .. l - 1 /\ f[k] = g[k]
        BY <1>3, <3>2
      <4>2. k # 0 => k - 1 \in 0 .. l /\ f[k - 1] = g[k - 1]
        BY <1>3, <3>2
      <4> QED  BY <2>3, <4>1, <4>2
    <3> QED  BY <3>1, <3>2
  <2>5. f = [k \in 0 .. l |-> f[k]]
    OBVIOUS
  <2> HIDE DEF f
  <2>6. f = [k \in 0 .. l |-> next(f, k)]
    BY <2>4, <2>5
  <2>7. FoldOf(job, refs, f, l)
    BY <2>6 DEF FoldOf
  <2> QED  BY <1>3, <2>7
<1> QED  BY <1>4, <1>5

(* The commits of a step, all later than those folded in before. *)
LEMMA ApplySnapshotsFolds ==
    ASSUME SnapshotsTyped, HistoryAssumption,
           NEW job, Spanning(job), NEW E \in SUBSET Used(job), AllFolded(job, E, candidates),
           NEW base \in Nat, \A d \in E : d <= base,
           NEW refs \in Seq(Nat),
           \A i \in 1 .. Len(refs) : refs[i] = base + i /\ refs[i] \in Used(job)
    PROVE  AllFolded(job, E \union (base + 1 .. base + Len(refs)), ApplySnapshots(job, refs))
<1> DEFINE L == Len(refs)
           to(k) == E \union (base + 1 .. base + k)
           f == CHOOSE h : FoldOf(job, refs, h, L)
           D == {k \in 0 .. L : ~ AllFolded(job, to(k), f[k])}
<1>1. L \in Nat
  BY LenProperties
<1>2. FoldOf(job, refs, f, L)
  BY <1>1, FoldExists
<1>3. ApplySnapshots(job, refs) = f[L]
  BY DEF ApplySnapshots, FoldOf
<1> HIDE DEF f
<1>4. \A k \in 0 .. L : f[k] = IF k = 0 THEN candidates ELSE ApplySnapshot(job, f[k - 1], refs[k])
  BY <1>2 DEF FoldOf
<1>5. Used(job) \in SUBSET Nat
  BY BoundariesGrow
<1> HIDE DEF L
<1>6. D = {}
  <2> SUFFICES ASSUME D # {}  PROVE FALSE
    OBVIOUS
  <2>1. D \in SUBSET Nat
    BY <1>1
  <2> DEFINE l == Min(D)
  <2> HIDE DEF l, D
  <2>2. l \in D /\ \A k \in D : l <= k
    BY <2>1, MinOf DEF l
  <2>3. l \in 0 .. L /\ l \in Nat /\ ~ AllFolded(job, to(l), f[l])
    BY <1>1, <2>2 DEF D
  <2>4. CASE l = 0
    <3>1. to(0) = E
      OBVIOUS
    <3>2. f[0] = candidates
      BY <1>4, <2>3, <2>4
    <3> QED  BY <2>3, <2>4, <3>1, <3>2
  <2>5. CASE l # 0
    <3>1. l - 1 \in 0 .. L /\ l - 1 \in Nat /\ ~(l <= l - 1) /\ l \in 1 .. L
      BY <1>1, <2>3, <2>5
    <3>2. AllFolded(job, to(l - 1), f[l - 1])
      BY <2>2, <3>1 DEF D
    <3>3. f[l] = ApplySnapshot(job, f[l - 1], refs[l])
      BY <1>4, <2>3, <2>5
    <3>4. refs[l] = base + l /\ refs[l] \in Used(job)
      BY <3>1 DEF L
    <3>5. to(l - 1) \in SUBSET Used(job)
      <4>1. \A d \in base + 1 .. base + (l - 1) : d - base \in 1 .. L /\ d = base + (d - base)
        BY <1>1, <2>3
      <4>2. \A d \in base + 1 .. base + (l - 1) : d \in Used(job)
        BY <4>1 DEF L
      <4> QED  BY <4>2
    <3>6. \A d \in to(l - 1) : d < refs[l]
      BY <1>5, <2>3, <2>5, <3>4
    <3>7. to(l - 1) \union {refs[l]} = to(l)
      BY <2>3, <2>5, <3>4
    <3> HIDE DEF to
    <3>8. AllFolded(job, to(l - 1) \union {refs[l]}, ApplySnapshot(job, f[l - 1], refs[l]))
      BY <3>2, <3>4, <3>5, <3>6, ApplySnapshotFolds
    <3> QED  BY <2>3, <3>3, <3>7, <3>8
  <2> QED  BY <2>4, <2>5
<1>7. AllFolded(job, to(L), f[L])
  <2>1. L \in 0 .. L
    BY <1>1
  <2> HIDE DEF to
  <2> QED  BY <1>6, <2>1
<1> QED  BY <1>3, <1>7 DEF L

-----------------------------------------------------------------------------
(* The price that a set of intervals gives is the one they all have. *)
LEMMA PriceInTelling ==
    ASSUME NEW set, NEW m, NEW t, NEW p,
           \A i \in CoveredBy(set, m, t) : i.price = p,
           p # NoPrice => CoveredBy(set, m, t) # {}
    PROVE  PriceIn(set, m, t) = p
<1>1. CASE CoveredBy(set, m, t) = {}
  BY <1>1 DEF PriceIn
<1>2. CASE CoveredBy(set, m, t) # {}
  BY <1>2 DEF PriceIn
<1> QED  BY <1>1, <1>2

(* What a job should know, and the price list it should tell. *)
LEMMA EvidenceUsed ==
    ASSUME NEW job, Spanning(job)
    PROVE  /\ Evidence(job) = Used(job) \ unreadable
           /\ \A m, t : HistoryPrice(job, m, t) = PriceBy(job, Evidence(job), m, t)
<1>1. job.from \in Nat /\ job.to \in Nat /\ job.from < job.to
  BY DEF Spanning
<1>2. PICK lo \in {BaselineOf(job.from), BaselineOf(job.from) + 1} : InRange(job.from, job.to) = lo .. LatestBy(job.to)
  BY <1>1, RangeInterval
<1>3. BaselineOf(job.from) \in Nat /\ LatestBy(job.to) \in Nat /\ BaselineOf(job.from) <= LatestBy(job.to)
  BY <1>1, RangeInterval
<1>4. InRange(job.from, job.to) \union {BaselineOf(job.from)} = Used(job)
  BY <1>2, <1>3 DEF Used
<1>5. Evidence(job) = Used(job) \ unreadable
  BY <1>4 DEF Evidence, BaselineOf
<1>6. \A m, t : HistoryPrice(job, m, t) = PriceBy(job, Evidence(job), m, t)
  BY DEF HistoryPrice, PriceBy, Showing
<1> QED  BY <1>5, <1>6

(* Candidates, closed or not, tell the prices of what was folded in. *)
PricesOf(job, E, set) ==
  /\ \A i \in set : i.model \in HistModels /\ i.price \in HistPrices
  /\ \A m \in job.models, t \in job.from .. job.to - 1 : PriceIn(set, m, t) = PriceBy(job, E, m, t)

LEMMA FoldedPrices ==
    ASSUME NEW job, Spanning(job), NEW E, NEW set, AllFolded(job, E, set)
    PROVE  PricesOf(job, E, set)
<1>1. ASSUME NEW i \in set  PROVE i.model \in HistModels /\ i.price \in HistPrices
  <2>1. i.model \in job.models /\ i \in Mine(set, i.model)
    BY DEF AllFolded, Mine
  <2>2. i \in Intervals
    BY <2>1 DEF AllFolded, Folded, Placed
  <2> QED  BY <2>2 DEF Intervals
<1>2. ASSUME NEW m \in job.models, NEW t \in job.from .. job.to - 1
      PROVE  PriceIn(set, m, t) = PriceBy(job, E, m, t)
  <2>1. CoveredBy(Mine(set, m), m, t) = CoveredBy(set, m, t)
    BY DEF CoveredBy, Mine
  <2>2. /\ \A i \in CoveredBy(set, m, t) : i.price = PriceBy(job, E, m, t)
        /\ PriceBy(job, E, m, t) # NoPrice => CoveredBy(set, m, t) # {}
    BY <2>1 DEF AllFolded, Folded, Telling
  <2> QED  BY <2>2, PriceInTelling
<1> QED  BY <1>1, <1>2 DEF PricesOf

LEMMA ClosedPrices ==
    ASSUME HistoryAssumption, NEW job, Spanning(job), NEW E, NEW set, AllFolded(job, E, set)
    PROVE  PricesOf(job, E, CloseOpen(job, set))
<1> DEFINE end(i) == [i EXCEPT !.until = IF i.until = Open THEN job.to ELSE i.until]
           new == CloseOpen(job, set)
<1>1. ASSUME NEW i \in set
      PROVE  /\ i.model \in job.models /\ i.model \in HistModels /\ i \in Intervals
             /\ i.from < job.to /\ i \in Mine(set, i.model)
  <2>1. i.model \in job.models /\ i \in Mine(set, i.model)
    BY DEF AllFolded, Mine
  <2>2. i \in Intervals /\ i.from < job.to
    BY <2>1 DEF AllFolded, Folded, Placed
  <2> QED  BY <2>1, <2>2 DEF Intervals
<1>2. new = {end(i) : i \in set}
  <2>1. {i \in set : i.until = Open => i.from < job.to} = set
    BY <1>1
  <2> QED  BY <2>1 DEF CloseOpen
<1>3. ASSUME NEW i \in set
      PROVE  /\ end(i).model = i.model /\ end(i).from = i.from /\ end(i).price = i.price
             /\ end(i).until = IF i.until = Open THEN job.to ELSE i.until
  BY <1>1 DEF Intervals
<1>4. job.to \in Nat /\ job.to < Open /\ Open \in Nat /\ job.from \in Nat
  BY HistoryAssumption DEF Spanning, Open
<1> HIDE DEF end, new
<1>5. \A i \in new : i.model \in HistModels /\ i.price \in HistPrices
  <2> SUFFICES ASSUME NEW j \in new  PROVE j.model \in HistModels /\ j.price \in HistPrices
    OBVIOUS
  <2>1. PICK i \in set : j = end(i)
    BY <1>2
  <2>2. i.model \in HistModels /\ i.price \in HistPrices
    BY <1>1 DEF Intervals
  <2> QED  BY <1>3, <2>1, <2>2
<1>6. ASSUME NEW m \in job.models, NEW t \in job.from .. job.to - 1
      PROVE  PriceIn(new, m, t) = PriceBy(job, E, m, t)
  <2>1. CoveredBy(Mine(set, m), m, t) = CoveredBy(set, m, t)
    BY DEF CoveredBy, Mine
  <2>2. /\ \A i \in CoveredBy(set, m, t) : i.price = PriceBy(job, E, m, t)
        /\ PriceBy(job, E, m, t) # NoPrice => CoveredBy(set, m, t) # {}
    BY <2>1 DEF AllFolded, Folded, Telling
  <2>3. t \in Nat /\ t < job.to /\ t < Open
    BY <1>4
  <2>4. ASSUME NEW i \in set
        PROVE  end(i) \in CoveredBy(new, m, t) <=> i \in CoveredBy(set, m, t)
    <3>1. end(i) \in new
      BY <1>2
    <3>2. t < end(i).until <=> t < i.until
      BY <1>3, <2>3
    <3> QED  BY <1>3, <3>1, <3>2 DEF CoveredBy
  <2>5. \A j \in CoveredBy(new, m, t) : j.price = PriceBy(job, E, m, t)
    <3> SUFFICES ASSUME NEW j \in CoveredBy(new, m, t)  PROVE j.price = PriceBy(job, E, m, t)
      OBVIOUS
    <3>1. j \in new
      BY DEF CoveredBy
    <3>2. PICK i \in set : j = end(i)
      BY <1>2, <3>1
    <3> QED  BY <1>3, <2>2, <2>4, <3>2
  <2>6. PriceBy(job, E, m, t) # NoPrice => CoveredBy(new, m, t) # {}
    <3> SUFFICES ASSUME PriceBy(job, E, m, t) # NoPrice  PROVE CoveredBy(new, m, t) # {}
      OBVIOUS
    <3>1. PICK i \in CoveredBy(set, m, t) : TRUE
      BY <2>2
    <3>2. i \in set
      BY <3>1 DEF CoveredBy
    <3> QED  BY <2>4, <3>1, <3>2
  <2> QED  BY <2>5, <2>6, PriceInTelling
<1> QED  BY <1>5, <1>6 DEF PricesOf, new

-----------------------------------------------------------------------------
(* The list of commits, from the last commit back to the baseline: the     *)
(* baseline and the n newest others, and all of them oldest first.         *)
Listed(first, last, n) == [i \in 1 .. n + 1 |-> IF i = 1 THEN first ELSE last - i + 2]
Ordered(first, last) == [i \in 1 .. last - first + 1 |-> first + i - 1]

LEMMA NumbersListed ==
    ASSUME NEW n \in Nat, NEW s, s = [i \in 1 .. n |-> s[i]], \A i \in 1 .. n : s[i] \in Nat
    PROVE  s \in Seq(Nat) /\ Len(s) = n
<1>1. s \in [1 .. n -> Nat]
  OBVIOUS
<1>2. s \in Seq(Nat)
  BY <1>1, SeqDef
<1>3. DOMAIN s = 1 .. n /\ DOMAIN s = 1 .. Len(s) /\ Len(s) \in Nat
  BY <1>1, <1>2, LenProperties
<1> QED  BY <1>2, <1>3

LEMMA ListedTyped ==
    ASSUME NEW first \in Nat, NEW last \in Nat, first <= last, NEW n \in 0 .. last - first
    PROVE  /\ Listed(first, last, n) \in Seq(Nat) /\ Len(Listed(first, last, n)) = n + 1
           /\ Listed(first, last, n)[1] = first
           /\ \A i \in 2 .. n + 1 : Listed(first, last, n)[i] = last - i + 2
           /\ ToSet(Listed(first, last, n)) = {first} \union (last - n + 1 .. last)
<1> DEFINE s == Listed(first, last, n)
<1>1. n + 1 \in Nat /\ n \in Nat
  OBVIOUS
<1>2. s[1] = first /\ \A i \in 2 .. n + 1 : s[i] = last - i + 2
  BY <1>1 DEF Listed
<1>3. \A i \in 1 .. n + 1 : s[i] \in Nat
  <2> SUFFICES ASSUME NEW i \in 1 .. n + 1  PROVE s[i] \in Nat
    OBVIOUS
  <2>1. i = 1 \/ (i \in 2 .. n + 1 /\ last - i + 2 \in Nat)
    OBVIOUS
  <2> QED  BY <1>2, <2>1
<1>4. s = [i \in 1 .. n + 1 |-> s[i]] /\ DOMAIN s = 1 .. n + 1
  BY DEF Listed
<1> HIDE DEF s
<1>5. s \in Seq(Nat) /\ Len(s) = n + 1
  BY <1>1, <1>3, <1>4, NumbersListed
<1>6. ToSet(s) = {first} \union (last - n + 1 .. last)
  <2>1. \A x \in ToSet(s) : x \in {first} \union (last - n + 1 .. last)
    <3> SUFFICES ASSUME NEW i \in 1 .. n + 1  PROVE s[i] \in {first} \union (last - n + 1 .. last)
      BY <1>4 DEF ToSet
    <3>1. i = 1 \/ i \in 2 .. n + 1
      OBVIOUS
    <3> QED  BY <1>2, <3>1
  <2>2. ASSUME NEW x \in last - n + 1 .. last  PROVE x \in ToSet(s)
    <3>1. last - x + 2 \in 2 .. n + 1 /\ last - x + 2 \in DOMAIN s
      BY <1>4
    <3>2. s[last - x + 2] = x
      BY <1>2, <3>1
    <3> QED  BY <3>1, <3>2 DEF ToSet
  <2>3. first \in ToSet(s)
    <3>1. 1 \in DOMAIN s
      BY <1>1, <1>4
    <3> QED  BY <1>2, <3>1 DEF ToSet
  <2> QED  BY <2>1, <2>2, <2>3
<1> QED  BY <1>2, <1>5, <1>6 DEF s

(* The list s goes on with the commits of rest. *)
LEMMA ListGoesOn ==
    ASSUME NEW first \in Nat, NEW last \in Nat, first <= last,
           NEW a \in 0 .. last - first, NEW b \in a .. last - first,
           NEW rest, rest = [i \in 1 .. b - a |-> last - a - i + 1]
    PROVE  Listed(first, last, a) \o rest = Listed(first, last, b)
<1> DEFINE s == Listed(first, last, a)
           all == Listed(first, last, b)
           n == b - a
<1>1. a \in Nat /\ b \in Nat /\ n \in Nat /\ b \in 0 .. last - first
  OBVIOUS
<1>2. s \in Seq(Nat) /\ Len(s) = a + 1 /\ s[1] = first /\ \A i \in 2 .. a + 1 : s[i] = last - i + 2
  BY ListedTyped
<1>3. all \in Seq(Nat) /\ Len(all) = b + 1 /\ all[1] = first /\ \A i \in 2 .. b + 1 : all[i] = last - i + 2
  BY <1>1, ListedTyped
<1>4. rest = [i \in 1 .. n |-> rest[i]] /\ \A i \in 1 .. n : rest[i] = last - a - i + 1 /\ rest[i] \in Nat
  OBVIOUS
<1>5. rest \in Seq(Nat) /\ Len(rest) = n
  BY <1>1, <1>4, NumbersListed
<1> HIDE DEF s, all
<1>6. /\ s \o rest \in Seq(Nat) /\ Len(s \o rest) = Len(s) + Len(rest)
      /\ \A i \in 1 .. Len(s) + Len(rest) :
           (s \o rest)[i] = IF i <= Len(s) THEN s[i] ELSE rest[i - Len(s)]
  BY <1>2, <1>5, ConcatProperties
<1>7. Len(s \o rest) = Len(all) /\ Len(s) + Len(rest) = b + 1
  BY <1>1, <1>2, <1>3, <1>5, <1>6
<1>8. ASSUME NEW i \in 1 .. b + 1  PROVE (s \o rest)[i] = all[i]
  <2>1. (s \o rest)[i] = IF i <= a + 1 THEN s[i] ELSE rest[i - (a + 1)]
    BY <1>2, <1>6, <1>7
  <2>2. CASE i = 1
    BY <1>1, <1>2, <1>3, <2>1, <2>2
  <2>3. CASE i # 1 /\ i <= a + 1
    <3>1. i \in 2 .. a + 1 /\ i \in 2 .. b + 1
      BY <1>1, <2>3
    <3> QED  BY <1>2, <1>3, <2>1, <2>3, <3>1
  <2>4. CASE ~(i <= a + 1)
    <3>1. i - (a + 1) \in 1 .. n /\ i \in 2 .. b + 1
      BY <1>1, <2>4
    <3>2. last - a - (i - (a + 1)) + 1 = last - i + 2
      BY <3>1
    <3> QED  BY <1>3, <1>4, <2>1, <2>4, <3>1, <3>2
  <2> QED  BY <2>2, <2>3, <2>4
<1>9. \A i \in 1 .. Len(s \o rest) : (s \o rest)[i] = all[i]
  BY <1>3, <1>7, <1>8
<1>10. s \o rest = all
  BY <1>3, <1>6, <1>7, <1>9, SeqEqual
<1> QED  BY <1>10 DEF s, all

(* One page more, of len commits behind the k newest.  Only the baseline,  *)
(* the last of the page, may be listed already.                            *)
PageEnds(first, last, a, k, len, b) ==
  /\ a <= k /\ (b > a => a = k)
  /\ b = k + len \/ (b = last - first /\ k + len = last - first + 1)

LEMMA AppendListed ==
    ASSUME NEW first \in Nat, NEW last \in Nat, first <= last,
           NEW a \in 0 .. last - first, NEW b \in a .. last - first,
           NEW k \in Nat, NEW len \in Nat, PageEnds(first, last, a, k, len, b),
           NEW more, more = [i \in 1 .. len |-> last - k - i + 1]
    PROVE  AppendUnique(Listed(first, last, a), more) = Listed(first, last, b)
<1> DEFINE s == Listed(first, last, a)
           n == b - a
           rest == [i \in 1 .. n |-> more[i]]
<1>1. ToSet(s) = {first} \union (last - a + 1 .. last)
  <2>1. first \in Nat /\ last \in Nat /\ first <= last /\ a \in 0 .. last - first
    OBVIOUS
  <2> QED  BY ONLY <2>1, ListedTyped DEF s
<1>2. \A i \in 1 .. len : more[i] = last - k - i + 1 /\ more[i] \in Nat
  BY DEF PageEnds
<1>3. more = [i \in 1 .. len |-> more[i]]
  OBVIOUS
<1>4. more \in Seq(Nat) /\ Len(more) = len
  BY <1>2, <1>3, NumbersListed
<1>5. n \in 0 .. len
  BY DEF PageEnds
<1> HIDE DEF s
<1>6. \A i \in 1 .. len : more[i] \notin ToSet(s) <=> i <= n
  <2> SUFFICES ASSUME NEW i \in 1 .. len  PROVE more[i] \notin ToSet(s) <=> i <= n
    OBVIOUS
  <2>1. more[i] = last - k - i + 1 /\ ~(more[i] >= last - a + 1)
    BY <1>2 DEF PageEnds
  <2>2. more[i] \in ToSet(s) <=> more[i] = first
    BY <1>1, <2>1
  <2>3. more[i] = first <=> ~(i <= n)
    BY <2>1 DEF PageEnds
  <2> QED  BY <2>2, <2>3
<1>7. rest = [i \in 1 .. b - a |-> last - a - i + 1]
  <2>1. \A i \in 1 .. n : i \in 1 .. len /\ last - k - i + 1 = last - a - i + 1
    BY DEF PageEnds
  <2> QED  BY <1>2, <2>1
<1> HIDE DEF n
<1>8. Without(more, ToSet(s)) = rest
  <2>1. n \in 0 .. Len(more) /\ \A i \in 1 .. Len(more) : more[i] \notin ToSet(s) <=> i <= n
    BY <1>4, <1>5, <1>6
  <2> HIDE DEF rest
  <2>2. Without(more, ToSet(s)) = [i \in 1 .. n |-> more[i]]
    BY ONLY <1>4, <2>1, WithoutTail
  <2> QED  BY <2>2 DEF rest
<1> HIDE DEF rest
<1>9. Listed(first, last, a) \o rest = Listed(first, last, b)
  <2>1. /\ first \in Nat /\ last \in Nat /\ first <= last
        /\ a \in 0 .. last - first /\ b \in a .. last - first
    OBVIOUS
  <2> QED  BY ONLY <1>7, <2>1, ListGoesOn
<1> QED  BY <1>8, <1>9 DEF AppendUnique, s

(* The complete list is put in order. *)
LEMMA OrderListed ==
    ASSUME NEW first \in Nat, NEW last \in Nat, first <= last
    PROVE  /\ ExecutionOrder(Listed(first, last, last - first)) = Ordered(first, last)
           /\ Ordered(first, last) \in Seq(Nat) /\ Len(Ordered(first, last)) = last - first + 1
           /\ \A i \in 1 .. last - first + 1 : Ordered(first, last)[i] = first + i - 1
<1> DEFINE n == last - first
           s == Listed(first, last, n)
           tail == Tail(s)
           back == Reverse(tail)
           all == Ordered(first, last)
<1>1. n \in Nat /\ n \in 0 .. last - first
  OBVIOUS
<1>2. /\ s \in Seq(Nat) /\ Len(s) = n + 1 /\ s[1] = first
      /\ \A i \in 2 .. n + 1 : s[i] = last - i + 2
  <2>1. first \in Nat /\ last \in Nat /\ first <= last /\ n \in 0 .. last - first
    BY <1>1
  <2> HIDE DEF n
  <2> QED  BY ONLY <2>1, ListedTyped DEF s
<1>3. all = [i \in 1 .. n + 1 |-> all[i]] /\ \A i \in 1 .. n + 1 : all[i] = first + i - 1 /\ all[i] \in Nat
  BY DEF Ordered
<1>4. all \in Seq(Nat) /\ Len(all) = n + 1
  <2> HIDE DEF all
  <2> QED  BY <1>1, <1>3, NumbersListed
<1> HIDE DEF s, all
<1>5. s # << >> /\ Head(s) = first
  BY <1>1, <1>2
<1>6. tail \in Seq(Nat) /\ Len(tail) = n /\ \A i \in 1 .. n : tail[i] = last - i + 1
  <2>1. tail \in Seq(Nat) /\ Len(tail) = n /\ \A i \in 1 .. n : tail[i] = s[i + 1]
    BY <1>1, <1>2, <1>5, HeadTailProperties
  <2>2. \A i \in 1 .. n : i + 1 \in 2 .. n + 1 /\ last - (i + 1) + 2 = last - i + 1
    OBVIOUS
  <2> HIDE DEF tail
  <2> QED  BY <1>2, <2>1, <2>2
<1> HIDE DEF tail
<1>7. \A i \in 1 .. n : tail[i] \notin {first} <=> i <= n
  BY <1>6
<1>8. tail = [i \in 1 .. n |-> tail[i]]
  BY <1>6, LenProperties
<1>9. Without(tail, {first}) = tail
  BY <1>1, <1>6, <1>7, <1>8, WithoutTail
<1>10. back = [i \in 1 .. n |-> back[i]] /\ \A i \in 1 .. n : back[i] = first + i /\ back[i] \in Nat
  <2>1. back = [i \in 1 .. n |-> tail[n - i + 1]]
    BY <1>6 DEF Reverse
  <2>2. \A i \in 1 .. n : n - i + 1 \in 1 .. n /\ last - (n - i + 1) + 1 = first + i
    OBVIOUS
  <2>3. ASSUME NEW i \in 1 .. n  PROVE back[i] = first + i /\ back[i] \in Nat
    <3>1. n - i + 1 \in 1 .. n /\ last - (n - i + 1) + 1 = first + i /\ first + i \in Nat
      BY <2>2
    <3>2. tail[n - i + 1] = last - (n - i + 1) + 1
      BY ONLY <1>6, <3>1
    <3>3. back[i] = tail[n - i + 1]
      BY ONLY <2>1, i \in 1 .. n
    <3> QED  BY ONLY <3>1, <3>2, <3>3
  <2>4. back = [i \in 1 .. n |-> back[i]]
    <3> HIDE DEF back
    <3> QED  BY ONLY <2>1
  <2> QED  BY ONLY <2>3, <2>4
<1> HIDE DEF back
<1>11. back \in Seq(Nat) /\ Len(back) = n
  BY <1>1, <1>10, NumbersListed
<1>12. <<first>> \in Seq(Nat) /\ Len(<<first>>) = 1 /\ <<first>>[1] = first
  OBVIOUS
<1>13. /\ <<first>> \o back \in Seq(Nat) /\ Len(<<first>> \o back) = n + 1
       /\ \A i \in 1 .. n + 1 : (<<first>> \o back)[i] = IF i <= 1 THEN <<first>>[i] ELSE back[i - 1]
  <2>1. 1 + n = n + 1
    BY <1>1
  <2>2. /\ <<first>> \o back \in Seq(Nat) /\ Len(<<first>> \o back) = Len(<<first>>) + Len(back)
        /\ \A i \in 1 .. Len(<<first>>) + Len(back) :
             (<<first>> \o back)[i] = IF i <= Len(<<first>>) THEN <<first>>[i] ELSE back[i - Len(<<first>>)]
    BY <1>11, <1>12, ConcatProperties
  <2> QED  BY <1>11, <1>12, <2>1, <2>2
<1>14. ASSUME NEW i \in 1 .. n + 1  PROVE (<<first>> \o back)[i] = all[i]
  <2>1. CASE i = 1
    BY <1>1, <1>3, <1>12, <1>13, <2>1
  <2>2. CASE i # 1
    <3>1. i - 1 \in 1 .. n /\ ~(i <= 1) /\ first + (i - 1) = first + i - 1
      BY <2>2
    <3> QED  BY <1>3, <1>10, <1>13, <3>1
  <2> QED  BY <2>1, <2>2
<1>15. <<first>> \o back = all
  BY <1>4, <1>13, <1>14, SeqEqual
<1>16. ExecutionOrder(s) = all
  BY <1>5, <1>9, <1>15 DEF ExecutionOrder, tail, back
<1> QED  BY <1>3, <1>4, <1>16 DEF s, all

(* The pages of a job cut its range into pieces: the number of commits on  *)
(* the pages before, and on a page behind k of size.                       *)
Skipped(job) == (job.page - 1) * HistPage
PageLen(size, k) == IF k + HistPage <= size THEN HistPage ELSE size - k

LEMMA MinOfTwo ==
    ASSUME NEW x \in Nat, NEW y \in Nat
    PROVE  Min({x, y}) = IF x <= y THEN x ELSE y
<1> DEFINE D == {x, y}
<1>1. Min(D) \in D /\ \A j \in D : Min(D) <= j
  <2>1. D \in SUBSET Nat /\ D # {}
    OBVIOUS
  <2> HIDE DEF D
  <2> QED  BY <2>1, MinOf
<1> QED  BY <1>1

LEMMA PageListed ==
    ASSUME HistoryAssumption, NEW job, job.page \in Nat \ {0},
           NEW lo \in Nat, NEW last \in Nat, lo <= last + 1, InRange(job.from, job.to) = lo .. last,
           NEW k, k = Skipped(job), k <= last - lo + 1
    PROVE  /\ k \in Nat /\ PageLen(last - lo + 1, k) \in Nat
           /\ Page(job) = [i \in 1 .. PageLen(last - lo + 1, k) |-> last - k - i + 1]
           /\ Len(Page(job)) = PageLen(last - lo + 1, k)
<1> DEFINE size == last - lo + 1
           len == PageLen(size, k)
           all == Newest(lo .. last)
           page == [i \in 1 .. len |-> last - k - i + 1]
<1>1. HistPage \in Nat \ {0} /\ job.page - 1 \in Nat /\ size \in Nat
  BY HistoryAssumption
<1>2. k \in Nat
  BY <1>1 DEF Skipped
<1>3. job.page * HistPage = k + HistPage
  BY <1>1 DEF Skipped
<1>4. len \in Nat /\ (IF k + HistPage <= size THEN k + HistPage ELSE size) = k + len
  BY <1>1, <1>2 DEF PageLen
<1>5. all = [n \in 1 .. size |-> last - n + 1]
  BY NewestInterval
<1>6. all = [n \in 1 .. size |-> all[n]] /\ \A n \in 1 .. size : all[n] = last - n + 1 /\ all[n] \in Nat
  <2>1. \A n \in 1 .. size : last - n + 1 \in Nat
    OBVIOUS
  <2> HIDE DEF size, all
  <2> QED  BY <1>5, <2>1
<1> HIDE DEF all, size, len
<1>7. all \in Seq(Nat) /\ Len(all) = size
  BY <1>1, <1>6, NumbersListed
<1>8. Min({job.page * HistPage, Len(all)}) = k + len
  <2>1. k + HistPage \in Nat
    BY <1>1, <1>2
  <2> QED  BY <1>1, <1>3, <1>4, <1>7, <2>1, MinOfTwo
<1>9. Page(job) = SubSeq(all, k + 1, k + len)
  BY <1>8 DEF Page, all, Skipped
<1>10. k + len <= size
  BY <1>1, <1>2, <1>4
<1>11. /\ SubSeq(all, k + 1, k + len) \in Seq(Nat)
       /\ Len(SubSeq(all, k + 1, k + len)) = len
       /\ \A i \in 1 .. len : SubSeq(all, k + 1, k + len)[i] = all[k + i]
  <2>1. ASSUME NEW i \in k + 1 .. k + len  PROVE all[i] \in Nat
    <3>1. i \in 1 .. size
      BY <1>1, <1>2, <1>4, <1>10
    <3> QED  BY ONLY <1>6, <3>1
  <2>2. k + 1 \in Int /\ k + len \in Int
    BY <1>2, <1>4
  <2>3. /\ SubSeq(all, k + 1, k + len) \in Seq(Nat)
        /\ Len(SubSeq(all, k + 1, k + len)) =
             IF k + 1 <= k + len THEN (k + len) - (k + 1) + 1 ELSE 0
        /\ \A i \in 1 .. (k + len) - (k + 1) + 1 :
             SubSeq(all, k + 1, k + len)[i] = all[(k + 1) + i - 1]
    BY ONLY <2>1, <2>2, SubSeqProperties
  <2>4. (k + len) - (k + 1) + 1 = len /\ \A i \in 1 .. len : (k + 1) + i - 1 = k + i
    BY <1>2, <1>4
  <2>5. (IF k + 1 <= k + len THEN (k + len) - (k + 1) + 1 ELSE 0) = len
    BY <1>2, <1>4
  <2> QED  BY <2>3, <2>4, <2>5
<1>12. page = [i \in 1 .. len |-> page[i]] /\ \A i \in 1 .. len : page[i] = all[k + i] /\ page[i] \in Nat
  <2>1. ASSUME NEW i \in 1 .. len
        PROVE  last - k - i + 1 = all[k + i] /\ last - k - i + 1 \in Nat
    <3>1. k \in Nat /\ len \in Nat /\ size \in Nat /\ k + len <= size /\ last \in Nat
      BY <1>1, <1>2, <1>4, <1>10
    <3>2. k + i \in 1 .. size /\ last - (k + i) + 1 = last - k - i + 1
      BY ONLY <3>1, i \in 1 .. len
    <3>3. all[k + i] = last - (k + i) + 1 /\ all[k + i] \in Nat
      BY ONLY <1>6, <3>2
    <3> QED  BY ONLY <3>2, <3>3
  <2>2. \A i \in 1 .. len : page[i] = last - k - i + 1
    OBVIOUS
  <2>3. page = [i \in 1 .. len |-> page[i]]
    OBVIOUS
  <2> HIDE DEF page
  <2> QED  BY ONLY <2>1, <2>2, <2>3
<1> HIDE DEF page
<1>13. page \in Seq(Nat) /\ Len(page) = len
  BY <1>4, <1>12, NumbersListed
<1>14. SubSeq(all, k + 1, k + len) = page
  <2> DEFINE part == SubSeq(all, k + 1, k + len)
  <2>1. \A i \in 1 .. Len(part) : part[i] = page[i]
    BY <1>11, <1>12
  <2>2. part \in Seq(Nat) /\ Len(part) = Len(page)
    BY <1>11, <1>13
  <2> HIDE DEF part
  <2> QED  BY ONLY <1>13, <2>1, <2>2, SeqEqual DEF part
<1> QED  BY <1>2, <1>4, <1>9, <1>13, <1>14 DEF page, size, len

-----------------------------------------------------------------------------
(* The readable snapshots before the first that is not. *)
LEMMA ReadableOf ==
    ASSUME NEW refs \in Seq(Nat)
    PROVE  /\ Readable(refs) \in 0 .. Len(refs)
           /\ \A i \in 1 .. Readable(refs) : refs[i] \notin unreadable
           /\ Readable(refs) < Len(refs) => refs[Readable(refs) + 1] \in unreadable
<1> DEFINE ok(n) == /\ \A i \in 1 .. n : refs[i] \notin unreadable
                    /\ n < Len(refs) => refs[n + 1] \in unreadable
           D == {i \in 1 .. Len(refs) : refs[i] \in unreadable}
<1>1. Len(refs) \in Nat
  BY LenProperties
<1>2. \E n \in 0 .. Len(refs) : ok(n)
  <2>1. CASE D = {}
    <3>1. ok(Len(refs)) /\ Len(refs) \in 0 .. Len(refs)
      BY <1>1, <2>1
    <3> QED  BY <3>1
  <2>2. CASE D # {}
    <3> DEFINE l == Min(D)
    <3>1. D \in SUBSET Nat
      BY <1>1
    <3> HIDE DEF l, D
    <3>2. l \in D /\ \A j \in D : l <= j
      BY <2>2, <3>1, MinOf DEF l
    <3>3. l \in 1 .. Len(refs) /\ refs[l] \in unreadable
      BY <3>2 DEF D
    <3>4. l - 1 \in 0 .. Len(refs) /\ (l - 1) + 1 = l
      BY <1>1, <3>3
    <3>5. \A i \in 1 .. l - 1 : refs[i] \notin unreadable
      <4> SUFFICES ASSUME NEW i \in 1 .. l - 1, refs[i] \in unreadable  PROVE FALSE
        OBVIOUS
      <4>1. i \in 1 .. Len(refs) /\ ~(l <= i)
        BY <1>1, <3>3
      <4> QED  BY <3>2, <4>1 DEF D
    <3>6. ok(l - 1)
      BY <3>3, <3>4, <3>5
    <3> QED  BY <3>4, <3>6
  <2> QED  BY <2>1, <2>2
<1>3. Readable(refs) = CHOOSE n \in 0 .. Len(refs) : ok(n)
  BY DEF Readable
<1> DEFINE r == Readable(refs)
<1> HIDE DEF r
<1>4. r \in 0 .. Len(refs) /\ ok(r)
  BY <1>2, <1>3 DEF r
<1> QED  BY <1>4 DEF r

(* The days of usage. *)
LEMMA DayOfBounds ==
    ASSUME HistoryAssumption, NEW t \in Nat
    PROVE  DayOf(t) \in Nat /\ DayOf(t) <= t /\ t < DayOf(t) + HistDay
<1>1. HistDay \in Nat \ {0}
  BY HistoryAssumption
<1>2. t % HistDay \in 0 .. HistDay - 1
  BY <1>1
<1>3. t % HistDay <= t
  BY <1>1
<1> QED  BY <1>1, <1>2, <1>3 DEF DayOf

(* A job spans the days of the usage it was created for. *)
UsageTyped == \A u \in usage : u.model \in HistModels /\ u.at \in Nat /\ u.at < now

LEMMA JobInputSpans ==
    ASSUME HistoryAssumption, now \in 0 .. HistTicks, UsageTyped, UnpricedUsage # {}
    PROVE  /\ Spanning(JobInput)
           /\ JobInput \in [from : Nat, to : Nat, models : SUBSET HistModels]
<1> DEFINE T == {u.at : u \in UnpricedUsage}
           models == {u.model : u \in UnpricedUsage}
           first == Min(T)
           last == Max(T)
<1>1. \A u \in UnpricedUsage : u.model \in HistModels /\ u.at \in Nat /\ u.at < now
  BY DEF UnpricedUsage, UsageTyped
<1>2. now \in Nat /\ HistTicks \in Nat /\ now <= HistTicks /\ HistDay \in Nat \ {0}
  BY HistoryAssumption
<1>3. T \in SUBSET Nat /\ T # {} /\ \A t \in T : t <= HistTicks - 1
  BY <1>1, <1>2
<1>4. models \in SUBSET HistModels
  BY <1>1
<1>5. JobInput = [from |-> DayOf(first), to |-> DayOf(last) + HistDay, models |-> models]
  BY DEF JobInput
<1> HIDE DEF T, models
<1>6. first \in T /\ \A t \in T : first <= t
  BY <1>3, MinOf
<1>7. HistTicks - 1 \in Nat
  <2>1. first \in Nat /\ first <= HistTicks - 1
    BY <1>3, <1>6
  <2> QED  BY <1>2, <2>1
<1>8. last \in T /\ \A t \in T : t <= last
  BY <1>3, <1>7, MaxOf
<1> HIDE DEF first, last
<1>9. first \in Nat /\ last \in Nat /\ first <= last /\ last <= HistTicks - 1
  BY <1>3, <1>6, <1>8
<1>10. DayOf(first) \in Nat /\ DayOf(first) <= first
  BY <1>9, DayOfBounds
<1>11. DayOf(last) \in Nat /\ DayOf(last) <= last /\ last < DayOf(last) + HistDay
  BY <1>9, DayOfBounds
<1> DEFINE to == DayOf(last) + HistDay
<1>12. to \in Nat /\ DayOf(first) < to /\ to < Open /\ to > 0
  BY <1>2, <1>9, <1>10, <1>11 DEF Open
<1>13. \A c \in Commits : CommitTime[c] # to
  <2> SUFFICES ASSUME NEW c \in Commits  PROVE CommitTime[c] # to
    OBVIOUS
  <2>1. CASE c = 1
    BY <1>12, <2>1, HistTimesAssumption
  <2>2. CASE c # 1
    <3>1. last \in Ticks
      BY <1>2, <1>9 DEF Ticks
    <3> QED  BY <2>2, <3>1, HistTimesAssumption
  <2> QED  BY <2>1, <2>2
<1> HIDE DEF to
<1>14. JobInput = [from |-> DayOf(first), to |-> to, models |-> models]
  BY <1>5 DEF to
<1>15. /\ JobInput.from = DayOf(first) /\ JobInput.to = to /\ JobInput.models = models
       /\ JobInput \in [from : Nat, to : Nat, models : SUBSET HistModels]
  BY <1>4, <1>10, <1>12, <1>14
<1> QED  BY <1>4, <1>10, <1>12, <1>13, <1>15 DEF Spanning

-----------------------------------------------------------------------------
(* The job row: the commits that are folded in when the cursor is at n,    *)
(* and what the row and the candidates hold in each state.                 *)
JobStates == {"pending", "listing", "fetching", "waiting", "promoting"}
JobRows == [id : Nat \ {0}, state : JobStates, from : Nat, to : Nat, models : SUBSET HistModels,
         refs : Seq(Nat), page : Nat, next : Nat, failures : 0 .. HistSkipAfter]

ReadUpTo(job, n) == (BaselineOf(job.from) .. BaselineOf(job.from) + n - 1) \ unreadable

JobPending(job, set) ==
  /\ job.state \in {"pending", "waiting"}
  /\ job.page = 0 /\ job.refs = << >> /\ job.next = 0 /\ set = {}

ListedBy(job) ==
  LET others == LatestBy(job.to) - BaselineOf(job.from)
  IN Listed(BaselineOf(job.from), LatestBy(job.to), IF Skipped(job) <= others THEN Skipped(job) ELSE others)

JobListing(job, set) ==
  /\ job.state \in {"listing", "waiting"}
  /\ job.page > 0 /\ job.next = 0 /\ set = {}
  /\ \E lo \in {BaselineOf(job.from), BaselineOf(job.from) + 1} :
       /\ InRange(job.from, job.to) = lo .. LatestBy(job.to)
       /\ Skipped(job) <= LatestBy(job.to) - lo + 1
  /\ job.refs = ListedBy(job)

JobFetching(job, set) ==
  /\ job.state \in {"fetching", "waiting"}
  /\ job.page = 0 /\ job.refs = Ordered(BaselineOf(job.from), LatestBy(job.to))
  /\ job.next < Len(job.refs)
  /\ AllFolded(job, ReadUpTo(job, job.next), set)

JobPromoting(job, set) ==
  /\ job.state = "promoting"
  /\ job.page = 0 /\ job.refs = Ordered(BaselineOf(job.from), LatestBy(job.to))
  /\ job.next = Len(job.refs)
  /\ PricesOf(job, Evidence(job), set)

GoodJob(job, set) ==
  /\ job \in JobRows /\ Spanning(job)
  /\ JobPending(job, set) \/ JobListing(job, set) \/ JobFetching(job, set) \/ JobPromoting(job, set)

(* What a row that a stepper has read says of itself, whatever became of   *)
(* the job: what it lists, and, for a snapshot to be skipped, that it is   *)
(* unreadable.                                                             *)
StepStates ==
  {Idle} \union [pc : {"create"}, input : [from : Nat, to : Nat, models : SUBSET HistModels]]
    \union [pc : {"write", "skip"}, job : JobRows]

RowFetching(job) ==
  job.page = 0 /\ job.refs = Ordered(BaselineOf(job.from), LatestBy(job.to)) /\ job.next < Len(job.refs)

StepKnows(step) ==
  /\ step.pc = "create" => Spanning(step.input)
  /\ step.pc \in {"write", "skip"} =>
       /\ Spanning(step.job)
       /\ step.job.state = "listing" => JobListing(step.job, {})
       /\ step.job.state = "fetching" => RowFetching(step.job)
  /\ step.pc = "skip" => step.job.state = "fetching" /\ step.job.refs[step.job.next + 1] \in unreadable

(* The ids of jobs grow: a row of the same id is of the same job.          *)
LastId == Cardinality(histDone) + (IF histJob = NoJob THEN 0 ELSE 1)
RangeOf(job) == [from |-> job.from, to |-> job.to, models |-> job.models]

StepCurrent(step) ==
  step.pc \in {"write", "skip"} =>
    /\ step.job.id <= LastId
    /\ histJob # NoJob /\ step.job.id = histJob.id => RangeOf(step.job) = RangeOf(histJob)

HistoryTyped ==
  /\ SnapshotsTyped /\ now \in 0 .. HistTicks /\ UsageTyped /\ IsFiniteSet(histDone)
  /\ stepper \in [Steppers -> StepStates]

JobInv == (histJob = NoJob /\ candidates = {}) \/ GoodJob(histJob, candidates)
RowInv == histJob # NoJob => histJob.id = LastId /\ RangeOf(histJob) \notin histDone
StepInv == \A s \in Steppers : StepKnows(stepper[s]) /\ StepCurrent(stepper[s])
HistoryInv == HistoryTyped /\ JobInv /\ RowInv /\ StepInv

(* A job keeps what it is about in every state. *)
LEMMA SameRange ==
    ASSUME NEW job, NEW new, new.from = job.from, new.to = job.to, new.models = job.models
    PROVE  /\ Spanning(job) => Spanning(new)
           /\ Used(new) = Used(job) /\ Evidence(new) = Evidence(job)
           /\ \A n : ReadUpTo(new, n) = ReadUpTo(job, n)
           /\ \A E, set : AllFolded(job, E, set) => AllFolded(new, E, set)
           /\ \A E, set : PricesOf(job, E, set) => PricesOf(new, E, set)
<1>1. \A c : Boundary(new, c) = Boundary(job, c)
  BY DEF Boundary
<1>2. \A E, m, t : PriceBy(new, E, m, t) = PriceBy(job, E, m, t)
  BY <1>1 DEF PriceBy
<1>3. \A E, m, mine : Folded(job, E, m, mine) => Folded(new, E, m, mine)
  BY <1>1, <1>2 DEF Folded, Placed, Telling
<1>4. \A E, set : AllFolded(job, E, set) => AllFolded(new, E, set)
  BY <1>3 DEF AllFolded
<1>5. \A E, set : PricesOf(job, E, set) => PricesOf(new, E, set)
  BY <1>2 DEF PricesOf
<1> QED  BY <1>4, <1>5 DEF Spanning, Used, Evidence, ReadUpTo

(* The history itself does not change. *)
LEMMA GoodStays ==
    ASSUME snapshots' = snapshots, unreadable' = unreadable,
           NEW job, NEW set, GoodJob(job, set)
    PROVE  GoodJob(job, set)'
<1>1. \A E, m : Showing(E, m)' = Showing(E, m)
  BY DEF Showing
<1>2. \A E, m, t : PriceBy(job, E, m, t)' = PriceBy(job, E, m, t)
  BY <1>1 DEF PriceBy
<1>3. \A E, m, mine : OpenCurrent(E, m, mine)' <=> OpenCurrent(E, m, mine)
  BY <1>1 DEF OpenCurrent
<1>4. \A E, m, mine : Telling(job, E, m, mine)' <=> Telling(job, E, m, mine)
  BY <1>2 DEF Telling
<1>5. \A E, m, mine : Folded(job, E, m, mine)' <=> Folded(job, E, m, mine)
  BY <1>3, <1>4 DEF Folded
<1>6. \A E : AllFolded(job, E, set)' <=> AllFolded(job, E, set)
  BY <1>5 DEF AllFolded
<1>7. \A E : PricesOf(job, E, set)' <=> PricesOf(job, E, set)
  BY <1>2 DEF PricesOf
<1>8. Evidence(job)' = Evidence(job) /\ ReadUpTo(job, job.next)' = ReadUpTo(job, job.next)
  BY DEF Evidence, ReadUpTo
<1>9. JobFetching(job, set)' <=> JobFetching(job, set)
  BY <1>6, <1>8 DEF JobFetching
<1>10. JobPromoting(job, set)' <=> JobPromoting(job, set)
  BY <1>7, <1>8 DEF JobPromoting
<1> QED  BY <1>9, <1>10 DEF GoodJob

LEMMA JobMoves ==
    ASSUME snapshots' = snapshots, unreadable' = unreadable,
           \/ histJob' = NoJob /\ candidates' = {}
           \/ GoodJob(histJob', candidates')
    PROVE  JobInv'
<1>1. PICK job, set : job = histJob' /\ set = candidates'
  OBVIOUS
<1>2. GoodJob(job, set) => GoodJob(job, set)'
  BY GoodStays
<1> QED  BY <1>1, <1>2 DEF JobInv

-----------------------------------------------------------------------------
(* What the code asks of its callers: a job that waits is resumed into the *)
(* state that its row shows, not one that an older row did.                *)
ResumesFresh ==
  \A s \in Steppers :
    Resume(s) /\ CurrentAt(s, "waiting") => ResumeState(stepper[s].job) = ResumeState(histJob)

LEMMA RealJob ==
    ASSUME NEW job \in JobRows  PROVE job # NoJob
BY DEF JobRows, NoJob

LEMMA TypedStays ==
    ASSUME HistoryTyped, UNCHANGED <<snapshots, now, usage>>, IsFiniteSet(histDone)',
           stepper' \in [Steppers -> StepStates]
    PROVE  HistoryTyped'
BY DEF HistoryTyped, SnapshotsTyped, UsageTyped

(* The step of one leaves the others with what they have read, as long as  *)
(* the row of their id stays the row of their job.                         *)
CurrentStays == \A step \in StepStates : StepCurrent(step) => StepCurrent(step)'

LEMMA KnownStays ==
    ASSUME unreadable' = unreadable, NEW step, StepKnows(step)
    PROVE  StepKnows(step)'
BY DEF StepKnows

LEMMA StepsStay ==
    ASSUME HistoryTyped, StepInv, CurrentStays, unreadable' = unreadable, NEW s \in Steppers,
           NEW new \in StepStates, stepper' = [stepper EXCEPT ![s] = new],
           StepKnows(new), StepCurrent(new)'
    PROVE  StepInv' /\ stepper' \in [Steppers -> StepStates]
<1>1. stepper' \in [Steppers -> StepStates]
  BY DEF HistoryTyped
<1>2. ASSUME NEW t \in Steppers  PROVE (StepKnows(stepper[t]) /\ StepCurrent(stepper[t]))'
  <2>1. PICK step \in StepStates : step = stepper'[t]
    BY <1>1
  <2>2. CASE t = s
    <3>1. step = new
      BY <2>1, <2>2 DEF HistoryTyped
    <3>2. StepKnows(step)' /\ StepCurrent(step)'
      BY <3>1, KnownStays
    <3> QED  BY <2>1, <3>2
  <2>3. CASE t # s
    <3>1. step = stepper[t]
      BY <2>1, <2>3 DEF HistoryTyped
    <3>2. StepKnows(step) /\ StepCurrent(step)
      BY <3>1 DEF StepInv
    <3>3. StepKnows(step)' /\ StepCurrent(step)'
      BY <3>2, KnownStays DEF CurrentStays
    <3> QED  BY <2>1, <3>3
  <2> QED  BY <2>2, <2>3
<1> QED  BY <1>1, <1>2 DEF StepInv

(* After its step the stepper knows nothing. *)
LEMMA StepOver ==
    ASSUME HistoryTyped, StepInv, CurrentStays, unreadable' = unreadable, NEW s \in Steppers, Ends(s)
    PROVE  StepInv' /\ stepper' \in [Steppers -> StepStates]
<1>1. Idle \in StepStates /\ StepKnows(Idle)
  BY DEF StepStates, StepKnows, Idle
<1>2. StepCurrent(Idle)'
  BY DEF StepCurrent, Idle
<1> QED  BY <1>1, <1>2, StepsStay DEF Ends

(* A row that changes within its job, or not at all. *)
LEMMA SameJob ==
    ASSUME RowInv, histDone' = histDone,
           \/ histJob' = histJob
           \/ /\ histJob # NoJob /\ histJob' # NoJob /\ histJob'.id = histJob.id
              /\ RangeOf(histJob') = RangeOf(histJob)
    PROVE  RowInv' /\ CurrentStays
<1>1. LastId' = LastId
  BY DEF LastId
<1>2. RowInv'
  BY <1>1 DEF RowInv, RangeOf
<1>3. CurrentStays
  BY <1>1 DEF CurrentStays, StepCurrent, RangeOf
<1> QED  BY <1>2, <1>3

(* The row that is about to be written is a row of the job of the step. *)
LEMMA OwnJob ==
    ASSUME HistoryInv, NEW s \in Steppers, stepper[s].pc \in {"write", "skip"},
           histJob.id = stepper[s].job.id
    PROVE  /\ GoodJob(histJob, candidates) /\ histJob \in JobRows /\ histJob # NoJob
           /\ stepper[s].job \in JobRows /\ Spanning(stepper[s].job)
           /\ stepper[s].job.from = histJob.from /\ stepper[s].job.to = histJob.to
           /\ stepper[s].job.models = histJob.models
<1>1. stepper[s].job \in JobRows
  <2>1. stepper[s] \in StepStates
    BY DEF HistoryInv, HistoryTyped
  <2> QED  BY <2>1 DEF StepStates, Idle
<1>2. histJob # NoJob
  BY <1>1 DEF NoJob, JobRows
<1>3. GoodJob(histJob, candidates)
  BY <1>2 DEF HistoryInv, JobInv
<1>4. RangeOf(stepper[s].job) = RangeOf(histJob) /\ Spanning(stepper[s].job)
  BY <1>2 DEF HistoryInv, StepInv, StepCurrent, StepKnows
<1>5. /\ stepper[s].job.from = histJob.from /\ stepper[s].job.to = histJob.to
      /\ stepper[s].job.models = histJob.models
  <2>1. /\ RangeOf(stepper[s].job).from = RangeOf(histJob).from
        /\ RangeOf(stepper[s].job).to = RangeOf(histJob).to
        /\ RangeOf(stepper[s].job).models = RangeOf(histJob).models
    BY <1>4
  <2> QED  BY <2>1 DEF RangeOf
<1> QED  BY <1>1, <1>2, <1>3, <1>4, <1>5 DEF GoodJob

(* A row that differs in its state and its failures. *)
LEMMA OtherState ==
    ASSUME NEW job, NEW new, NEW set, job \in JobRows, Spanning(job),
           new.from = job.from, new.to = job.to, new.models = job.models,
           new.refs = job.refs, new.page = job.page, new.next = job.next
    PROVE  /\ Spanning(new)
           /\ JobPending(job, set) /\ new.state \in {"pending", "waiting"} => JobPending(new, set)
           /\ JobListing(job, set) /\ new.state \in {"listing", "waiting"} => JobListing(new, set)
           /\ JobFetching(job, set) /\ new.state \in {"fetching", "waiting"} => JobFetching(new, set)
<1>1. /\ Spanning(new)
      /\ \A n : ReadUpTo(new, n) = ReadUpTo(job, n)
      /\ \A E : AllFolded(job, E, set) => AllFolded(new, E, set)
  BY SameRange
<1>2. Skipped(new) = Skipped(job)
  BY DEF Skipped
<1>3. ListedBy(new) = ListedBy(job)
  BY <1>2 DEF ListedBy
<1>4. JobListing(job, set) /\ new.state \in {"listing", "waiting"} => JobListing(new, set)
  BY <1>2, <1>3 DEF JobListing
<1>5. JobFetching(job, set) /\ new.state \in {"fetching", "waiting"} => JobFetching(new, set)
  BY <1>1 DEF JobFetching
<1> QED  BY <1>1, <1>4, <1>5 DEF JobPending

(* The job goes on: its row stays a good one of the same job. *)
JobGoesOn ==
  /\ GoodJob(histJob', candidates')
  /\ histJob # NoJob /\ histJob' # NoJob
  /\ histJob'.id = histJob.id /\ RangeOf(histJob') = RangeOf(histJob)

(* What a step that writes nothing leaves. *)
LEMMA JobRests ==
    ASSUME JobInv, UNCHANGED <<snapshots, unreadable, histJob, candidates>>
    PROVE  JobInv'
<1>1. (histJob' = NoJob /\ candidates' = {}) \/ GoodJob(histJob', candidates')
  BY DEF JobInv
<1> QED  BY <1>1, JobMoves

LEMMA StepKeeps ==
    ASSUME HistoryInv, NEW s \in Steppers, Ends(s),
           UNCHANGED <<snapshots, unreadable, now, usage, histDone>>,
           UNCHANGED <<histJob, candidates>> \/ JobGoesOn
    PROVE  HistoryInv'
<1>1. JobInv'
  <2>1. CASE UNCHANGED <<histJob, candidates>>
    BY <2>1, JobRests DEF HistoryInv
  <2>2. CASE JobGoesOn
    BY <2>2, JobMoves DEF JobGoesOn
  <2> QED  BY <2>1, <2>2
<1>2. RowInv' /\ CurrentStays
  BY SameJob DEF HistoryInv, JobGoesOn
<1>3. StepInv' /\ stepper' \in [Steppers -> StepStates]
  BY <1>2, StepOver DEF HistoryInv
<1>4. HistoryTyped'
  BY <1>3, TypedStays DEF HistoryInv, HistoryTyped
<1> QED  BY <1>1, <1>2, <1>3, <1>4 DEF HistoryInv

LEMMA ResumeKeeps ==
    ASSUME HistoryInv, NEW s \in Steppers, Resume(s), CurrentAt(s, "waiting"),
           ResumeState(stepper[s].job) = ResumeState(histJob)
    PROVE  JobGoesOn
<1> DEFINE new == [histJob EXCEPT !.state = ResumeState(histJob)]
<1>1. /\ GoodJob(histJob, candidates) /\ histJob \in JobRows
      /\ histJob.state = "waiting" /\ histJob # NoJob
  BY OwnJob DEF Resume, Holds, CurrentAt
<1>2. histJob' = new /\ candidates' = candidates
  BY DEF Resume
<1>3. /\ new \in JobRows /\ new.state = ResumeState(histJob) /\ new.id = histJob.id
      /\ new.from = histJob.from /\ new.to = histJob.to /\ new.models = histJob.models
      /\ new.refs = histJob.refs /\ new.page = histJob.page /\ new.next = histJob.next
  BY <1>1 DEF JobRows, JobStates, ResumeState
<1> HIDE DEF new
<1>4. Spanning(histJob)
  BY <1>1 DEF GoodJob
<1>5. /\ Spanning(new)
      /\ JobPending(histJob, candidates) /\ new.state \in {"pending", "waiting"} => JobPending(new, candidates)
      /\ JobListing(histJob, candidates) /\ new.state \in {"listing", "waiting"} => JobListing(new, candidates)
      /\ JobFetching(histJob, candidates) /\ new.state \in {"fetching", "waiting"} => JobFetching(new, candidates)
  BY <1>1, <1>3, <1>4, OtherState
<1>6. JobPending(histJob, candidates) => new.state = "pending"
  BY <1>3 DEF JobPending, ResumeState
<1>7. JobListing(histJob, candidates) => new.state = "listing"
  BY <1>3 DEF JobListing, ResumeState
<1>8. JobFetching(histJob, candidates) => new.state = "fetching"
  <2> SUFFICES ASSUME JobFetching(histJob, candidates)  PROVE new.state = "fetching"
    OBVIOUS
  <2>1. histJob.page = 0 /\ histJob.next < Len(histJob.refs) /\ histJob.next \in Nat
    BY <1>1 DEF JobFetching, JobRows
  <2>2. histJob.refs # << >>
    BY <2>1
  <2> QED  BY <1>3, <2>1, <2>2 DEF ResumeState
<1>9. ~ JobPromoting(histJob, candidates)
  BY <1>1 DEF JobPromoting
<1>10. GoodJob(new, candidates)
  BY <1>1, <1>3, <1>5, <1>6, <1>7, <1>8, <1>9 DEF GoodJob
<1>11. new # NoJob /\ RangeOf(new) = RangeOf(histJob)
  BY <1>3, RealJob DEF RangeOf
<1> QED  BY <1>1, <1>2, <1>3, <1>10, <1>11 DEF JobGoesOn

LEMMA SourceFailsKeeps ==
    ASSUME HistoryAssumption, HistoryInv, NEW s \in Steppers, SourceFails(s),
           histJob.id = stepper[s].job.id, histJob.state \in {"pending", "listing", "fetching"}
    PROVE  JobGoesOn
<1> DEFINE new == Waiting(histJob)
<1>1. GoodJob(histJob, candidates) /\ histJob \in JobRows /\ histJob # NoJob
  BY OwnJob DEF SourceFails
<1>2. histJob' = new /\ candidates' = candidates
  BY DEF SourceFails
<1>3. Min({histJob.failures + 1, HistSkipAfter}) \in 0 .. HistSkipAfter
  <2>1. histJob.failures + 1 \in Nat /\ HistSkipAfter \in Nat
    BY <1>1, HistoryAssumption DEF JobRows
  <2> QED  BY <2>1, MinOfTwo
<1>4. /\ new \in JobRows /\ new.state = "waiting" /\ new.id = histJob.id
      /\ new.from = histJob.from /\ new.to = histJob.to /\ new.models = histJob.models
      /\ new.refs = histJob.refs /\ new.page = histJob.page /\ new.next = histJob.next
  BY <1>1, <1>3 DEF JobRows, JobStates, Waiting
<1> HIDE DEF new
<1>5. Spanning(histJob)
  BY <1>1 DEF GoodJob
<1>6. /\ Spanning(new)
      /\ JobPending(histJob, candidates) /\ new.state \in {"pending", "waiting"} => JobPending(new, candidates)
      /\ JobListing(histJob, candidates) /\ new.state \in {"listing", "waiting"} => JobListing(new, candidates)
      /\ JobFetching(histJob, candidates) /\ new.state \in {"fetching", "waiting"} => JobFetching(new, candidates)
  BY <1>1, <1>4, <1>5, OtherState
<1>7. ~ JobPromoting(histJob, candidates)
  BY <1>1 DEF JobPromoting
<1>8. GoodJob(new, candidates)
  BY <1>1, <1>4, <1>6, <1>7 DEF GoodJob
<1>9. new # NoJob /\ RangeOf(new) = RangeOf(histJob)
  BY <1>4, RealJob DEF RangeOf
<1> QED  BY <1>1, <1>2, <1>4, <1>8, <1>9 DEF JobGoesOn

LEMMA SaveBaselineKeeps ==
    ASSUME HistoryAssumption, HistoryInv, NEW s \in Steppers, SaveBaseline(s)
    PROVE  JobGoesOn
<1> DEFINE first == BaselineOf(histJob.from)
           last == LatestBy(histJob.to)
           new == [histJob EXCEPT !.state = "listing", !.page = 1, !.failures = 0, !.refs = <<first>>]
<1>1. /\ GoodJob(histJob, candidates) /\ histJob \in JobRows /\ histJob # NoJob
      /\ histJob.state = "pending" /\ stepper[s].job.from = histJob.from
  BY OwnJob DEF SaveBaseline, Holds, CurrentAt
<1>2. histJob' = new /\ candidates' = candidates
  BY <1>1 DEF SaveBaseline, BaselineOf
<1>3. JobPending(histJob, candidates) /\ Spanning(histJob)
  BY <1>1 DEF GoodJob, JobListing, JobFetching, JobPromoting
<1>4. histJob.from \in Nat /\ histJob.to \in Nat /\ histJob.from < histJob.to
  BY <1>3 DEF Spanning
<1>5. /\ first \in Nat /\ last \in Nat /\ first <= last
      /\ \E lo \in {first, first + 1} : InRange(histJob.from, histJob.to) = lo .. last
  BY <1>4, RangeInterval
<1> HIDE DEF first, last
<1>6. /\ new \in JobRows /\ new.state = "listing" /\ new.refs = <<first>> /\ new.page = 1
      /\ new.id = histJob.id
      /\ new.from = histJob.from /\ new.to = histJob.to /\ new.models = histJob.models
      /\ new.next = histJob.next
  <2>1. <<first>> \in Seq(Nat) /\ 0 \in 0 .. HistSkipAfter
    BY <1>5, HistoryAssumption
  <2> QED  BY <1>1, <2>1 DEF JobRows, JobStates
<1> HIDE DEF new
<1>7. Skipped(new) = 0
  <2>1. HistPage \in Nat /\ 1 - 1 = 0
    BY HistoryAssumption
  <2> QED  BY <1>6, <2>1 DEF Skipped
<1>8. ListedBy(new) = Listed(first, last, 0)
  BY <1>5, <1>6, <1>7 DEF ListedBy, first, last
<1>9. new.refs = ListedBy(new)
  <2>1. Listed(first, last, 0) \in Seq(Nat) /\ Len(Listed(first, last, 0)) = 1 /\ Listed(first, last, 0)[1] = first
    <3>1. 0 \in 0 .. last - first /\ 0 + 1 = 1
      BY <1>5
    <3>2. /\ Listed(first, last, 0) \in Seq(Nat) /\ Len(Listed(first, last, 0)) = 0 + 1
          /\ Listed(first, last, 0)[1] = first
      <4>1. first \in Nat /\ last \in Nat /\ first <= last
        BY ONLY <1>5
      <4> QED  BY ONLY <3>1, <4>1, ListedTyped
    <3> QED  BY ONLY <3>1, <3>2
  <2>2. <<first>> \in Seq(Nat) /\ Len(<<first>>) = 1 /\ <<first>>[1] = first
    BY <1>5
  <2>3. <<first>> = Listed(first, last, 0)
    BY <2>1, <2>2, SeqEqual
  <2> QED  BY <1>6, <1>8, <2>3
<1>10. JobListing(new, candidates)
  <2>1. PICK lo \in {first, first + 1} : InRange(histJob.from, histJob.to) = lo .. last
    BY <1>5
  <2>2. Skipped(new) <= last - lo + 1
    BY <1>5, <1>7, <2>1
  <2>3. /\ new.state \in {"listing", "waiting"} /\ new.page > 0
        /\ new.next = 0 /\ candidates = {}
    BY <1>3, <1>6 DEF JobPending
  <2>4. BaselineOf(new.from) = first /\ LatestBy(new.to) = last
    BY <1>6 DEF first, last
  <2>5. InRange(new.from, new.to) = lo .. last
    BY <1>6, <2>1
  <2> QED  BY <1>9, <2>2, <2>3, <2>4, <2>5 DEF JobListing
<1>11. Spanning(new)
  BY <1>3, <1>6, SameRange
<1>12. GoodJob(new, candidates)
  BY <1>6, <1>10, <1>11 DEF GoodJob
<1>13. new # NoJob /\ RangeOf(new) = RangeOf(histJob)
  BY <1>6, RealJob DEF RangeOf
<1> QED  BY <1>1, <1>2, <1>6, <1>12, <1>13 DEF JobGoesOn

(* A page goes behind what is listed; the last one leads to the fetching. *)
LEMMA SaveCommitPageKeeps ==
    ASSUME HistoryAssumption, HistoryInv, NEW s \in Steppers, SaveCommitPage(s)
    PROVE  JobGoesOn
<1> DEFINE job == stepper[s].job
           first == BaselineOf(job.from)
           last == LatestBy(job.to)
           k == Skipped(job)
           others == last - first
           a == IF k <= others THEN k ELSE others
           all == AppendUnique(job.refs, Page(job))
<1>1. /\ GoodJob(histJob, candidates) /\ histJob \in JobRows /\ histJob # NoJob
      /\ job \in JobRows /\ job.state = "listing" /\ job.page > 0
      /\ histJob.from = job.from /\ histJob.to = job.to /\ histJob.models = job.models
      /\ candidates = {} /\ histJob.state = "listing"
  <2>1. stepper[s].pc \in {"write", "skip"} /\ histJob.id = stepper[s].job.id /\ histJob.state = "listing"
        /\ job.state = "listing" /\ job.page > 0
    BY DEF SaveCommitPage, Holds, CurrentAt
  <2>2. /\ GoodJob(histJob, candidates) /\ histJob \in JobRows /\ histJob # NoJob /\ job \in JobRows
        /\ histJob.from = job.from /\ histJob.to = job.to /\ histJob.models = job.models
    BY <2>1, OwnJob
  <2>3. JobListing(histJob, candidates)
    BY <2>1, <2>2 DEF GoodJob, JobPending, JobFetching, JobPromoting
  <2> QED  BY <2>1, <2>2, <2>3 DEF JobListing
<1>2. Spanning(job) /\ JobListing(job, {})
  <2>1. stepper[s].pc = "write"
    BY DEF SaveCommitPage, Holds
  <2> QED  BY <1>1, <2>1 DEF HistoryInv, StepInv, StepKnows
<1> HIDE DEF job
<1>3. PICK lo \in {first, first + 1} :
        InRange(job.from, job.to) = lo .. last /\ k <= last - lo + 1
  BY <1>2 DEF JobListing
<1>4. job.from \in Nat /\ job.to \in Nat /\ job.from < job.to
  BY <1>2 DEF Spanning
<1>5. first \in Nat /\ last \in Nat /\ first <= last
  BY <1>4, RangeInterval
<1>6. job.refs = Listed(first, last, a) /\ job.next = 0
  BY <1>2 DEF JobListing, ListedBy
<1> HIDE DEF first, last, k
<1> DEFINE size == last - lo + 1
           len == PageLen(size, k)
           b == IF k + len <= others THEN k + len ELSE others
<1>7. lo \in Nat /\ lo <= last + 1 /\ job.page \in Nat \ {0} /\ (size = others \/ size = others + 1)
  BY <1>1, <1>3, <1>5 DEF JobRows
<1>8. /\ k \in Nat /\ len \in Nat
      /\ Page(job) = [i \in 1 .. len |-> last - k - i + 1] /\ Len(Page(job)) = len
  BY <1>3, <1>5, <1>7, PageListed DEF k
<1>9. others \in Nat /\ HistPage \in Nat \ {0} /\ k <= size
  BY <1>3, <1>5, HistoryAssumption
<1>10. IF k + HistPage <= size THEN len = HistPage ELSE k + len = size /\ len < HistPage
  BY <1>5, <1>7, <1>8, <1>9 DEF PageLen
<1> HIDE DEF len
<1>11. a \in 0 .. others /\ b \in a .. others /\ PageEnds(first, last, a, k, len, b)
  <2>1. k + len <= size /\ k + len <= others + 1
    BY <1>7, <1>8, <1>9, <1>10
  <2>2. a \in 0 .. others /\ b \in a .. others /\ a <= k /\ (b > a => a = k)
    BY <1>8, <1>9
  <2>3. b = k + len \/ (b = others /\ k + len = others + 1)
    BY <1>8, <1>9, <2>1
  <2> QED  BY <2>2, <2>3 DEF PageEnds
<1> HIDE DEF a, b
<1>12. all = Listed(first, last, b)
  <2>1. a \in 0 .. last - first /\ b \in a .. last - first
    BY <1>11
  <2> QED  BY ONLY <1>5, <1>6, <1>8, <1>11, <2>1, AppendListed
<1> HIDE DEF all
<1>13. ASSUME len < HistPage  PROVE JobGoesOn
  <2> DEFINE new == [histJob EXCEPT !.state = "fetching", !.refs = ExecutionOrder(all), !.page = 0,
                                    !.next = 0, !.failures = 0]
             order == Ordered(first, last)
  <2>1. histJob' = new /\ candidates' = candidates
    BY <1>1, <1>8, <1>13 DEF SaveCommitPage, all, job
  <2>2. b = others
    BY <1>7, <1>8, <1>9, <1>10, <1>13 DEF b
  <2>3. ExecutionOrder(all) = order /\ order \in Seq(Nat) /\ Len(order) = others + 1
    BY <1>5, <1>12, <2>2, OrderListed
  <2> HIDE DEF order
  <2>4. /\ new \in JobRows /\ new.state = "fetching" /\ new.refs = order /\ new.page = 0
        /\ new.from = job.from /\ new.to = job.to /\ new.models = job.models
        /\ new.next = 0 /\ new.id = histJob.id
    <3>1. 0 \in 0 .. HistSkipAfter /\ 0 \in Nat
      BY HistoryAssumption
    <3> QED  BY <1>1, <2>3, <3>1 DEF JobRows, JobStates
  <2> HIDE DEF new
  <2>5. new.refs = Ordered(BaselineOf(new.from), LatestBy(new.to))
    BY <2>4 DEF order, first, last
  <2>6. new.next < Len(new.refs)
    BY <1>9, <2>3, <2>4
  <2>7. ReadUpTo(new, new.next) = {}
    <3>1. BaselineOf(new.from) = first /\ new.next = 0
      BY <2>4 DEF first
    <3>2. first .. first + 0 - 1 = {}
      BY <1>5
    <3> QED  BY <3>1, <3>2 DEF ReadUpTo
  <2>8. AllFolded(new, {}, {})
    BY FoldedNone DEF AllFolded, Mine
  <2>9. JobFetching(new, candidates)
    BY <1>1, <2>4, <2>5, <2>6, <2>7, <2>8 DEF JobFetching
  <2>10. Spanning(new)
    BY <1>2, <2>4, SameRange
  <2>11. GoodJob(new, candidates)
    BY <2>4, <2>9, <2>10 DEF GoodJob
  <2>12. new # NoJob /\ RangeOf(new) = RangeOf(histJob)
    BY <1>1, <2>4, RealJob DEF RangeOf
  <2> QED  BY <1>1, <2>1, <2>4, <2>11, <2>12 DEF JobGoesOn
<1>14. ASSUME ~(len < HistPage)  PROVE JobGoesOn
  <2> DEFINE new == [histJob EXCEPT !.refs = all, !.page = job.page + 1, !.next = 0, !.failures = 0]
  <2>1. histJob' = new /\ candidates' = candidates
    BY <1>1, <1>8, <1>14 DEF SaveCommitPage, all, job
  <2>2. len = HistPage /\ k + HistPage <= size
    BY <1>7, <1>8, <1>9, <1>10, <1>14
  <2>3. all \in Seq(Nat)
    <3>1. b \in 0 .. last - first
      BY <1>9, <1>11
    <3> QED  BY ONLY <1>5, <1>12, <3>1, ListedTyped
  <2>4. /\ new \in JobRows /\ new.state = "listing" /\ new.refs = all /\ new.page = job.page + 1
        /\ new.from = job.from /\ new.to = job.to /\ new.models = job.models
        /\ new.next = 0 /\ new.id = histJob.id
    <3>1. 0 \in 0 .. HistSkipAfter /\ 0 \in Nat /\ job.page + 1 \in Nat
      BY <1>7, HistoryAssumption
    <3> QED  BY <1>1, <2>3, <3>1 DEF JobRows, JobStates
  <2> HIDE DEF new
  <2>5. Skipped(new) = k + HistPage
    <3>1. new.page - 1 = (job.page - 1) + 1 /\ job.page - 1 \in Nat
      BY <1>7, <2>4
    <3>2. \A p \in Nat, h \in Nat : (p + 1) * h = p * h + h
      OBVIOUS
    <3> QED  BY <1>9, <3>1, <3>2 DEF Skipped, k
  <2>6. BaselineOf(new.from) = first /\ LatestBy(new.to) = last
    BY <2>4 DEF first, last
  <2>7. new.refs = ListedBy(new)
    <3>1. b = IF Skipped(new) <= others THEN Skipped(new) ELSE others
      BY <2>2, <2>5 DEF b
    <3> QED  BY <1>12, <2>4, <2>6, <3>1 DEF ListedBy
  <2>8. InRange(new.from, new.to) = lo .. last /\ Skipped(new) <= last - lo + 1
    BY <1>3, <2>2, <2>4, <2>5
  <2>9. JobListing(new, candidates)
    <3>1. new.page > 0
      BY <1>7, <2>4
    <3> QED  BY <1>1, <2>4, <2>6, <2>7, <2>8, <3>1 DEF JobListing
  <2>10. Spanning(new)
    BY <1>2, <2>4, SameRange
  <2>11. GoodJob(new, candidates)
    BY <2>4, <2>9, <2>10 DEF GoodJob
  <2>12. new # NoJob /\ RangeOf(new) = RangeOf(histJob)
    BY <1>1, <2>4, RealJob DEF RangeOf
  <2> QED  BY <1>1, <2>1, <2>4, <2>11, <2>12 DEF JobGoesOn
<1> QED  BY <1>13, <1>14

-----------------------------------------------------------------------------
(* The commits that a step of the fetching is about. *)
LEMMA FetchingRefs ==
    ASSUME NEW job, NEW set, job \in JobRows, Spanning(job), JobFetching(job, set),
           NEW first, first = BaselineOf(job.from), NEW last, last = LatestBy(job.to)
    PROVE  /\ first \in Nat \ {0} /\ last \in Nat /\ first <= last
           /\ Used(job) = first .. last /\ Used(job) \in SUBSET Nat
           /\ job.refs \in Seq(Nat) /\ Len(job.refs) = last - first + 1
           /\ \A i \in 1 .. last - first + 1 : job.refs[i] = first + i - 1
           /\ job.next \in Nat /\ job.next < last - first + 1
<1>1. job.from \in Nat /\ job.to \in Nat /\ job.from < job.to
  BY DEF Spanning
<1>2. first \in Commits /\ last \in Commits /\ first <= last
  BY <1>1, RangeInterval
<1>3. first \in Nat \ {0} /\ last \in Nat
  BY <1>2, HistTimesAssumption DEF Commits
<1>4. job.refs = Ordered(first, last) /\ job.next < Len(job.refs) /\ job.next \in Nat
  BY DEF JobFetching, JobRows
<1>5. /\ Ordered(first, last) \in Seq(Nat) /\ Len(Ordered(first, last)) = last - first + 1
      /\ \A i \in 1 .. last - first + 1 : Ordered(first, last)[i] = first + i - 1
  BY <1>2, <1>3, OrderListed
<1>6. Used(job) = first .. last /\ Used(job) \in SUBSET Nat
  BY <1>3 DEF Used
<1> QED  BY <1>2, <1>3, <1>4, <1>5, <1>6

LEMMA StepRefsOf ==
    ASSUME HistoryAssumption, NEW job, NEW set, job \in JobRows, Spanning(job), JobFetching(job, set)
    PROVE  /\ StepRefs(job) \in Seq(Nat)
           /\ Len(StepRefs(job)) \in Nat \ {0} /\ job.next + Len(StepRefs(job)) <= Len(job.refs)
           /\ \A i \in 1 .. Len(StepRefs(job)) : StepRefs(job)[i] = job.refs[job.next + i]
<1> DEFINE size == Len(job.refs)
           q == Min({job.next + HistStep, size})
           step == SubSeq(job.refs, job.next + 1, q)
<1>1. job.refs \in Seq(Nat) /\ job.next \in Nat /\ job.next < size /\ size \in Nat
  <2>1. job.refs \in Seq(Nat) /\ job.next \in Nat
    BY DEF JobRows
  <2> QED  BY <2>1, LenProperties DEF JobFetching
<1>2. HistStep \in Nat \ {0} /\ job.next + HistStep \in Nat
  BY <1>1, HistoryAssumption
<1>3. q = IF job.next + HistStep <= size THEN job.next + HistStep ELSE size
  BY <1>1, <1>2, MinOfTwo
<1> HIDE DEF q
<1>4. q \in job.next + 1 .. size /\ q \in Nat
  BY <1>1, <1>2, <1>3
<1>5. \A i \in job.next + 1 .. q : job.refs[i] \in Nat
  <2>1. \A i \in job.next + 1 .. q : i \in 1 .. size
    BY <1>1, <1>4
  <2> QED  BY <1>1, <2>1, ElementOfSeq
<1>6. job.next + 1 \in Int /\ q \in Int
  BY <1>1, <1>4
<1>7. /\ step \in Seq(Nat)
      /\ Len(step) = IF job.next + 1 <= q THEN q - (job.next + 1) + 1 ELSE 0
      /\ \A i \in 1 .. q - (job.next + 1) + 1 : step[i] = job.refs[job.next + 1 + i - 1]
  BY ONLY <1>5, <1>6, SubSeqProperties
<1>8. q - (job.next + 1) + 1 = q - job.next /\ \A i \in 1 .. q - job.next : job.next + 1 + i - 1 = job.next + i
  <2>1. job.next \in Nat /\ q \in Nat
    BY <1>1, <1>4
  <2> QED  BY ONLY <2>1
<1>9. StepRefs(job) = step
  BY DEF StepRefs, q
<1> HIDE DEF step, size
<1>10. Len(step) = q - job.next
  BY <1>4, <1>7, <1>8
<1>11. Len(step) \in Nat \ {0} /\ job.next + Len(step) <= size
  BY <1>1, <1>4, <1>10
<1>12. \A i \in 1 .. Len(step) : step[i] = job.refs[job.next + i]
  BY <1>7, <1>8, <1>10
<1> QED  BY <1>7, <1>9, <1>11, <1>12 DEF size

(* The cursor moves over n commits, whose readable ones are folded in: the *)
(* job goes on fetching, or, with all candidates closed or not, promotes.  *)
LEMMA AdvanceGood ==
    ASSUME HistoryAssumption, NEW job, NEW set, job \in JobRows, Spanning(job), JobFetching(job, set),
           job.state = "fetching",
           NEW n \in Nat \ {0}, job.next + n <= Len(job.refs),
           NEW folded, AllFolded(job, ReadUpTo(job, job.next + n), folded),
           NEW end, end \in {folded, CloseOpen(job, folded)},
           job.next + n < Len(job.refs) => end = folded
    PROVE  /\ GoodJob(Advance(job, n), end)
           /\ Advance(job, n).next = job.next + n /\ Advance(job, n).refs = job.refs
           /\ Advance(job, n).state = IF job.next + n = Len(job.refs) THEN "promoting" ELSE "fetching"
<1> DEFINE new == Advance(job, n)
           first == BaselineOf(job.from)
           last == LatestBy(job.to)
<1>1. /\ first \in Nat \ {0} /\ last \in Nat /\ first <= last
      /\ Used(job) = first .. last /\ Len(job.refs) = last - first + 1
      /\ job.next \in Nat
  BY FetchingRefs
<1>2. job.next + n \in Nat
  BY <1>1
<1>3. /\ new \in JobRows /\ new.next = job.next + n
      /\ new.state = IF job.next + n = Len(job.refs) THEN "promoting" ELSE "fetching"
      /\ new.from = job.from /\ new.to = job.to /\ new.models = job.models
      /\ new.refs = job.refs /\ new.page = job.page
  <2>1. 0 \in 0 .. HistSkipAfter
    BY HistoryAssumption
  <2> QED  BY <1>2, <2>1 DEF JobRows, JobStates, Advance
<1>4. new.page = 0 /\ new.refs = Ordered(BaselineOf(new.from), LatestBy(new.to))
  BY <1>3 DEF JobFetching
<1> HIDE DEF new, first, last
<1>5. /\ Spanning(new) /\ Evidence(new) = Evidence(job)
      /\ \A m : ReadUpTo(new, m) = ReadUpTo(job, m)
      /\ \A E, x : AllFolded(job, E, x) => AllFolded(new, E, x)
      /\ \A E, x : PricesOf(job, E, x) => PricesOf(new, E, x)
  BY <1>3, SameRange
<1>6. CASE job.next + n < Len(job.refs)
  <2>1. AllFolded(new, ReadUpTo(new, new.next), end)
    BY <1>3, <1>5, <1>6
  <2>2. new.state = "fetching" /\ new.next < Len(new.refs)
    BY <1>1, <1>2, <1>3, <1>6
  <2>3. JobFetching(new, end)
    BY <1>4, <2>1, <2>2 DEF JobFetching
  <2> QED  BY <1>3, <1>5, <2>3 DEF GoodJob, new
<1>7. CASE job.next + n = Len(job.refs)
  <2>1. ReadUpTo(job, job.next + n) = Evidence(job)
    <3>1. first + (job.next + n) - 1 = last
      BY <1>1, <1>2, <1>7
    <3>2. Evidence(job) = Used(job) \ unreadable
      BY EvidenceUsed
    <3> QED  BY <1>1, <3>1, <3>2 DEF ReadUpTo, first
  <2>2. PricesOf(job, Evidence(job), folded)
    BY <2>1, FoldedPrices
  <2>3. PricesOf(job, Evidence(job), CloseOpen(job, folded))
    BY <2>1, ClosedPrices
  <2>4. PricesOf(new, Evidence(new), end)
    BY <1>5, <2>2, <2>3
  <2>5. JobPromoting(new, end)
    BY <1>3, <1>4, <1>7, <2>4 DEF JobPromoting
  <2> QED  BY <1>3, <1>5, <2>5 DEF GoodJob, new
<1>8. job.next + n < Len(job.refs) \/ job.next + n = Len(job.refs)
  BY <1>1, <1>2
<1> QED  BY <1>6, <1>7, <1>8

(* What a step folds in. *)
LEMMA StepFolds ==
    ASSUME SnapshotsTyped, HistoryAssumption,
           NEW job, job \in JobRows, Spanning(job), JobFetching(job, candidates),
           NEW n, n = Readable(StepRefs(job))
    PROVE  /\ n \in 0 .. Len(StepRefs(job))
           /\ n < Len(StepRefs(job)) => job.refs[job.next + n + 1] \in unreadable
           /\ AllFolded(job, ReadUpTo(job, job.next + n), ApplySnapshots(job, SubSeq(StepRefs(job), 1, n)))
<1> DEFINE first == BaselineOf(job.from)
           last == LatestBy(job.to)
           step == StepRefs(job)
           refs == SubSeq(step, 1, n)
           base == first + job.next - 1
           E == ReadUpTo(job, job.next)
<1>1. /\ first \in Nat \ {0} /\ last \in Nat /\ first <= last
      /\ Used(job) = first .. last /\ Len(job.refs) = last - first + 1
      /\ \A i \in 1 .. last - first + 1 : job.refs[i] = first + i - 1
      /\ job.next \in Nat /\ job.next < last - first + 1
  BY FetchingRefs
<1>2. /\ step \in Seq(Nat) /\ Len(step) \in Nat \ {0} /\ job.next + Len(step) <= Len(job.refs)
      /\ \A i \in 1 .. Len(step) : step[i] = job.refs[job.next + i]
  BY StepRefsOf
<1>3. E = (first .. base) \ unreadable
  BY DEF ReadUpTo
<1> HIDE DEF step, first, last, E
<1>4. /\ n \in 0 .. Len(step)
      /\ \A i \in 1 .. n : step[i] \notin unreadable
      /\ n < Len(step) => step[n + 1] \in unreadable
  BY <1>2, ReadableOf DEF step
<1>5. n < Len(step) => job.refs[job.next + n + 1] \in unreadable
  <2> SUFFICES ASSUME n < Len(step)  PROVE job.refs[job.next + n + 1] \in unreadable
    OBVIOUS
  <2>1. n + 1 \in 1 .. Len(step) /\ job.next + (n + 1) = job.next + n + 1
    <3>1. n \in Nat /\ Len(step) \in Nat /\ job.next \in Nat /\ n < Len(step)
      BY <1>1, <1>2, <1>4
    <3> QED  BY ONLY <3>1
  <2> QED  BY <1>2, <1>4, <2>1
<1>6. \A i \in 1 .. Len(step) : step[i] = base + i /\ step[i] \in Used(job)
  <2> SUFFICES ASSUME NEW i \in 1 .. Len(step)  PROVE step[i] = base + i /\ step[i] \in Used(job)
    OBVIOUS
  <2>1. job.next + i \in 1 .. last - first + 1
    BY <1>1, <1>2
  <2>2. step[i] = first + (job.next + i) - 1
    BY <1>1, <1>2, <2>1
  <2>3. first + (job.next + i) - 1 = base + i /\ first + (job.next + i) - 1 \in first .. last
    BY <1>1, <2>1
  <2> QED  BY <1>1, <2>2, <2>3
<1>7. refs \in Seq(Nat) /\ Len(refs) = n /\ \A i \in 1 .. n : refs[i] = step[i]
  <2>1. ASSUME NEW i \in 1 .. n  PROVE step[i] \in Nat
    <3>1. Len(step) \in Nat /\ n \in 0 .. Len(step) /\ Used(job) = first .. last /\ first \in Nat
      BY <1>1, <1>2, <1>4
    <3>2. i \in 1 .. Len(step)
      BY ONLY <3>1, i \in 1 .. n
    <3>3. step[i] \in first .. last
      BY ONLY <1>6, <3>1, <3>2
    <3> QED  BY ONLY <3>1, <3>3
  <2>2. 1 \in Int /\ n \in Int
    BY <1>2, <1>4
  <2>3. /\ refs \in Seq(Nat)
        /\ Len(refs) = IF 1 <= n THEN n - 1 + 1 ELSE 0
        /\ \A i \in 1 .. n - 1 + 1 : refs[i] = step[1 + i - 1]
    BY ONLY <2>1, <2>2, SubSeqProperties
  <2>4. n - 1 + 1 = n /\ (IF 1 <= n THEN n ELSE 0) = n /\ \A i \in 1 .. n : 1 + i - 1 = i
    BY <1>2, <1>4
  <2> HIDE DEF refs
  <2> QED  BY <2>3, <2>4
<1> HIDE DEF refs
<1>8. base \in Nat
  BY <1>1
<1>9. E \in SUBSET Used(job) /\ \A d \in E : d <= base
  BY <1>1, <1>3
<1>10. AllFolded(job, E, candidates)
  BY DEF JobFetching, E
<1>11. \A i \in 1 .. Len(refs) : refs[i] = base + i /\ refs[i] \in Used(job)
  <2>1. \A i \in 1 .. n : i \in 1 .. Len(step)
    BY <1>2, <1>4
  <2> QED  BY <1>6, <1>7, <2>1
<1> HIDE DEF base
<1>12. AllFolded(job, E \union (base + 1 .. base + Len(refs)), ApplySnapshots(job, refs))
  BY <1>7, <1>8, <1>9, <1>10, <1>11, ApplySnapshotsFolds
<1>13. E \union (base + 1 .. base + n) = ReadUpTo(job, job.next + n)
  <2>1. first + (job.next + n) - 1 = base + n /\ base \in Int /\ n \in Nat /\ first <= base + 1
    BY <1>1, <1>2, <1>4 DEF base
  <2>2. ReadUpTo(job, job.next + n) = (first .. base + n) \ unreadable
    BY <2>1 DEF ReadUpTo, first
  <2>3. \A d \in base + 1 .. base + n : d \notin unreadable
    <3> SUFFICES ASSUME NEW d \in base + 1 .. base + n  PROVE d \notin unreadable
      OBVIOUS
    <3>1. d - base \in 1 .. n /\ d - base \in 1 .. Len(step) /\ base + (d - base) = d
      BY <1>2, <1>4, <2>1
    <3> QED  BY <1>4, <1>6, <3>1
  <2> QED  BY <1>1, <1>3, <2>1, <2>2, <2>3
<1> QED  BY <1>4, <1>5, <1>7, <1>12, <1>13 DEF step, refs

(* A row that is as far as the job is the row of the job, but for the      *)
(* failures that it has counted.                                           *)
LEMMA SameRow ==
    ASSUME HistoryInv, NEW s \in Steppers, stepper[s].pc \in {"write", "skip"},
           stepper[s].job.state = "fetching", CurrentAt(s, "fetching"), histJob.next = stepper[s].job.next,
           NEW job, job = stepper[s].job
    PROVE  /\ job \in JobRows /\ Spanning(job) /\ JobFetching(job, candidates) /\ job.state = "fetching"
           /\ histJob # NoJob /\ job.id = histJob.id /\ RangeOf(job) = RangeOf(histJob)
           /\ \A n \in Nat : Advance(histJob, n) = Advance(job, n)
<1>1. /\ GoodJob(histJob, candidates) /\ histJob \in JobRows /\ histJob # NoJob
      /\ job \in JobRows /\ Spanning(job)
      /\ job.from = histJob.from /\ job.to = histJob.to /\ job.models = histJob.models
      /\ histJob.id = job.id /\ histJob.state = "fetching"
  BY OwnJob DEF CurrentAt
<1>2. RowFetching(job)
  BY DEF HistoryInv, StepInv, StepKnows
<1>3. JobFetching(histJob, candidates)
  BY <1>1 DEF GoodJob, JobPending, JobListing, JobPromoting
<1>4. job.refs = histJob.refs /\ job.page = histJob.page
  BY <1>1, <1>2, <1>3 DEF RowFetching, JobFetching
<1>5. JobFetching(job, candidates)
  BY <1>1, <1>3, <1>4, OtherState DEF GoodJob
<1>6. ASSUME NEW n \in Nat  PROVE Advance(histJob, n) = Advance(job, n)
  <2>1. PICK state, next : /\ next = job.next + n
                           /\ state = IF job.next + n = Len(job.refs) THEN "promoting" ELSE "fetching"
    OBVIOUS
  <2>2. /\ Advance(job, n) = [job EXCEPT !.next = next, !.failures = 0, !.state = state]
        /\ Advance(histJob, n) = [histJob EXCEPT !.next = next, !.failures = 0, !.state = state]
    BY <1>4, <2>1 DEF Advance
  <2>3. PICK mine, kept : mine = Advance(job, n) /\ kept = Advance(histJob, n)
    OBVIOUS
  <2>4. mine = [id |-> job.id, state |-> state, from |-> job.from, to |-> job.to,
                models |-> job.models, refs |-> job.refs, page |-> job.page, next |-> next, failures |-> 0]
    BY ONLY <1>1, <2>2, <2>3 DEF JobRows
  <2>5. kept = [id |-> histJob.id, state |-> state, from |-> histJob.from, to |-> histJob.to,
                models |-> histJob.models, refs |-> histJob.refs, page |-> histJob.page, next |-> next,
                failures |-> 0]
    BY ONLY <1>1, <2>2, <2>3 DEF JobRows
  <2>6. mine = kept
    BY ONLY <1>1, <1>4, <2>4, <2>5
  <2> QED  BY ONLY <2>3, <2>6
<1> QED  BY <1>1, <1>5, <1>6 DEF RangeOf

LEMMA AdvanceSame ==
    ASSUME NEW job \in JobRows, NEW n \in Nat
    PROVE  Advance(job, n).id = job.id /\ RangeOf(Advance(job, n)) = RangeOf(job)
BY DEF Advance, JobRows, RangeOf

LEMMA SaveSnapshotsKeeps ==
    ASSUME HistoryAssumption, HistoryInv, NEW s \in Steppers, SaveSnapshots(s)
    PROVE  HistoryInv'
<1> DEFINE job == stepper[s].job
           step == StepRefs(job)
           n == Readable(step)
           folded == ApplySnapshots(job, SubSeq(step, 1, n))
           new == Advance(job, n)
<1>1. /\ stepper[s].pc = "write" /\ job.state = "fetching"
      /\ CurrentAt(s, "fetching") /\ histJob.next = job.next
  BY DEF SaveSnapshots, Holds
<1>2. /\ job \in JobRows /\ job.id = histJob.id /\ RangeOf(job) = RangeOf(histJob) /\ histJob # NoJob
      /\ \A i \in Nat : Advance(histJob, i) = Advance(job, i)
  BY <1>1, SameRow
<1>3. Spanning(job) /\ JobFetching(job, candidates) /\ job.state = "fetching"
  BY <1>1, SameRow
<1>4. /\ n > 0 /\ histJob' = Advance(histJob, n)
      /\ candidates' = IF histJob'.state = "promoting" THEN CloseOpen(job, folded) ELSE folded
      /\ stepper' = [stepper EXCEPT ![s] = IF n = Len(step) THEN Idle ELSE [pc |-> "skip", job |-> histJob']]
      /\ snapshots' = snapshots /\ unreadable' = unreadable
      /\ UNCHANGED <<now, usage, histDone>>
  BY DEF SaveSnapshots
<1> HIDE DEF job
<1>5. SnapshotsTyped
  BY DEF HistoryInv, HistoryTyped
<1>6. /\ n \in 0 .. Len(step)
      /\ n < Len(step) => job.refs[job.next + n + 1] \in unreadable
      /\ AllFolded(job, ReadUpTo(job, job.next + n), folded)
  BY <1>2, <1>3, <1>5, StepFolds
<1>7. Len(step) \in Nat \ {0} /\ job.next + Len(step) <= Len(job.refs)
  BY <1>2, <1>3, StepRefsOf
<1>8. Len(job.refs) \in Nat /\ job.next \in Nat
  BY <1>2, LenProperties DEF JobRows
<1> HIDE DEF step, n, folded, new
<1>9. n \in Nat \ {0} /\ job.next + n <= Len(job.refs)
  BY <1>4, <1>6, <1>7, <1>8
<1>0. histJob' = new
  BY <1>2, <1>4, <1>9 DEF new
<1> DEFINE end == IF job.next + n = Len(job.refs) THEN CloseOpen(job, folded) ELSE folded
<1>10. /\ end \in {folded, CloseOpen(job, folded)}
       /\ job.next + n < Len(job.refs) => end = folded
  BY <1>8, <1>9
<1> HIDE DEF end
<1>11. /\ GoodJob(new, end) /\ new.next = job.next + n /\ new.refs = job.refs
       /\ new.state = IF job.next + n = Len(job.refs) THEN "promoting" ELSE "fetching"
  BY <1>2, <1>3, <1>6, <1>9, <1>10, AdvanceGood DEF new
<1>12. candidates' = end
  BY <1>0, <1>4, <1>11 DEF end
<1>13. GoodJob(histJob', candidates')
  BY <1>0, <1>11, <1>12
<1>14. new \in JobRows /\ new # NoJob /\ new.id = job.id /\ RangeOf(new) = RangeOf(job)
  BY <1>2, <1>9, <1>11, RealJob, AdvanceSame DEF GoodJob, new
<1>15. JobGoesOn
  BY <1>0, <1>2, <1>13, <1>14 DEF JobGoesOn
<1>16. CASE n = Len(step)
  BY <1>4, <1>15, <1>16, StepKeeps DEF Ends
<1>17. CASE n # Len(step)
  <2>0. PICK next : next = [pc |-> "skip", job |-> new]
    OBVIOUS
  <2>1. stepper' = [stepper EXCEPT ![s] = next]
    BY <1>0, <1>4, <1>17, <2>0
  <2>2. next \in StepStates
    BY <1>14, <2>0 DEF StepStates
  <2>3. n < Len(step) /\ job.next + n < Len(job.refs)
    BY <1>6, <1>7, <1>8, <1>17
  <2>4. StepKnows(next)
    <3>1. new.state = "fetching"
      BY <1>11, <2>3
    <3>2. Spanning(new) /\ JobFetching(new, end)
      BY <1>11, <3>1 DEF GoodJob, JobPending, JobListing, JobPromoting
    <3>3. RowFetching(new)
      BY <3>2 DEF JobFetching, RowFetching
    <3>4. new.refs[new.next + 1] \in unreadable
      BY <1>6, <1>11, <2>3
    <3> QED  BY <2>0, <3>1, <3>2, <3>3, <3>4 DEF StepKnows
  <2>5. RowInv' /\ CurrentStays
    BY <1>4, <1>15, SameJob DEF HistoryInv, JobGoesOn
  <2>6. StepCurrent(next)'
    <3>1. histJob'.id = LastId'
      BY <2>5, <1>15 DEF RowInv, JobGoesOn
    <3>2. LastId' \in Nat
      BY <1>0, <1>14, <3>1 DEF JobRows
    <3>3. next.job = histJob' /\ histJob'.id <= LastId'
      BY <1>0, <2>0, <3>1, <3>2
    <3> QED  BY <3>3 DEF StepCurrent
  <2>7. StepInv' /\ stepper' \in [Steppers -> StepStates]
    BY <1>4, <2>1, <2>2, <2>4, <2>5, <2>6, StepsStay DEF HistoryInv
  <2>8. HistoryTyped'
    BY <1>4, <2>7, TypedStays DEF HistoryInv, HistoryTyped
  <2>9. JobInv'
    BY ONLY <1>4, <1>13, JobMoves
  <2> QED  BY <2>5, <2>7, <2>8, <2>9 DEF HistoryInv
<1> QED  BY <1>16, <1>17

LEMMA SkipSnapshotKeeps ==
    ASSUME HistoryAssumption, HistoryInv, NEW s \in Steppers, SkipSnapshot(s)
    PROVE  JobGoesOn
<1> DEFINE job == stepper[s].job
           first == BaselineOf(job.from)
           last == LatestBy(job.to)
<1>1. /\ stepper[s].pc \in {"write", "skip"} /\ job.state = "fetching"
      /\ CurrentAt(s, "fetching") /\ histJob.next = job.next
  BY DEF SkipSnapshot, Holds, HistoryInv, StepInv, StepKnows
<1>2. /\ job \in JobRows /\ job.id = histJob.id /\ RangeOf(job) = RangeOf(histJob) /\ histJob # NoJob
      /\ Advance(histJob, 1) = Advance(job, 1)
  BY <1>1, SameRow
<1>3. Spanning(job) /\ JobFetching(job, candidates)
  BY <1>1, SameRow
<1> HIDE DEF job
<1>4. job.refs[job.next + 1] \in unreadable
  <2>1. CASE stepper[s].pc = "skip"
    BY <2>1 DEF HistoryInv, StepInv, StepKnows, job
  <2>2. CASE stepper[s].pc # "skip"
    <3>1. Readable(StepRefs(job)) = 0
      BY <1>1, <2>2 DEF SkipSnapshot, job
    <3>2. Len(StepRefs(job)) \in Nat \ {0}
      BY <1>2, <1>3, StepRefsOf
    <3>3. SnapshotsTyped /\ job.next \in Nat
      BY <1>2 DEF HistoryInv, HistoryTyped, JobRows
    <3>4. 0 < Len(StepRefs(job)) => job.refs[job.next + 0 + 1] \in unreadable
      BY <1>2, <1>3, <3>1, <3>3, StepFolds
    <3> QED  BY <3>2, <3>3, <3>4
  <2> QED  BY <2>1, <2>2
<1>5. /\ first \in Nat \ {0} /\ last \in Nat
      /\ Len(job.refs) = last - first + 1
      /\ \A i \in 1 .. last - first + 1 : job.refs[i] = first + i - 1
      /\ job.next \in Nat /\ job.next < last - first + 1
  <2>1. job \in JobRows /\ Spanning(job) /\ JobFetching(job, candidates)
    BY <1>2, <1>3
  <2>2. first = BaselineOf(job.from) /\ last = LatestBy(job.to)
    OBVIOUS
  <2> HIDE DEF first, last
  <2>3. /\ first \in Nat \ {0} /\ last \in Nat /\ first <= last
        /\ Used(job) = first .. last /\ Used(job) \in SUBSET Nat
        /\ job.refs \in Seq(Nat) /\ Len(job.refs) = last - first + 1
        /\ \A i \in 1 .. last - first + 1 : job.refs[i] = first + i - 1
        /\ job.next \in Nat /\ job.next < last - first + 1
    BY ONLY <2>1, <2>2, FetchingRefs
  <2> QED  BY ONLY <2>3
<1> HIDE DEF first, last
<1>6. job.next + 1 <= Len(job.refs)
  BY <1>5
<1>7. first + job.next \in unreadable
  <2>1. job.next + 1 \in 1 .. last - first + 1
    BY <1>5
  <2>2. first + (job.next + 1) - 1 = first + job.next
    BY <1>5
  <2> QED  BY <1>4, <1>5, <2>1, <2>2
<1>8. ReadUpTo(job, job.next + 1) = ReadUpTo(job, job.next)
  <2>1. first .. first + (job.next + 1) - 1 =
          (first .. first + job.next - 1) \union {first + job.next}
    <3>1. first \in Nat /\ job.next \in Nat
      BY <1>5
    <3>2. first + (job.next + 1) - 1 = first + job.next
      BY <3>1
    <3>3. \A x \in Nat, y \in Nat : x .. x + y = (x .. x + y - 1) \union {x + y}
      OBVIOUS
    <3> QED  BY <3>1, <3>2, <3>3
  <2> QED  BY <1>7, <2>1 DEF ReadUpTo, first
<1>9. AllFolded(job, ReadUpTo(job, job.next + 1), candidates)
  BY <1>3, <1>8 DEF JobFetching
<1>10. GoodJob(Advance(job, 1), candidates)
  BY <1>1, <1>2, <1>3, <1>6, <1>9, AdvanceGood
<1>11. histJob' = Advance(job, 1) /\ candidates' = candidates
  BY <1>2 DEF SkipSnapshot
<1>12. Advance(job, 1) # NoJob /\ Advance(job, 1).id = job.id /\ RangeOf(Advance(job, 1)) = RangeOf(job)
  BY <1>2, <1>10, RealJob, AdvanceSame DEF GoodJob
<1> QED  BY <1>2, <1>10, <1>11, <1>12 DEF JobGoesOn

(* A promoted job is one that no job of the same range was before.         *)
LEMMA PromoteKeeps ==
    ASSUME HistoryInv, NEW s \in Steppers, Promote(s)
    PROVE  HistoryInv'
<1>1. JobInv'
  BY JobMoves DEF Promote
<1>2. IsFiniteSet(histDone) /\ RangeOf(histJob) \notin histDone /\ histJob # NoJob
  BY OwnJob DEF HistoryInv, HistoryTyped, RowInv, Promote, Holds, CurrentAt
<1>3. histDone' = histDone \union {RangeOf(histJob)} /\ histJob' = NoJob
  BY DEF Promote, RangeOf
<1>4. IsFiniteSet(histDone') /\ Cardinality(histDone') = Cardinality(histDone) + 1
  BY <1>2, <1>3, FS_AddElement
<1>5. LastId' = LastId
  <2>1. Cardinality(histDone) \in Nat
    BY <1>2, FS_CardinalityType
  <2> QED  BY <1>2, <1>3, <1>4, <2>1 DEF LastId
<1>6. RowInv' /\ CurrentStays
  BY <1>3, <1>5 DEF RowInv, CurrentStays, StepCurrent
<1>7. StepInv' /\ stepper' \in [Steppers -> StepStates]
  BY <1>6, StepOver DEF HistoryInv, Promote
<1>8. HistoryTyped'
  BY <1>4, <1>7, TypedStays DEF HistoryInv, Promote
<1> QED  BY <1>1, <1>6, <1>7, <1>8 DEF HistoryInv

(* A new job waits for its baseline, and its id is a new one.              *)
LEMMA CreateKeeps ==
    ASSUME HistoryAssumption, HistoryInv, NEW s \in Steppers, Create(s)
    PROVE  HistoryInv'
<1> DEFINE input == stepper[s].input
           new == [id |-> Cardinality(histDone) + 1, state |-> "pending",
                   from |-> input.from, to |-> input.to, models |-> input.models,
                   refs |-> << >>, page |-> 0, next |-> 0, failures |-> 0]
<1>1. input \in [from : Nat, to : Nat, models : SUBSET HistModels] /\ Spanning(input)
  <2>1. stepper[s].pc = "create" /\ stepper[s] \in StepStates
    BY DEF Create, HistoryInv, HistoryTyped
  <2>2. stepper[s] \in [pc : {"create"}, input : [from : Nat, to : Nat, models : SUBSET HistModels]]
    BY <2>1 DEF StepStates, Idle
  <2>3. Spanning(stepper[s].input)
    BY <2>1 DEF HistoryInv, StepInv, StepKnows
  <2> QED  BY <2>2, <2>3
<1>2. histJob' = IF input \in histDone \/ histJob # NoJob THEN histJob ELSE new
  BY DEF Create
<1>3. Cardinality(histDone) \in Nat /\ Cardinality(histDone) + 1 \in Nat \ {0}
  BY FS_CardinalityType DEF HistoryInv, HistoryTyped
<1>4. UNCHANGED <<snapshots, unreadable, now, usage, histDone, candidates>> /\ Ends(s)
  BY DEF Create
<1> HIDE DEF input
<1>5. CASE histJob' = histJob
  BY <1>4, <1>5, StepKeeps
<1>6. CASE histJob' = new /\ histJob = NoJob /\ input \notin histDone
  <2>1. new \in JobRows
    <3>1. 0 \in 0 .. HistSkipAfter /\ 0 \in Nat /\ << >> \in Seq(Nat)
      BY HistoryAssumption
    <3> QED  BY <1>1, <1>3, <3>1 DEF JobRows, JobStates
  <2>2. /\ new.from = input.from /\ new.to = input.to /\ new.models = input.models
        /\ new.id = Cardinality(histDone) + 1
        /\ new.state = "pending" /\ new.refs = << >> /\ new.page = 0 /\ new.next = 0
    OBVIOUS
  <2> HIDE DEF new
  <2>3. GoodJob(new, {})
    <3>1. Spanning(new)
      BY <1>1, <2>2 DEF Spanning
    <3>2. JobPending(new, {})
      BY <2>2 DEF JobPending
    <3> QED  BY <2>1, <3>1, <3>2 DEF GoodJob
  <2>4. candidates = {}
    BY <1>6, RealJob DEF HistoryInv, JobInv, GoodJob
  <2>5. GoodJob(histJob', candidates')
    BY <1>4, <1>6, <2>3, <2>4
  <2>6. JobInv'
    BY ONLY <1>4, <2>5, JobMoves
  <2>7. LastId = Cardinality(histDone) /\ LastId' = Cardinality(histDone) + 1
    <3>1. histJob' # NoJob
      BY <1>6, <2>1, RealJob
    <3> QED  BY <1>3, <1>4, <1>6, <3>1 DEF LastId
  <2>8. RangeOf(new) = input
    BY <1>1, <2>2 DEF RangeOf
  <2>9. RowInv'
    BY <1>4, <1>6, <2>2, <2>7, <2>8 DEF RowInv
  <2>10. CurrentStays
    <3> SUFFICES ASSUME NEW step \in StepStates, StepCurrent(step), step.pc \in {"write", "skip"}
                 PROVE  /\ step.job.id <= LastId'
                        /\ step.job.id # histJob'.id
      BY DEF CurrentStays, StepCurrent
    <3>1. step.job.id \in Nat
      BY DEF StepStates, Idle, JobRows
    <3>2. step.job.id <= Cardinality(histDone)
      BY <2>7 DEF StepCurrent
    <3> QED  BY <1>3, <1>6, <2>2, <2>7, <3>1, <3>2
  <2>11. StepInv' /\ stepper' \in [Steppers -> StepStates]
    BY <1>4, <2>10, StepOver DEF HistoryInv
  <2>12. HistoryTyped'
    BY <1>4, <2>11, TypedStays DEF HistoryInv, HistoryTyped
  <2> QED  BY <2>6, <2>9, <2>11, <2>12 DEF HistoryInv
<1> QED  BY <1>2, <1>5, <1>6

(* A step begins with the row, or with the usage that has no price. *)
LEMMA BeginKeeps ==
    ASSUME HistoryAssumption, HistoryInv, NEW s \in Steppers, Begin(s)
    PROVE  HistoryInv'
<1>0. PICK new : new = IF histJob = NoJob THEN [pc |-> "create", input |-> JobInput]
                      ELSE [pc |-> "write", job |-> histJob]
  OBVIOUS
<1>1. stepper' = [stepper EXCEPT ![s] = new]
      /\ UNCHANGED <<snapshots, unreadable, now, usage, histJob, histDone, candidates>>
  BY <1>0 DEF Begin
<1>2. RowInv' /\ CurrentStays
  BY <1>1, SameJob DEF HistoryInv
<1>3. new \in StepStates /\ StepKnows(new) /\ StepCurrent(new)'
  <2>1. CASE histJob = NoJob
    <3>1. Spanning(JobInput) /\ JobInput \in [from : Nat, to : Nat, models : SUBSET HistModels]
      BY <2>1, JobInputSpans DEF HistoryInv, HistoryTyped, Begin
    <3>2. new = [pc |-> "create", input |-> JobInput]
      BY <1>0, <2>1
    <3> QED  BY <3>1, <3>2 DEF StepStates, StepKnows, StepCurrent
  <2>2. CASE histJob # NoJob
    <3>1. GoodJob(histJob, candidates) /\ histJob \in JobRows /\ Spanning(histJob)
      BY <2>2 DEF HistoryInv, JobInv, GoodJob
    <3>2. histJob.state = "listing" => JobListing(histJob, {})
      BY <3>1 DEF GoodJob, JobPending, JobFetching, JobPromoting, JobListing
    <3>3. histJob.state = "fetching" => RowFetching(histJob)
      BY <3>1 DEF GoodJob, JobPending, JobListing, JobPromoting, JobFetching, RowFetching
    <3>4. new = [pc |-> "write", job |-> histJob]
      BY <1>0, <2>2
    <3>5. new \in StepStates /\ StepKnows(new)
      BY <3>1, <3>2, <3>3, <3>4 DEF StepStates, StepKnows
    <3>6. histJob.id = LastId' /\ histJob.id \in Nat /\ histJob' = histJob
      BY <1>1, <2>2, <3>1 DEF HistoryInv, RowInv, LastId, JobRows
    <3>7. StepCurrent(new)'
      <4>1. new.pc = "write" /\ new.job = histJob
        BY <3>4
      <4>2. histJob.id <= LastId'
        BY <3>6
      <4> QED  BY <3>6, <4>1, <4>2 DEF StepCurrent
    <3> QED  BY <3>5, <3>7
  <2> QED  BY <2>1, <2>2
<1>4. StepInv' /\ stepper' \in [Steppers -> StepStates]
  BY <1>1, <1>2, <1>3, StepsStay DEF HistoryInv
<1>5. JobInv'
  BY <1>1, JobRests DEF HistoryInv
<1>6. HistoryTyped'
  BY <1>1, <1>4, TypedStays DEF HistoryInv, HistoryTyped
<1> QED  BY <1>2, <1>4, <1>5, <1>6 DEF HistoryInv

LEMMA PassesKeeps ==
    ASSUME HistoryAssumption, HistoryInv,
           (Passes \/ \E m \in HistModels, t \in Ticks : Use(m, t)) \/ UNCHANGED histVars
    PROVE  HistoryInv'
<1>1. UNCHANGED <<snapshots, unreadable, histJob, histDone, candidates, revisions, stepper>>
  BY DEF Passes, Use, histVars
<1>2. JobInv'
  BY <1>1, JobRests DEF HistoryInv
<1>3. RowInv' /\ CurrentStays
  BY <1>1, SameJob DEF HistoryInv
<1>4. StepInv'
  <2> SUFFICES ASSUME NEW t \in Steppers  PROVE (StepKnows(stepper[t]) /\ StepCurrent(stepper[t]))'
    BY DEF StepInv
  <2>1. PICK step \in StepStates : step = stepper[t]
    BY DEF HistoryInv, HistoryTyped
  <2>2. StepKnows(step) /\ StepCurrent(step)
    BY <2>1 DEF HistoryInv, StepInv
  <2>3. StepKnows(step)' /\ StepCurrent(step)'
    BY <1>1, <1>3, <2>2, KnownStays DEF CurrentStays
  <2>4. step = stepper'[t]
    BY <1>1, <2>1
  <2> QED  BY <2>3, <2>4
<1>5. now \in 0 .. HistTicks /\ HistTicks \in Nat /\ UsageTyped
  BY HistoryAssumption DEF HistoryInv, HistoryTyped
<1>6. now' \in 0 .. HistTicks /\ UsageTyped'
  <2>1. CASE Passes
    BY <1>5, <2>1 DEF Passes, UsageTyped
  <2>2. ASSUME NEW m \in HistModels, NEW t \in Ticks, Use(m, t)
        PROVE  now' \in 0 .. HistTicks /\ UsageTyped'
    BY <1>5, <2>2 DEF Use, UsageTyped, Ticks
  <2>3. CASE UNCHANGED histVars
    BY <1>5, <2>3 DEF UsageTyped, histVars
  <2> QED  BY <2>1, <2>2, <2>3
<1>7. HistoryTyped'
  BY <1>1, <1>6 DEF HistoryInv, HistoryTyped, SnapshotsTyped
<1> QED  BY <1>2, <1>3, <1>4, <1>7 DEF HistoryInv

-----------------------------------------------------------------------------
LEMMA HistoryInvInit ==
    ASSUME HistoryAssumption, HistInit  PROVE HistoryInv
<1>1. JobInv /\ RowInv
  BY DEF HistInit, JobInv, RowInv
<1>2. StepInv
  BY DEF HistInit, StepInv, StepKnows, StepCurrent, Idle
<1>3. stepper \in [Steppers -> StepStates]
  BY DEF HistInit, StepStates
<1>4. now \in 0 .. HistTicks
  BY HistoryAssumption DEF HistInit
<1>5. SnapshotsTyped /\ UsageTyped /\ IsFiniteSet(histDone)
  BY FS_EmptySet DEF HistInit, SnapshotsTyped, UsageTyped
<1> QED  BY <1>1, <1>2, <1>3, <1>4, <1>5 DEF HistoryInv, HistoryTyped

LEMMA HistoryInvNext ==
    ASSUME HistoryAssumption, HistoryInv, [HistNext]_histVars, [ResumesFresh]_histVars
    PROVE  HistoryInv'
<1>1. CASE UNCHANGED histVars
  BY <1>1, PassesKeeps
<1>2. ASSUME NEW s \in Steppers, Begin(s) \/ Work(s) \/ SourceFails(s) \/ StepDies(s), ResumesFresh
      PROVE  HistoryInv'
  <2>1. CASE Begin(s)
    BY <2>1, BeginKeeps
  <2>2. CASE Create(s)
    BY <2>2, CreateKeeps
  <2>3. CASE Resume(s)
    <3>1. Ends(s) /\ UNCHANGED <<snapshots, unreadable, now, usage, histDone, candidates>>
      BY <2>3 DEF Resume
    <3>2. CASE CurrentAt(s, "waiting")
      <4>1. ResumeState(stepper[s].job) = ResumeState(histJob)
        BY <1>2, <2>3, <3>2 DEF ResumesFresh
      <4>2. JobGoesOn
        BY <2>3, <3>2, <4>1, ResumeKeeps
      <4> QED  BY <3>1, <4>2, StepKeeps
    <3>3. CASE ~CurrentAt(s, "waiting")
      <4>1. histJob' = histJob
        BY <2>3, <3>3 DEF Resume
      <4> QED  BY <3>1, <4>1, StepKeeps
    <3> QED  BY <3>2, <3>3
  <2>4. CASE SaveBaseline(s)
    <3>1. Ends(s) /\ UNCHANGED <<snapshots, unreadable, now, usage, histDone>>
      BY <2>4 DEF SaveBaseline
    <3>2. JobGoesOn
      BY <2>4, SaveBaselineKeeps
    <3> QED  BY <3>1, <3>2, StepKeeps
  <2>5. CASE SaveCommitPage(s)
    <3>1. Ends(s) /\ UNCHANGED <<snapshots, unreadable, now, usage, histDone>>
      BY <2>5 DEF SaveCommitPage
    <3>2. JobGoesOn
      BY <2>5, SaveCommitPageKeeps
    <3> QED  BY <3>1, <3>2, StepKeeps
  <2>6. CASE SaveSnapshots(s)
    BY <2>6, SaveSnapshotsKeeps
  <2>7. CASE SkipSnapshot(s)
    <3>1. Ends(s) /\ UNCHANGED <<snapshots, unreadable, now, usage, histDone>>
      BY <2>7 DEF SkipSnapshot
    <3>2. JobGoesOn
      BY <2>7, SkipSnapshotKeeps
    <3> QED  BY <3>1, <3>2, StepKeeps
  <2>8. CASE Promote(s)
    BY <2>8, PromoteKeeps
  <2>9. CASE SourceFails(s)
    <3>1. Ends(s) /\ UNCHANGED <<snapshots, unreadable, now, usage, histDone, candidates>>
      BY <2>9 DEF SourceFails
    <3>2. CASE histJob.id = stepper[s].job.id /\ histJob.state \in {"pending", "listing", "fetching"}
      <4>1. JobGoesOn
        BY <2>9, <3>2, SourceFailsKeeps
      <4> QED  BY <3>1, <4>1, StepKeeps
    <3>3. CASE ~(histJob.id = stepper[s].job.id /\ histJob.state \in {"pending", "listing", "fetching"})
      <4>1. histJob' = histJob
        BY <2>9, <3>3 DEF SourceFails
      <4> QED  BY <3>1, <4>1, StepKeeps
    <3> QED  BY <3>2, <3>3
  <2>10. CASE StepDies(s)
    <3>1. Ends(s) /\ UNCHANGED <<snapshots, unreadable, now, usage, histDone, histJob, candidates>>
      BY <2>10 DEF StepDies
    <3> QED  BY <3>1, StepKeeps
  <2> QED  BY <1>2, <2>1, <2>2, <2>3, <2>4, <2>5, <2>6, <2>7, <2>8, <2>9, <2>10 DEF Work
<1>3. CASE Passes \/ \E m \in HistModels, t \in Ticks : Use(m, t)
  BY <1>3, PassesKeeps
<1> QED  BY <1>1, <1>2, <1>3 DEF HistNext

LEMMA HistoryInvExact ==
    ASSUME HistoryInv  PROVE EvidenceExact
<1> SUFFICES ASSUME histJob # NoJob, histJob.state = "promoting",
                    NEW m \in histJob.models, NEW t \in histJob.from .. histJob.to - 1
             PROVE  PriceIn(candidates, m, t) = HistoryPrice(histJob, m, t)
  BY DEF EvidenceExact
<1>1. GoodJob(histJob, candidates)
  BY DEF HistoryInv, JobInv
<1>2. Spanning(histJob) /\ PricesOf(histJob, Evidence(histJob), candidates)
  BY <1>1 DEF GoodJob, JobPending, JobListing, JobFetching, JobPromoting
<1>3. PriceIn(candidates, m, t) = PriceBy(histJob, Evidence(histJob), m, t)
  BY <1>2 DEF PricesOf
<1> QED  BY <1>2, <1>3, EvidenceUsed

LEMMA HistoryInvTyped ==
    ASSUME HistoryAssumption, HistoryInv  PROVE HistTypeOK
<1>1. \A s \in Steppers : stepper[s].pc \in {"idle", "create", "write", "skip"}
  <2> SUFFICES ASSUME NEW s \in Steppers
               PROVE  stepper[s].pc \in {"idle", "create", "write", "skip"}
    OBVIOUS
  <2>1. stepper[s] \in StepStates
    BY DEF HistoryInv, HistoryTyped
  <2> QED  BY <2>1 DEF StepStates, Idle
<1>2. CASE histJob = NoJob /\ candidates = {}
  BY <1>1, <1>2 DEF HistTypeOK
<1>3. CASE GoodJob(histJob, candidates)
  <2>1. histJob \in JobRows /\ Spanning(histJob)
    BY <1>3 DEF GoodJob
  <2>2. /\ histJob.state \in {"pending", "listing", "fetching", "waiting", "promoting"}
        /\ histJob.failures \in 0 .. HistSkipAfter /\ histJob.next \in Nat
        /\ histJob.refs \in Seq(Nat)
    BY <2>1 DEF JobRows, JobStates
  <2>3. Len(histJob.refs) \in Nat
    BY <2>2, LenProperties
  <2>4. CASE JobPending(histJob, candidates) \/ JobListing(histJob, candidates)
    <3>1. histJob.next = 0 /\ candidates = {}
      BY <2>4 DEF JobPending, JobListing
    <3> QED  BY <1>1, <2>2, <2>3, <3>1 DEF HistTypeOK
  <2>5. CASE JobFetching(histJob, candidates)
    <3>1. PricesOf(histJob, ReadUpTo(histJob, histJob.next), candidates)
      BY <2>1, <2>5, FoldedPrices DEF JobFetching
    <3>2. histJob.next < Len(histJob.refs)
      BY <2>5 DEF JobFetching
    <3> QED  BY <1>1, <2>2, <2>3, <3>1, <3>2 DEF HistTypeOK, PricesOf
  <2>6. CASE JobPromoting(histJob, candidates)
    BY <1>1, <2>2, <2>3, <2>6 DEF HistTypeOK, PricesOf, JobPromoting
  <2> QED  BY <1>3, <2>4, <2>5, <2>6 DEF GoodJob
<1> QED  BY <1>2, <1>3 DEF HistoryInv, JobInv

(* The row, the candidates and the steps of the recovery keep their types: *)
(* the cursor stays in the list, whatever the source does, wherever a step *)
(* dies and however the steps of several processes overlap, as long as no  *)
(* step resumes the job as an older row had it (HistTypeOK; saveCommitPage,*)
(* saveSnapshots, skipSnapshot, resume).                                   *)
THEOREM HistoryTypeCorrect == HistSpec /\ [][ResumesFresh]_histVars => []HistTypeOK
<1>1. HistInit => HistoryInv
  BY HistoryAssumption, HistoryInvInit
<1>2. HistoryInv /\ [HistNext]_histVars /\ [ResumesFresh]_histVars => HistoryInv'
  BY HistoryAssumption, HistoryInvNext
<1>3. HistoryInv => HistTypeOK
  BY HistoryAssumption, HistoryInvTyped
<1> QED  BY <1>1, <1>2, <1>3, PTL DEF HistSpec

(* What is promoted are the prices of the history, for every price list,   *)
(* every size of its pages and of the steps, whichever snapshots are       *)
(* unreadable and however many processes take steps, which the load slot   *)
(* keeps apart and the guards of the writes tell apart, with the one       *)
(* exception named by ResumesFresh (EvidenceExact; saveCommitPage,         *)
(* executionOrder, applySnapshot, saveSnapshots, skipSnapshot).            *)
THEOREM PromotedExact == HistSpec /\ [][ResumesFresh]_histVars => []EvidenceExact
<1>1. HistInit => HistoryInv
  BY HistoryAssumption, HistoryInvInit
<1>2. HistoryInv /\ [HistNext]_histVars /\ [ResumesFresh]_histVars => HistoryInv'
  BY HistoryAssumption, HistoryInvNext
<1>3. HistoryInv => EvidenceExact
  BY HistoryInvExact
<1> QED  BY <1>1, <1>2, <1>3, PTL DEF HistSpec

(* A stepper that is alone has read the row it writes.                     *)
OwnRow ==
  /\ DOMAIN stepper = Steppers /\ stepper = [s \in Steppers |-> stepper[s]]
  /\ \A s \in Steppers : stepper[s].pc \in {"write", "skip"} => stepper[s].job = histJob

LEMMA OwnRowNext ==
    ASSUME \A s, t \in Steppers : s = t, OwnRow, [HistNext]_histVars
    PROVE  OwnRow' /\ ResumesFresh
<1>1. ResumesFresh
  BY DEF OwnRow, ResumesFresh, Resume, Holds
<1>2. ASSUME NEW s \in Steppers, Ends(s)  PROVE OwnRow'
  BY <1>2 DEF OwnRow, Ends, Idle
<1>3. ASSUME NEW s \in Steppers, Begin(s)  PROVE OwnRow'
  BY <1>3 DEF OwnRow, Begin
<1>4. ASSUME NEW s \in Steppers, SaveSnapshots(s)  PROVE OwnRow'
  <2>1. CASE stepper' = [stepper EXCEPT ![s] = Idle]
    BY <1>2, <2>1 DEF Ends
  <2>2. CASE stepper' = [stepper EXCEPT ![s] = [pc |-> "skip", job |-> histJob']]
    BY <2>2 DEF OwnRow
  <2> QED  BY <1>4, <2>1, <2>2 DEF SaveSnapshots
<1>5. ASSUME UNCHANGED <<histJob, stepper>>  PROVE OwnRow'
  BY <1>5 DEF OwnRow
<1>6. ASSUME NEW s \in Steppers, Work(s) \/ SourceFails(s) \/ StepDies(s)  PROVE OwnRow'
  BY <1>2, <1>4, <1>6
     DEF Work, Create, Resume, SaveBaseline, SaveCommitPage, SkipSnapshot, Promote, SourceFails, StepDies
<1>7. ASSUME Passes \/ \E m \in HistModels, t \in Ticks : Use(m, t)  PROVE OwnRow'
  BY <1>5, <1>7 DEF Passes, Use
<1> QED  BY <1>1, <1>3, <1>5, <1>6, <1>7 DEF HistNext, histVars

(* With one stepper at a time, as the load slot of the coordinator has it, *)
(* every resume is fresh: nothing is assumed then of the promoted prices   *)
(* (rollup-coordinator.ts, runHistoricalPricingStep).                      *)
THEOREM OneStepperResumesFresh ==
    ASSUME \A s, t \in Steppers : s = t
    PROVE  HistSpec => [][ResumesFresh]_histVars
<1>1. HistInit => OwnRow
  BY DEF HistInit, OwnRow, Idle
<1>2. OwnRow /\ [HistNext]_histVars => OwnRow' /\ [ResumesFresh]_histVars
  BY OwnRowNext
<1> QED  BY <1>1, <1>2, PTL DEF HistSpec
=============================================================================
