------------------------- MODULE RollupCoordinator --------------------------
(***************************************************************************)
(* The coordinator of the heavy rollup tasks (apps/web/lib/                *)
(* rollup-coordinator.ts) and the cutover of the two rollup layers that    *)
(* dashboards read (rollup-cutover.ts).  A tick takes the load slot,       *)
(* reconciles the cutover rows, picks one task and runs it; replicas that  *)
(* do not get the slot do nothing, so one coordinator stands for all.      *)
(*                                                                         *)
(* Time passes in minutes, several ticks to a minute.  What the validation *)
(* compares and what makes a layer ready belong to the environment.        *)
(***************************************************************************)
EXTENDS Integers, SequencesExt

CONSTANTS
  HealthyMinutes,    \* healthy observation before activation (60)
  MaxTransient,      \* transient failures of an active layer before fallback (3)
  HardDisabled,      \* workers switched off by their environment variable
  SlowValidation,    \* a validation may take more than a minute
  TicksPerMinute,    \* ticks a minute has, at least, when no task is slow (6)
  FreeLayers,        \* layers whose data the environment changes
  CoordWorkers       \* the tasks that ever get work

(* The tasks of STABLE_TASK_ORDER but the validation, which comes first. *)
ASSUME CoordAssumption ==
  /\ HealthyMinutes \in Nat /\ MaxTransient \in Nat /\ TicksPerMinute \in Nat
  /\ CoordWorkers \subseteq {"pricing_repair", "usage_15m_v2", "timezone"}

Layers == {"usage_15m_v2", "timezone"}
Backlogs == {"none", "some", "lag"}

VARIABLES
  cut,        \* layer -> [state, healthy, failures, failed, checked, due]
  layerData,  \* layer -> [behind, wrong]: what is outstanding ("some" is at most 10,000 jobs),
              \* and whether the rollup differs from its source
  work,       \* worker -> [backlog, waited, recent, backoff]
  started,    \* the workers, the one started longest ago first
  slot,       \* the task under way: [task, ...]
  ticks       \* ticks of this minute, up to TicksPerMinute

coordVars == <<cut, layerData, work, started, slot, ticks>>

Free == [task |-> "idle"]
NewRecord == [state |-> "backfilling", healthy |-> 0, failures |-> 0, failed |-> FALSE,
              checked |-> FALSE, due |-> FALSE]

Order(w) == [pricing_repair |-> 1, usage_15m_v2 |-> 2, timezone |-> 3][w]

(* waited: 0 if not eligible, else 1 and the minutes of eligibility, as far
   as they are compared (120 s);
   recent: started within the last minute; those that never started come
   first, in the fixed order of the tasks. *)
CoordInit ==
  /\ cut = [l \in Layers |-> NewRecord]
  /\ layerData \in [Layers -> [behind : Backlogs, wrong : BOOLEAN]]
  /\ work = [w \in CoordWorkers |-> [backlog |-> FALSE, waited |-> 0, recent |-> FALSE, backoff |-> FALSE]]
  /\ started \in [1 .. Cardinality(CoordWorkers) -> CoordWorkers]
  /\ \A i, j \in DOMAIN started : i < j => Order(started[i]) < Order(started[j])
  /\ slot = Free
  /\ ticks = 0

-----------------------------------------------------------------------------
(* The cutover record of a layer. *)

Checked(rec) == [rec EXCEPT !.checked = TRUE]
Healthy(rec) == [Checked(rec) EXCEPT !.failures = 0, !.failed = FALSE]

(* recordUnhealthy: only an active layer counts, and falls back. *)
Unhealthy(rec) ==
  LET failures == IF rec.state = "active" THEN Min({rec.failures + 1, MaxTransient}) ELSE rec.failures
  IN [Checked(rec) EXCEPT !.failed = TRUE, !.failures = failures,
       !.state = IF rec.state = "active" /\ failures >= MaxTransient THEN "fallback" ELSE rec.state]

(* recordValidationFailure: a mismatch falls back at once. *)
Failed(rec, mismatch) ==
  LET failures == Min({rec.failures + 1, MaxTransient})
  IN [Checked(rec) EXCEPT !.failed = TRUE, !.failures = failures,
       !.state = IF mismatch \/ (rec.state = "active" /\ failures >= MaxTransient)
                 THEN "fallback" ELSE rec.state]

(* executeRollupValidationWith after a validation that passed. *)
Passed(rec) ==
  CASE rec.state = "active" -> [Healthy(rec) EXCEPT !.due = FALSE]
    [] rec.state = "observing" ->
         IF rec.healthy < HealthyMinutes THEN rec
         ELSE [Healthy(rec) EXCEPT !.state = "active", !.due = FALSE]
    [] OTHER -> [Healthy(rec) EXCEPT !.state = "observing", !.healthy = 0, !.due = FALSE]

(* validationRetryDue. *)
RetryDue(rec) == ~rec.failed \/ ~rec.checked

(* loadRollupLayerReadinessWith: an active timezone layer may have some jobs
   outstanding, but is not compared then. *)
Ready(l, rec) ==
  layerData[l].behind = "none" \/ (layerData[l].behind = "some" /\ l = "timezone" /\ rec.state = "active")
Comparable(l) == layerData[l].behind = "none"

(* reconcileLayer: the record it saves, and whether it asks for a validation. *)
Reconcile(l, rec) ==
  LET observed == IF rec.checked THEN rec.healthy ELSE Min({rec.healthy + 1, HealthyMinutes})
  IN IF ~Ready(l, rec) THEN [rec |-> Unhealthy(rec), validate |-> FALSE]
     ELSE IF ~RetryDue(rec) THEN [rec |-> rec, validate |-> FALSE]
     ELSE CASE rec.state \in {"backfilling", "fallback"} -> [rec |-> Checked(rec), validate |-> TRUE]
            [] rec.state = "observing" ->
                 IF observed < HealthyMinutes
                 THEN [rec |-> [Healthy(rec) EXCEPT !.healthy = observed], validate |-> FALSE]
                 ELSE [rec |-> [Checked(rec) EXCEPT !.healthy = observed], validate |-> TRUE]
            [] rec.state = "active" ->
                 IF rec.due /\ Comparable(l) THEN [rec |-> Checked(rec), validate |-> TRUE]
                 ELSE [rec |-> Healthy(rec), validate |-> FALSE]

(* The timezone layer starts over whenever the base is not active. *)
ResetTimezone(rec) ==
  IF rec.state # "backfilling" \/ rec.healthy # 0
  THEN [Healthy(rec) EXCEPT !.state = "backfilling", !.healthy = 0] ELSE rec

(* Mutant of ReconcileAll: the timezone layer goes on without its base. *)
ReconcileAllApart ==
  LET usage == Reconcile("usage_15m_v2", cut["usage_15m_v2"])
      timezone == Reconcile("timezone", cut["timezone"])
  IN [cut |-> [cut EXCEPT !["usage_15m_v2"] = usage.rec,
                          !["timezone"] = IF usage.validate THEN @ ELSE timezone.rec],
      validate |-> IF usage.validate THEN {"usage_15m_v2"}
                   ELSE IF timezone.validate THEN {"timezone"} ELSE {}]

(* reconcileRollupCutoverWith. *)
ReconcileAll ==
  LET usage == Reconcile("usage_15m_v2", cut["usage_15m_v2"])
      timezone == Reconcile("timezone", cut["timezone"])
      onBase == [cut EXCEPT !["usage_15m_v2"] = usage.rec]
  IN IF usage.validate THEN [cut |-> onBase, validate |-> {"usage_15m_v2"}]
     ELSE IF usage.rec.state # "active"
     THEN [cut |-> [onBase EXCEPT !["timezone"] = ResetTimezone(@)], validate |-> {}]
     ELSE [cut |-> [onBase EXCEPT !["timezone"] = timezone.rec],
           validate |-> IF timezone.validate THEN {"timezone"} ELSE {}]

-----------------------------------------------------------------------------
(* The choice of a task. *)

Runnable(w) ==
  /\ work[w].backlog /\ ~work[w].backoff
  /\ w = "pricing_repair" \/ ~work[w].recent

Position(w) == CHOOSE i \in 1 .. Len(started) : started[i] = w

(* selectRollupTask without a validation: those that waited two minutes,
   then the one started longest ago. *)
Before(v, w) ==
  LET starved(x) == work[x].waited = 3
  IN IF starved(v) # starved(w) THEN starved(v)
     ELSE Position(v) < Position(w)

(* Mutant of Chosen: the fixed order of the tasks decides. *)
ChosenByOrder ==
  {w \in CoordWorkers : Runnable(w) /\ \A v \in CoordWorkers \ {w} : Runnable(v) => Order(w) < Order(v)}

Chosen == {w \in CoordWorkers : Runnable(w) /\ \A v \in CoordWorkers \ {w} : Runnable(v) => Before(w, v)}

(* setEligibility. *)
Eligible(rec) == [rec EXCEPT !.waited = IF rec.backlog THEN Max({@, 1}) ELSE 0]

Tick ==
  /\ slot = Free
  /\ ticks' = Min({ticks + 1, TicksPerMinute})
  /\ cut' = ReconcileAll.cut
  /\ work' = [w \in CoordWorkers |-> Eligible(work[w])]
  /\ slot' \in IF ReconcileAll.validate # {}
               THEN {[task |-> "validation", layer |-> l, state |-> cut'[l].state] :
                       l \in ReconcileAll.validate}
               ELSE IF Chosen = {} THEN {Free} ELSE {[task |-> w] : w \in Chosen}
  /\ UNCHANGED <<layerData, started>>

(* executeRollupValidationWith: readiness once more, then the comparison. *)
Validate(l) ==
  /\ slot.task = "validation" /\ slot.layer = l
  /\ \/ ~Ready(l, cut[l]) /\ cut' = [cut EXCEPT ![l] = Unhealthy(@)]
     \/ Ready(l, cut[l]) /\ ~Comparable(l) /\ cut' = [cut EXCEPT ![l] = Healthy(@)]
     \/ Comparable(l) /\ layerData[l].wrong /\ cut' = [cut EXCEPT ![l] = Failed(@, TRUE)]
     \/ Comparable(l) /\ ~layerData[l].wrong /\ cut' = [cut EXCEPT ![l] = Passed(@)]
  /\ slot' = Free
  /\ UNCHANGED <<layerData, work, started, ticks>>

(* The comparison itself fails: a timeout, a lost connection. *)
ValidationFails(l) ==
  /\ slot.task = "validation" /\ slot.layer = l /\ Comparable(l)
  /\ cut' = [cut EXCEPT ![l] = Failed(@, FALSE)]
  /\ slot' = Free
  /\ UNCHANGED <<layerData, work, started, ticks>>

(* runObservedWorkerTask and runPricingRepairTask; a worker that is switched
   off returns before it notes its start. *)
RunWorker(w, left, fails) ==
  /\ slot.task = w
  /\ work' = [work EXCEPT ![w] =
       IF w \in HardDisabled THEN @
       ELSE [@ EXCEPT !.recent = TRUE, !.backlog = left \/ fails, !.backoff = fails]]
  /\ started' = IF w \in HardDisabled THEN started
                ELSE Append(RemoveAt(started, Position(w)), w)
  /\ slot' = Free
  /\ UNCHANGED <<cut, layerData, ticks>>

-----------------------------------------------------------------------------
(* The environment. *)

(* A minute passes: after the ticks that fall into it, or while a task runs. *)
Minute ==
  /\ IF slot = Free THEN ticks = TicksPerMinute ELSE slot.task # "validation" \/ SlowValidation
  /\ ticks' = 0
  /\ \E l \in SUBSET Layers :
       cut' = [x \in Layers |-> [cut[x] EXCEPT !.checked = FALSE, !.due = @ \/ x \in l]]
  /\ work' = [w \in CoordWorkers |->
       [work[w] EXCEPT !.waited = IF @ > 0 THEN Min({@ + 1, 3}) ELSE 0,
                       !.recent = FALSE, !.backoff = FALSE]]
  /\ UNCHANGED <<layerData, started, slot>>

Arrive(w) ==
  /\ work' = [work EXCEPT ![w].backlog = TRUE]
  /\ UNCHANGED <<cut, layerData, started, slot, ticks>>

(* Late data makes a layer lag or differ, the compactor catches up. *)
Change(l, behind, wrong) ==
  /\ l \in FreeLayers
  /\ layerData' = [layerData EXCEPT ![l] = [behind |-> behind, wrong |-> wrong]]
  /\ UNCHANGED <<cut, work, started, slot, ticks>>

CoordNext ==
  \/ Tick \/ Minute
  \/ \E l \in Layers : Validate(l) \/ ValidationFails(l)
  \/ \E w \in CoordWorkers, left, fails \in BOOLEAN : RunWorker(w, left, fails)
  \/ \E w \in CoordWorkers : Arrive(w)
  \/ \E l \in Layers, behind \in Backlogs, wrong \in BOOLEAN : Change(l, behind, wrong)

CoordSpec == CoordInit /\ [][CoordNext]_coordVars

(* The task under way ends. *)
TaskEnds ==
  \/ \E l \in Layers : Validate(l) \/ ValidationFails(l)
  \/ \E w \in CoordWorkers, left, fails \in BOOLEAN : RunWorker(w, left, fails)

-----------------------------------------------------------------------------
(* Type correctness of the cutover and worker rows. *)
CoordTypeOK ==
  /\ cut \in [Layers -> [state : {"backfilling", "observing", "active", "fallback"},
                         healthy : 0 .. HealthyMinutes, failures : 0 .. MaxTransient,
                         failed : BOOLEAN, checked : BOOLEAN, due : BOOLEAN]]
  /\ work \in [CoordWorkers -> [backlog : BOOLEAN, waited : 0 .. 3, recent : BOOLEAN, backoff : BOOLEAN]]
  /\ started \in [1 .. Cardinality(CoordWorkers) -> CoordWorkers]
  /\ slot.task \in CoordWorkers \union {"idle", "validation"}

(* The timezone layer becomes active only on top of an active base, although
   its validation runs long after the base was looked at (reconcile and
   execute), and only from observation. *)
TimezoneOnBase ==
  [][cut["timezone"].state # "active" /\ cut'["timezone"].state = "active" =>
       cut["usage_15m_v2"].state = "active" /\ cut["timezone"].state = "observing"]_coordVars

(* A worker that keeps having work is started again and again, in spite of
   validations, which come first, and of the other workers. *)
WorkersServed ==
  \A w \in CoordWorkers \ HardDisabled : work[w].backlog ~> (slot.task = w \/ ~work[w].backlog)
=============================================================================
