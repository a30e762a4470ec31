---------------------------- MODULE UsageRollup -----------------------------
(***************************************************************************)
(* The ClickHouse usage path of the server, from the PostgreSQL outbox to  *)
(* what the dashboards read: raw events (usage_events), the 15 minute      *)
(* rollup (usage_15m_rollup_v2) with its watermark and dirty buckets, and  *)
(* the rollup of one registered timezone with its jobs and coverage.       *)
(*                                                                         *)
(* ClickHouse has no transactions, so every table changes statement by     *)
(* statement; only the PostgreSQL bookkeeping around it is transactional.  *)
(* The compactor, the pricing repair and the timezone worker are tasks of  *)
(* the rollup coordinator and run while they hold its load slot, a session *)
(* lock.  The outbox flush and the retraction of usage                     *)
(* (/v1/events/reconcile) run in request handlers outside the slot.        *)
(*                                                                         *)
(* A rollup row is identified by its dimensions, which include the pricing *)
(* status: each key has dimensions of its own, <<key, pricing>>.           *)
(***************************************************************************)
EXTENDS Integers, FiniteSets, FiniteSetsExt

CONSTANTS
    Keys,          \* dedup keys of usage events
    BucketOf,      \* the 15 minute bucket of each key
    NBuckets,      \* bound: number of 15 minute buckets
    Span,          \* 15 minute buckets per timezone bucket
    MaxBuckets,    \* CLICKHOUSE_ROLLUP_MAX_BUCKETS, buckets per compaction
    Retractable,   \* keys a client retracts
    Repairable,    \* keys ingested without a price that is known later
    Workers,       \* timezone workers, one per server process
    JobLimit,      \* jobs a worker claims at once
    MaxLosses,     \* bound: sessions lost together with the lock they held
    MaxKills,      \* bound: retractions and repairs killed half way
    FlushFailures, \* TRUE: a flush may fail or die half way
    SlowWorkers    \* TRUE: a live worker may take more than five minutes for its jobs

Buckets == 0..(NBuckets - 1)
Jobs    == 0..((NBuckets - 1) \div Span)

ASSUME RollupAssumption ==
    /\ NBuckets \in Nat \ {0} /\ Span \in Nat \ {0} /\ MaxBuckets \in Nat \ {0}
    /\ BucketOf \in [Keys -> Buckets]
    /\ Retractable \subseteq Keys /\ Repairable \subseteq Keys
    /\ JobLimit \in Nat \ {0} /\ MaxLosses \in Nat /\ MaxKills \in Nat
    /\ FlushFailures \in BOOLEAN /\ SlowWorkers \in BOOLEAN
    /\ {"free", "compactor", "repair"} \intersect Workers = {}

VARIABLES
    outbox,     \* clickhouse_usage_outbox: state of the row of each key
    held,       \* how far a flusher is that read the row of the key
    tokens,     \* insert_deduplication_tokens ClickHouse has seen
    raw,        \* usage_events FINAL: 0 absent, 1 as ingested, 2 repriced
    rollup,     \* usage_15m_rollup_v2: the rows of each bucket
    dirty,      \* clickhouse_rollup_dirty_buckets
    watermark,  \* clickhouse_rollup_watermarks (NoMark: no row)
    eligible,   \* now - finalize delay, in buckets
    jobs,       \* clickhouse_timezone_rollup_jobs
    coverage,   \* clickhouse_timezone_rollup_coverage
    tz,         \* usage_hourly_timezone_rollup: the rows of each bucket
    slot,       \* toard:rollup-load-slot: who holds the session lock
    tzlock,     \* timezone-rollup:<resolution>:<timezone>: who holds it
    comp,       \* the compaction under way
    rec,        \* the retraction under way
    rep,        \* the pricing repair under way
    work,       \* per worker: the claimed jobs and the one it is at
    retracted,  \* history: keys whose retraction was answered with success
    overlapped, \* history: buckets marked while a compaction that took them was under way
    losses, kills

base    == <<outbox, held, tokens, raw>>
derived == <<rollup, dirty, watermark, jobs, coverage, tz>>
history == <<retracted, overlapped, losses, kills>>
vars    == <<outbox, held, tokens, raw, rollup, dirty, watermark, eligible, jobs, coverage, tz,
             slot, tzlock, comp, rec, rep, work, retracted, overlapped, losses, kills>>

NoMark == -1
NoJob  == [status |-> "none", gen |-> 0]
NoComp == [pc |-> "idle", dirty |-> {}, fresh |-> {}, to |-> 0, rows |-> [b \in Buckets |-> {}]]
NoRec  == [pc |-> "idle", keys |-> {}, had |-> FALSE]
NoRep  == [pc |-> "idle", keys |-> {}]
NoTask == [job |-> -1, gen |-> 0]
NoWork == [pc |-> "idle", todo |-> {}, at |-> NoTask, rows |-> {}]

Rows  == Keys \X (1..2)
Tasks == [job : Jobs, gen : Nat]

(* GROUP BY of the raw events of a bucket. *)
Aggregate(b) == {<<k, raw[k]>> : k \in {x \in Keys : BucketOf[x] = b /\ raw[x] # 0}}

Parts(j)  == {b \in Buckets : b \div Span = j}
JobOf(bs) == {b \div Span : b \in bs}
Lower(S, n) == {b \in S : Cardinality({x \in S : x < b}) < n}

Init ==
    /\ outbox = [k \in Keys |-> "none"]
    /\ held = [k \in Keys |-> "no"]
    /\ tokens = {}
    /\ raw = [k \in Keys |-> 0]
    /\ rollup = [b \in Buckets |-> {}]
    /\ dirty = {}
    /\ watermark = NoMark
    /\ eligible \in 0..NBuckets
    /\ jobs = [j \in Jobs |-> NoJob]
    /\ coverage = {}
    /\ tz = [j \in Jobs |-> {}]
    /\ slot = "free" /\ tzlock = "free"
    /\ comp = NoComp /\ rec = NoRec /\ rep = NoRep
    /\ work = [w \in Workers |-> NoWork]
    /\ retracted = {} /\ overlapped = {} /\ losses = 0 /\ kills = 0

-----------------------------------------------------------------------------
(* mark15mRollupDirty, committed in a transaction of its own or of a flush. *)
MarkDirty(bs) ==
    /\ dirty' = dirty \union bs
    /\ overlapped' = overlapped \union
                        (IF comp.pc # "idle" THEN bs \intersect (comp.dirty \union comp.fresh) ELSE {})

BucketsOf(ks) == {BucketOf[k] : k \in ks}

(* enqueueUsageEvents: the unique dedup key admits an event once. *)
Accept(k) ==
    /\ outbox[k] = "none"
    /\ outbox' = [outbox EXCEPT ![k] = "pending"]
    /\ UNCHANGED <<held, tokens, raw, derived, eligible, slot, tzlock, comp, rec, rep, work, history>>

(* flushUsageOutbox: the rows of a claimed batch are read ... *)
FetchRows(k) ==
    /\ outbox[k] = "pending" /\ held[k] = "no"
    /\ held' = [held EXCEPT ![k] = "rows"]
    /\ UNCHANGED <<outbox, tokens, raw, derived, eligible, slot, tzlock, comp, rec, rep, work, history>>

(* ... inserted under the token of the batch (insertOutboxRows) ... *)
InsertRaw(k) ==
    /\ held[k] = "rows"
    /\ held' = [held EXCEPT ![k] = "sent"]
    /\ tokens' = tokens \union {k}
    /\ raw' = IF k \in tokens THEN raw ELSE [raw EXCEPT ![k] = 1]
    /\ UNCHANGED <<outbox, derived, eligible, slot, tzlock, comp, rec, rep, work, history>>

(* Mutant: the flush does not mark the bucket. *)
DeliveredUnmarked(k) ==
    /\ held[k] = "sent"
    /\ outbox' = [outbox EXCEPT ![k] = IF @ = "pending" THEN "delivered" ELSE @]
    /\ held' = [held EXCEPT ![k] = "no"]
    /\ UNCHANGED <<tokens, raw, derived, eligible, slot, tzlock, comp, rec, rep, work, history>>

(* ... and marked dirty and delivered in one transaction. *)
Delivered(k) ==
    /\ held[k] = "sent"
    /\ MarkDirty({BucketOf[k]})
    /\ outbox' = [outbox EXCEPT ![k] = IF @ = "pending" THEN "delivered" ELSE @]
    /\ held' = [held EXCEPT ![k] = "no"]
    /\ UNCHANGED <<tokens, raw, rollup, watermark, eligible, jobs, coverage, tz,
                   slot, tzlock, comp, rec, rep, work, retracted, losses, kills>>

(* The flush fails or its process dies: the batch is flushed again later. *)
FlushFails(k) ==
    /\ FlushFailures /\ held[k] # "no"
    /\ held' = [held EXCEPT ![k] = "no"]
    /\ UNCHANGED <<outbox, tokens, raw, derived, eligible, slot, tzlock, comp, rec, rep, work, history>>

Flush(k) == FetchRows(k) \/ InsertRaw(k) \/ Delivered(k) \/ FlushFails(k)

-----------------------------------------------------------------------------
(* reconcileUsageEvents, the retraction of keys. *)

RetractOutbox(k) ==
    /\ rec.pc = "idle"
    /\ k \in Retractable /\ outbox[k] # "none" /\ k \notin retracted
    /\ rec' = [pc |-> "select", keys |-> {k}, had |-> outbox[k] # "gone"]
    /\ outbox' = [outbox EXCEPT ![k] = "gone"]
    /\ UNCHANGED <<held, tokens, raw, derived, eligible, slot, tzlock, comp, rep, work, history>>

(* Nothing in the outbox nor in ClickHouse: answered at once. *)
RetractSelect ==
    /\ rec.pc = "select"
    /\ IF rec.had \/ \E k \in rec.keys : raw[k] # 0
       THEN /\ rec' = [rec EXCEPT !.pc = "mark"]
            /\ UNCHANGED retracted
       ELSE /\ rec' = NoRec
            /\ retracted' = retracted \union rec.keys
    /\ UNCHANGED <<base, derived, eligible, slot, tzlock, comp, rep, work, overlapped, losses, kills>>

RetractMark ==
    /\ rec.pc \in {"mark", "remark"}
    /\ MarkDirty(BucketsOf(rec.keys))
    /\ IF rec.pc = "mark"
       THEN /\ rec' = [rec EXCEPT !.pc = "delete"]
            /\ UNCHANGED retracted
       ELSE /\ rec' = NoRec
            /\ retracted' = retracted \union rec.keys
    /\ UNCHANGED <<base, rollup, watermark, eligible, jobs, coverage, tz, slot, tzlock, comp, rep,
                   work, losses, kills>>

RetractDelete ==
    /\ rec.pc = "delete"
    /\ raw' = [k \in Keys |-> IF k \in rec.keys THEN 0 ELSE raw[k]]
    /\ rec' = [rec EXCEPT !.pc = "remark"]
    /\ UNCHANGED <<outbox, held, tokens, derived, eligible, slot, tzlock, comp, rep, work, history>>

RetractFails ==
    /\ rec.pc # "idle" /\ kills < MaxKills
    /\ kills' = kills + 1
    /\ rec' = NoRec
    /\ UNCHANGED <<base, derived, eligible, slot, tzlock, comp, rep, work, retracted, overlapped, losses>>

Retraction == (\E k \in Keys : RetractOutbox(k)) \/ RetractSelect \/ RetractMark \/ RetractDelete \/ RetractFails

-----------------------------------------------------------------------------
(* PgRollupWorkerRepository.withLoadSlot: a session-level advisory lock.   *)

Release(who) == slot' = IF slot = who THEN "free" ELSE slot

(* The session that holds a lock is lost: PostgreSQL frees the lock, the   *)
(* task goes on.                                                           *)
LoseSession ==
    /\ losses < MaxLosses
    /\ losses' = losses + 1
    /\ \/ slot # "free" /\ slot' = "free" /\ UNCHANGED tzlock
       \/ tzlock # "free" /\ tzlock' = "free" /\ UNCHANGED slot
    /\ UNCHANGED <<base, derived, eligible, comp, rec, rep, work, retracted, overlapped, kills>>

(* repairPricingUsage: read the rows that now have a price ... *)
RepairRead ==
    /\ slot = "free" /\ rep.pc = "idle"
    /\ \E k \in Repairable : raw[k] = 1
    /\ rep' = [pc |-> "mark", keys |-> {k \in Repairable : raw[k] = 1}]
    /\ slot' = "repair"
    /\ UNCHANGED <<base, derived, eligible, tzlock, comp, rec, work, history>>

(* ... mark, insert the replacements, mark again. *)
RepairMark ==
    /\ rep.pc \in {"mark", "remark"}
    /\ MarkDirty(BucketsOf(rep.keys))
    /\ IF rep.pc = "mark" THEN rep' = [rep EXCEPT !.pc = "insert"] /\ UNCHANGED slot
                          ELSE rep' = NoRep /\ Release("repair")
    /\ UNCHANGED <<base, rollup, watermark, eligible, jobs, coverage, tz, tzlock, comp, rec, work,
                   retracted, losses, kills>>

RepairInsert ==
    /\ rep.pc = "insert"
    /\ raw' = [k \in Keys |-> IF k \in rep.keys THEN 2 ELSE raw[k]]
    /\ rep' = [rep EXCEPT !.pc = "remark"]
    /\ UNCHANGED <<outbox, held, tokens, derived, eligible, slot, tzlock, comp, rec, work, history>>

RepairFails ==
    /\ rep.pc # "idle" /\ kills < MaxKills
    /\ kills' = kills + 1
    /\ rep' = NoRep
    /\ Release("repair")
    /\ UNCHANGED <<base, derived, eligible, tzlock, comp, rec, work, retracted, overlapped, losses>>

(* reconcilePricingRollupUsage: buckets of the same size whose pricing     *)
(* differs between the raw events and the rollup are marked again.         *)
Mispriced ==
    {b \in Buckets \ dirty :
        /\ b < watermark
        /\ Aggregate(b) # {} /\ Cardinality(Aggregate(b)) = Cardinality(rollup[b])
        /\ Cardinality({r \in Aggregate(b) : r[2] = 2}) # Cardinality({r \in rollup[b] : r[2] = 2})}

RecheckPricing ==
    /\ slot = "free" /\ rep.pc = "idle"
    /\ Mispriced # {}
    /\ MarkDirty(Mispriced)
    /\ UNCHANGED <<base, rollup, watermark, eligible, jobs, coverage, tz, slot, tzlock, comp, rec,
                   rep, work, retracted, losses, kills>>

Repair == RepairRead \/ RepairMark \/ RepairInsert \/ RepairFails \/ RecheckPricing

-----------------------------------------------------------------------------
(* compactUsageRollup for usage_15m_v2. *)

Tick ==
    /\ eligible < NBuckets
    /\ eligible' = eligible + 1
    /\ UNCHANGED <<base, derived, slot, tzlock, comp, rec, rep, work, history>>

(* readOrInitWatermark. *)
Mark ==
    LET present == {BucketOf[k] : k \in {x \in Keys : raw[x] # 0}}
    IN  IF watermark # NoMark THEN watermark
        ELSE IF present # {} THEN Min(present) ELSE eligible

(* Math.ceil(maxBuckets / 2) *)
DirtyLimit == (MaxBuckets + 1) \div 2

DirtyShare == Lower({b \in dirty : b < eligible}, DirtyLimit)

(* Mutant: the contiguous share is one bucket too long. *)
FreshShareTooLong == Mark..Max({Mark, eligible})

(* Mutant: nothing is left of the limit for the contiguous share. *)
FreshShareNone == {}

FreshShare ==
    LET n == Min({MaxBuckets - Cardinality(DirtyShare), Max({0, eligible - Mark})})
    IN  Mark..(Mark + n - 1)

CompactBegin ==
    /\ slot = "free" /\ comp.pc = "idle"
    /\ IF DirtyShare \union FreshShare = {}
       THEN /\ watermark' = Mark
            /\ watermark' # watermark
            /\ UNCHANGED <<slot, comp>>
       ELSE /\ comp' = [NoComp EXCEPT !.pc = "aggregate", !.dirty = DirtyShare,
                                      !.fresh = FreshShare, !.to = Mark + Cardinality(FreshShare)]
            /\ slot' = "compactor"
            /\ UNCHANGED watermark
    /\ overlapped' = overlapped \ DirtyShare
    /\ UNCHANGED <<base, rollup, dirty, jobs, coverage, tz, eligible, tzlock, rec, rep, work,
                   retracted, losses, kills>>

Compacted == comp.dirty \union comp.fresh

CompactAggregate ==
    /\ comp.pc = "aggregate"
    /\ comp' = [comp EXCEPT !.pc = "delete",
                            !.rows = [b \in Buckets |-> IF b \in Compacted THEN Aggregate(b) ELSE {}]]
    /\ UNCHANGED <<base, derived, eligible, slot, tzlock, rec, rep, work, history>>

(* Mutant: a dirty bucket is not emptied before it is written again. *)
CompactDeleteSkipped ==
    /\ comp.pc = "delete"
    /\ comp' = [comp EXCEPT !.pc = "insert"]
    /\ UNCHANGED <<base, derived, eligible, slot, tzlock, rec, rep, work, history>>

(* deleteRollupBuckets: only the dirty share is emptied. *)
CompactDelete ==
    /\ comp.pc = "delete"
    /\ rollup' = [b \in Buckets |-> IF b \in comp.dirty THEN {} ELSE rollup[b]]
    /\ comp' = [comp EXCEPT !.pc = "insert"]
    /\ UNCHANGED <<base, dirty, watermark, jobs, coverage, tz, eligible, slot, tzlock, rec, rep, work, history>>

CompactInsert ==
    /\ comp.pc = "insert"
    /\ rollup' = [b \in Buckets |-> rollup[b] \union comp.rows[b]]
    /\ comp' = [comp EXCEPT !.pc = "commit"]
    /\ UNCHANGED <<base, dirty, watermark, jobs, coverage, tz, eligible, slot, tzlock, rec, rep, work, history>>

(* Mutant: jobs are created for the buckets, existing ones left alone. *)
InvalidateJobsKeepsDone(bs) ==
    /\ jobs' = [j \in Jobs |-> IF j \in JobOf(bs) /\ jobs[j].status = "none"
                               THEN [status |-> "pending", gen |-> jobs[j].gen + 1] ELSE jobs[j]]
    /\ UNCHANGED coverage

(* invalidateTimezoneRollupJobs. *)
InvalidateJobs(bs) ==
    /\ coverage' = coverage \ JobOf(bs)
    /\ jobs' = [j \in Jobs |-> IF j \in JobOf(bs)
                               THEN [status |-> "pending", gen |-> jobs[j].gen + 1] ELSE jobs[j]]

CompactCommit ==
    /\ comp.pc = "commit"
    /\ InvalidateJobs(Compacted)
    /\ watermark' = comp.to
    /\ dirty' = dirty \ Compacted
    /\ comp' = NoComp
    /\ Release("compactor")
    /\ UNCHANGED <<base, rollup, tz, eligible, tzlock, rec, rep, work, history>>

(* The compaction fails or its process dies: PostgreSQL rolls back, what   *)
(* ClickHouse did stays.                                                   *)
CompactFails ==
    /\ comp.pc # "idle"
    /\ comp' = NoComp
    /\ Release("compactor")
    /\ UNCHANGED <<base, derived, eligible, tzlock, rec, rep, work, history>>

Compact == CompactBegin \/ CompactAggregate \/ CompactDelete \/ CompactInsert \/ CompactCommit \/ CompactFails

-----------------------------------------------------------------------------
(* runTimezoneRollupWorkerWith and PgTimezoneRollupRepository. *)

(* ensureRegisteredTimezone's prewarmMissingJobs. *)
Prewarm(j) ==
    /\ j \notin coverage /\ jobs[j].status = "none"
    /\ jobs' = [jobs EXCEPT ![j] = [status |-> "pending", gen |-> @.gen + 1]]
    /\ UNCHANGED <<base, rollup, dirty, watermark, coverage, tz, eligible, slot, tzlock, comp, rec, rep,
                   work, history>>

(* pruneClickHouseUsageRetentionAt deletes completed jobs.  A new row has  *)
(* a new id, modelled as a new generation.                                 *)
PruneJob(j) ==
    /\ jobs[j].status = "done"
    /\ jobs' = [jobs EXCEPT ![j].status = "none"]
    /\ UNCHANGED <<base, rollup, dirty, watermark, coverage, tz, eligible, slot, tzlock, comp, rec, rep,
                   work, history>>

(* source_to <= watermark and no dirty bucket in the range. *)
Settled(j) == (j + 1) * Span <= watermark /\ dirty \intersect Parts(j) = {}

(* In flight for five minutes: the worker died, or it is slow. *)
Stale(j) ==
    /\ jobs[j].status = "inflight"
    /\ SlowWorkers \/ \A w \in Workers : work[w].pc # "idle" =>
                          work[w].at.job # j /\ \A t \in work[w].todo : t.job # j

(* Mutant: a job in flight is never claimed again. *)
ClaimablePendingOnly(j) == jobs[j].status = "pending" /\ Settled(j)

Claimable(j) == (jobs[j].status = "pending" \/ Stale(j)) /\ Settled(j)

ClaimJobs(w) ==
    /\ work[w].pc = "idle" /\ slot = "free"
    /\ \E S \in SUBSET {j \in Jobs : Claimable(j)} :
          /\ S # {} /\ Cardinality(S) <= JobLimit
          /\ jobs' = [j \in Jobs |-> IF j \in S THEN [jobs[j] EXCEPT !.status = "inflight"] ELSE jobs[j]]
          /\ work' = [work EXCEPT ![w] = [NoWork EXCEPT !.pc = "next",
                                             !.todo = {[job |-> j, gen |-> jobs[j].gen] : j \in S}]]
    /\ slot' = w
    /\ UNCHANGED <<base, rollup, dirty, watermark, coverage, tz, eligible, tzlock, comp, rec, rep, history>>

(* Mutant: the generation is not compared. *)
MineAnyGeneration(t) == jobs[t.job].status = "inflight"

Mine(t) == jobs[t.job].status = "inflight" /\ jobs[t.job].gen = t.gen

MarkPending(t) ==
    jobs' = [jobs EXCEPT ![t.job].status = IF Mine(t) THEN "pending" ELSE @]

(* withAdvisoryLock: try the lock of the timezone. *)
LockTimezone(w) ==
    /\ work[w].pc = "next"
    /\ \E t \in work[w].todo :
          IF tzlock = "free"
          THEN /\ tzlock' = w
               /\ work' = [work EXCEPT ![w] = [@ EXCEPT !.pc = "aggregate", !.at = t,
                                                     !.todo = work[w].todo \ {t}]]
               /\ UNCHANGED jobs
          ELSE /\ MarkPending(t)
               /\ work' = [work EXCEPT ![w].todo = @ \ {t}]
               /\ UNCHANGED tzlock
    /\ UNCHANGED <<base, rollup, dirty, watermark, coverage, tz, eligible, slot, comp, rec, rep, history>>

Unlock(w) == tzlock' = IF tzlock = w THEN "free" ELSE tzlock

(* compactTimezoneRollup: aggregate, delete, insert. *)
TzAggregate(w) ==
    /\ work[w].pc = "aggregate"
    /\ work' = [work EXCEPT ![w].pc = "delete",
                            ![w].rows = UNION {rollup[b] : b \in Parts(work[w].at.job)}]
    /\ UNCHANGED <<base, derived, eligible, slot, tzlock, comp, rec, rep, history>>

TzDelete(w) ==
    /\ work[w].pc = "delete"
    /\ tz' = [tz EXCEPT ![work[w].at.job] = {}]
    /\ work' = [work EXCEPT ![w].pc = "insert"]
    /\ UNCHANGED <<base, rollup, dirty, watermark, jobs, coverage, eligible, slot, tzlock, comp, rec, rep, history>>

TzInsert(w) ==
    /\ work[w].pc = "insert"
    /\ tz' = [tz EXCEPT ![work[w].at.job] = @ \union work[w].rows]
    /\ work' = [work EXCEPT ![w].pc = "mark"]
    /\ Unlock(w)
    /\ UNCHANGED <<base, rollup, dirty, watermark, jobs, coverage, eligible, slot, comp, rec, rep, history>>

(* markDone, or markPending when it is refused. *)
MarkDone(w) ==
    /\ work[w].pc = "mark"
    /\ LET t == work[w].at
       IN  IF Mine(t) /\ Settled(t.job)
           THEN /\ jobs' = [jobs EXCEPT ![t.job].status = "done"]
                /\ coverage' = coverage \union {t.job}
           ELSE /\ MarkPending(t)
                /\ UNCHANGED coverage
    /\ work' = [work EXCEPT ![w] = [@ EXCEPT !.pc = "next", !.at = NoTask, !.rows = {}]]
    /\ UNCHANGED <<base, rollup, dirty, watermark, tz, eligible, slot, tzlock, comp, rec, rep, history>>

(* The job at hand throws: before the lock is taken, while it is held and  *)
(* ClickHouse did its part or not, or in markDone.                         *)
JobFails(w) ==
    /\ \/ /\ work[w].pc = "next"
          /\ \E t \in work[w].todo :
                /\ MarkPending(t)
                /\ work' = [work EXCEPT ![w].todo = @ \ {t}]
       \/ /\ work[w].pc \in {"aggregate", "delete", "insert", "mark"}
          /\ MarkPending(work[w].at)
          /\ work' = [work EXCEPT ![w] = [@ EXCEPT !.pc = "next", !.at = NoTask, !.rows = {}]]
    /\ Unlock(w)
    /\ UNCHANGED <<base, rollup, dirty, watermark, coverage, tz, eligible, slot, comp, rec, rep, history>>

WorkEnds(w) ==
    /\ work[w].pc = "next" /\ work[w].todo = {}
    /\ work' = [work EXCEPT ![w] = NoWork]
    /\ Release(w)
    /\ UNCHANGED <<base, derived, eligible, tzlock, comp, rec, rep, history>>

WorkerDies(w) ==
    /\ work[w].pc # "idle"
    /\ work' = [work EXCEPT ![w] = NoWork]
    /\ Release(w) /\ Unlock(w)
    /\ UNCHANGED <<base, derived, eligible, comp, rec, rep, history>>

Timezone(w) ==
    \/ ClaimJobs(w) \/ LockTimezone(w) \/ TzAggregate(w) \/ TzDelete(w) \/ TzInsert(w)
    \/ MarkDone(w) \/ JobFails(w) \/ WorkEnds(w) \/ WorkerDies(w)

-----------------------------------------------------------------------------
Next ==
    \/ \E k \in Keys : Accept(k) \/ Flush(k)
    \/ Retraction \/ LoseSession \/ Repair \/ Tick \/ Compact
    \/ \E j \in Jobs : Prewarm(j) \/ PruneJob(j)
    \/ \E w \in Workers : Timezone(w)

Spec == Init /\ [][Next]_vars

(* Failures, which end a flush, a task or a worker half way. *)
Fails ==
    \/ \E k \in Keys : FlushFails(k)
    \/ RetractFails \/ RepairFails \/ CompactFails
    \/ \E w \in Workers : JobFails(w) \/ WorkerDies(w)

(* The steps of a flush, a retraction, a repair, a compaction or a worker. *)
Progress ==
    \/ \E k \in Keys : FetchRows(k) \/ InsertRaw(k) \/ Delivered(k)
    \/ RetractSelect \/ RetractMark \/ RetractDelete
    \/ RepairRead \/ RepairMark \/ RepairInsert
    \/ CompactBegin \/ CompactAggregate \/ CompactDelete \/ CompactInsert \/ CompactCommit
    \/ \E w \in Workers : \/ ClaimJobs(w) \/ LockTimezone(w) \/ TzAggregate(w) \/ TzDelete(w)
                          \/ TzInsert(w) \/ MarkDone(w) \/ WorkEnds(w)

-----------------------------------------------------------------------------
(* Type invariant. *)
TypeOK ==
    /\ outbox \in [Keys -> {"none", "pending", "delivered", "gone"}]
    /\ held \in [Keys -> {"no", "rows", "sent"}]
    /\ tokens \subseteq Keys
    /\ raw \in [Keys -> 0..2]
    /\ rollup \in [Buckets -> SUBSET Rows]
    /\ dirty \subseteq Buckets
    /\ watermark \in -1..NBuckets /\ eligible \in 0..NBuckets
    /\ jobs \in [Jobs -> [status : {"none", "pending", "inflight", "done"}, gen : Nat]]
    /\ coverage \subseteq Jobs
    /\ tz \in [Jobs -> SUBSET Rows]
    /\ slot \in {"free", "compactor", "repair"} \union Workers
    /\ tzlock \in {"free"} \union Workers
    /\ comp \in [pc : {"idle", "aggregate", "delete", "insert", "commit"},
                 dirty : SUBSET Buckets, fresh : SUBSET Buckets, to : 0..NBuckets,
                 rows : [Buckets -> SUBSET Rows]]
    /\ rec \in [pc : {"idle", "select", "mark", "delete", "remark"}, keys : SUBSET Keys, had : BOOLEAN]
    /\ rep \in [pc : {"idle", "mark", "insert", "remark"}, keys : SUBSET Keys]
    /\ work \in [Workers -> [pc : {"idle", "next", "aggregate", "delete", "insert", "mark"},
                             todo : SUBSET Tasks, at : Tasks \union {NoTask}, rows : SUBSET Rows]]

(* The raw events of the bucket changed and the mark is still to come: the *)
(* writer is between the two, or a flush that died there will be repeated, *)
(* or its row was taken from the outbox by a retraction.                   *)
ChangePending(b) ==
    \/ \E k \in Keys : /\ BucketOf[k] = b
                       /\ held[k] = "sent" \/ (outbox[k] = "pending" /\ k \in tokens)
    \/ rec.pc \in {"select", "mark"} /\ rec.had /\ b \in BucketsOf(rec.keys)
    \/ rec.pc = "remark" /\ b \in BucketsOf(rec.keys)
    \/ rep.pc = "remark" /\ b \in BucketsOf(rep.keys)

(* A bucket the dashboards read from the rollup (rollupWindow): below the  *)
(* watermark and not dirty.                                                *)
Served(b) == b < watermark /\ b \notin dirty /\ ~ChangePending(b)

(* A served bucket of the 15 minute rollup holds exactly what the raw      *)
(* events add up to, after late events, retractions, repricing, failed     *)
(* compactions and repeated flushes, unless a mark for it was committed    *)
(* while a compaction that had taken the bucket was under way.             *)
ServedExact == \A b \in Buckets : Served(b) /\ b \notin overlapped => rollup[b] = Aggregate(b)

(* The same without the exception.  The comment in repairPricingUsage      *)
(* states it: the mark after the change makes the compactor aggregate the  *)
(* new rows even if it consumed the mark before the change.                *)
ServedAlwaysExact == \A b \in Buckets : Served(b) => rollup[b] = Aggregate(b)

(* readCacheReadySnapshot serves a timezone bucket that is covered, has no *)
(* unfinished job and lies below the watermark with no dirty part: it is   *)
(* the sum of its 15 minute buckets, whatever the compactor and other      *)
(* workers did while it was computed.                                      *)
CoveredExact ==
    \A j \in coverage :
        jobs[j].status \in {"none", "done"} /\ Settled(j) =>
            tz[j] = UNION {rollup[b] : b \in Parts(j)}

(* The same bucket when the load slot's session may be lost, so that a     *)
(* second worker and the compactor run beside the first, and workers may   *)
(* be slower than the lease: it may be missing for a while, never stale.   *)
CoveredNotStale ==
    \A j \in coverage :
        jobs[j].status \in {"none", "done"} /\ Settled(j) =>
            tz[j] \in {{}, UNION {rollup[b] : b \in Parts(j)}}

(* docs/design-usage-pull.md: the outbox row is removed first, then the    *)
(* raw event.  A key whose retraction was answered with success is gone.   *)
RetractedGone == \A k \in retracted : raw[k] = 0

(* Once nothing fails any more, every bucket that became eligible is       *)
(* compacted: the watermark passes it and the marks of all older buckets   *)
(* are worked off, although a compaction takes only MaxBuckets buckets and *)
(* serves dirty ones first.                                                *)
RollupCatchesUp ==
    <>[][~Fails]_vars =>
        \A n \in 1..NBuckets : (eligible >= n) ~> (watermark >= n /\ \A b \in dirty : b >= n)

(* Once nothing fails any more, a job whose range is compacted is          *)
(* finished, also one whose worker died, unless its range becomes dirty.   *)
JobsFinish ==
    <>[][~Fails]_vars =>
        \A j \in Jobs :
            (jobs[j].status \in {"pending", "inflight"} /\ Settled(j)) ~>
                (jobs[j].status = "done" \/ ~Settled(j))
=============================================================================
