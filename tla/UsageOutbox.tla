---------------------------- MODULE UsageOutbox ----------------------------
(***************************************************************************)
(* The outbox between the ingest API and ClickHouse.  A request stores its *)
(* new events as one batch in PostgreSQL and then runs flushUsageOutbox;   *)
(* so does a timer in every server process.  A flusher leases up to        *)
(* BatchLimit batches for five minutes and takes them one by one: the rows *)
(* are inserted into usage_events and into the additive                    *)
(* usage_hourly_rollup, each under the token of the batch, and one         *)
(* PostgreSQL transaction marks buckets and batch.                         *)
(*                                                                         *)
(* ClickHouse remembers the last Window tokens of a table.  A usage_events *)
(* row replaces one with the same key; an hourly row is added to it.       *)
(***************************************************************************)
EXTENDS Integers, SequencesExt

CONSTANTS
    OutboxKeys,     \* dedup keys of events
    Unpriced,       \* keys whose model has no price yet
    Flushers,       \* requests and timers that flush, in all processes
    BatchLimit,     \* batches one flush leases
    Window,         \* non_replicated_deduplication_window
    MaxBatches,     \* bound: batches that are created
    MaxFlushFails,  \* bound: flushes that fail or die
    SlowFlushers    \* TRUE: a live flusher may need more than five minutes

ASSUME OutboxAssumption ==
    /\ Unpriced \subseteq OutboxKeys
    /\ BatchLimit \in Nat \ {0} /\ Window \in Nat \ {0}
    /\ MaxBatches \in Nat /\ MaxFlushFails \in Nat /\ SlowFlushers \in BOOLEAN

VARIABLES
    batches,      \* clickhouse_usage_batches in the order of created_at
    rowBatch,     \* clickhouse_usage_outbox: the batch of a key's row (0: no row)
    rowDone,      \* keys whose row has a delivered_at
    events,       \* usage_events: the keys it has
    hourly,       \* usage_hourly_rollup: how often it counts each key
    eventTokens,  \* insert_deduplication_tokens usage_events remembers
    hourlyTokens, \* and those usage_hourly_rollup remembers
    marked,       \* keys whose buckets were marked dirty while they were in usage_events
    repairAsked,  \* unpriced keys for which enqueue_pricing_repair was called after that
    flush,        \* per flusher: leased batches, the one it is at, how far it is
    answered,     \* history: keys answered as inserted
    flushFails

outboxVars == <<batches, rowBatch, rowDone, events, hourly, eventTokens, hourlyTokens, marked,
                repairAsked, flush, answered, flushFails>>
postgres   == <<batches, rowBatch, rowDone, marked, repairAsked>>
clickhouse == <<events, hourly, eventTokens, hourlyTokens>>

NoFlush == [pc |-> "idle", todo |-> {}, at |-> 0, rows |-> {}]
Batch(status, done, lease) == [status |-> status, delivered |-> done, lease |-> lease]

OutboxInit ==
    /\ batches = <<>>
    /\ rowBatch = [k \in OutboxKeys |-> 0]
    /\ rowDone = {} /\ events = {}
    /\ hourly = [k \in OutboxKeys |-> 0]
    /\ eventTokens = <<>> /\ hourlyTokens = <<>>
    /\ marked = {} /\ repairAsked = {}
    /\ flush = [f \in Flushers |-> NoFlush]
    /\ answered = {} /\ flushFails = 0

-----------------------------------------------------------------------------
(* enqueueUsageEvents: one transaction.  A key that has a row is a         *)
(* duplicate; a batch in which nothing is new is deleted again.            *)
EnqueueEvents(S) ==
    /\ Len(batches) < MaxBatches
    /\ LET new == {k \in S : rowBatch[k] = 0}
       IN  /\ new # {}
           /\ batches' = Append(batches, Batch("pending", FALSE, "none"))
           /\ rowBatch' = [k \in OutboxKeys |-> IF k \in new THEN Len(batches) + 1 ELSE rowBatch[k]]
           /\ answered' = answered \union new
    /\ UNCHANGED <<rowDone, marked, repairAsked, clickhouse, flush, flushFails>>

(* Mutant: the claim looks at the status only. *)
ClaimableByStatus(b) == batches[b].status = "pending" \/ batches[b].lease = "expired"

(* Mutant: a batch stays with the flusher that leased it. *)
ClaimablePending(b) == batches[b].status = "pending" /\ ~batches[b].delivered

Claimable(b) ==
    /\ ~batches[b].delivered
    /\ \/ batches[b].status = "pending"
       \/ batches[b].status = "inflight" /\ batches[b].lease = "expired"

Oldest(S, n) == {b \in S : Cardinality({c \in S : c < b}) < n}

(* flushUsageOutbox: the oldest batches nobody holds are leased ...        *)
Claim(f) ==
    /\ flush[f].pc = "idle"
    /\ LET mine == Oldest({b \in DOMAIN batches : Claimable(b)}, BatchLimit)
       IN  /\ mine # {}
           /\ batches' = [b \in DOMAIN batches |->
                            IF b \in mine THEN Batch("inflight", FALSE, "fresh") ELSE batches[b]]
           /\ flush' = [flush EXCEPT ![f] = [pc |-> "next", todo |-> mine, at |-> 0, rows |-> {}]]
    /\ UNCHANGED <<rowBatch, rowDone, marked, repairAsked, clickhouse, answered, flushFails>>

CurrentBatch(f) == flush[f].at

RowsOf(b) == {k \in OutboxKeys : rowBatch[k] = b}

(* ... and taken in the order UPDATE returns them, which is any: the rows  *)
(* of the next batch are read, or the flush is over.                       *)
ReadBatch(f) ==
    /\ flush[f].pc = "next"
    /\ \/ /\ flush[f].todo = {}
          /\ flush' = [flush EXCEPT ![f] = NoFlush]
       \/ \E b \in flush[f].todo :
             flush' = [flush EXCEPT ![f] = [@ EXCEPT !.pc = "rows", !.at = b, !.rows = RowsOf(b)]]
    /\ UNCHANGED <<postgres, clickhouse, answered, flushFails>>

(* A table forgets the oldest token when a new one does not fit. *)
Remember(tokens, t) ==
    LET all == Append(tokens, t)
    IN  SubSeq(all, IF Len(all) > Window THEN Len(all) - Window + 1 ELSE 1, Len(all))

(* insertOutboxRows: usage_events under the token "<batch>:raw" ... *)
InsertEvents(f) ==
    /\ flush[f].pc = "rows"
    /\ IF flush[f].rows = {} \/ CurrentBatch(f) \in ToSet(eventTokens)
       THEN UNCHANGED <<events, eventTokens>>
       ELSE /\ events' = events \union flush[f].rows
            /\ eventTokens' = Remember(eventTokens, CurrentBatch(f))
    /\ flush' = [flush EXCEPT ![f].pc = "events"]
    /\ UNCHANGED <<postgres, hourly, hourlyTokens, answered, flushFails>>

(* Mutant: the hourly rows are inserted without a token. *)
InsertHourlyUntokened(f) ==
    /\ flush[f].pc = "events"
    /\ hourly' = [k \in OutboxKeys |-> hourly[k] + IF k \in flush[f].rows THEN 1 ELSE 0]
    /\ flush' = [flush EXCEPT ![f].pc = "hourly"]
    /\ UNCHANGED <<postgres, events, eventTokens, hourlyTokens, answered, flushFails>>

(* ... and rollupRows into usage_hourly_rollup under "<batch>:rollup". *)
InsertHourly(f) ==
    /\ flush[f].pc = "events"
    /\ IF flush[f].rows = {} \/ CurrentBatch(f) \in ToSet(hourlyTokens)
       THEN UNCHANGED <<hourly, hourlyTokens>>
       ELSE /\ hourly' = [k \in OutboxKeys |-> hourly[k] + IF k \in flush[f].rows THEN 1 ELSE 0]
            /\ hourlyTokens' = Remember(hourlyTokens, CurrentBatch(f))
    /\ flush' = [flush EXCEPT ![f].pc = "hourly"]
    /\ UNCHANGED <<postgres, events, eventTokens, answered, flushFails>>

(* Mutant: no pricing repair is asked for. *)
CommitBatchNoRepair(f) ==
    /\ flush[f].pc = "hourly"
    /\ marked' = marked \union flush[f].rows
    /\ rowDone' = rowDone \union RowsOf(CurrentBatch(f))
    /\ batches' = [batches EXCEPT ![CurrentBatch(f)] = Batch("delivered", TRUE, "none")]
    /\ flush' = [flush EXCEPT ![f] = [pc |-> "next", todo |-> @.todo \ {@.at}, at |-> 0, rows |-> {}]]
    /\ UNCHANGED <<rowBatch, repairAsked, clickhouse, answered, flushFails>>

(* The transaction that ends a batch: buckets are marked, rows and batch   *)
(* delivered, and a repair is asked for when a row has no price.           *)
CommitBatch(f) ==
    /\ flush[f].pc = "hourly"
    /\ marked' = marked \union flush[f].rows
    /\ rowDone' = rowDone \union RowsOf(CurrentBatch(f))
    /\ batches' = [batches EXCEPT ![CurrentBatch(f)] = Batch("delivered", TRUE, "none")]
    /\ repairAsked' = repairAsked \union (flush[f].rows \intersect Unpriced)
    /\ flush' = [flush EXCEPT ![f] = [pc |-> "next", todo |-> @.todo \ {@.at}, at |-> 0, rows |-> {}]]
    /\ UNCHANGED <<rowBatch, clickhouse, answered, flushFails>>

(* A step fails: the batch becomes pending again whatever it is by now,    *)
(* and the exception leaves the batches not yet taken to their leases.     *)
FlushFails(f) ==
    /\ flush[f].pc \in {"rows", "events", "hourly"}
    /\ flushFails < MaxFlushFails
    /\ flushFails' = flushFails + 1
    /\ batches' = [batches EXCEPT ![CurrentBatch(f)].status = "pending", ![CurrentBatch(f)].lease = "none"]
    /\ flush' = [flush EXCEPT ![f] = NoFlush]
    /\ UNCHANGED <<rowBatch, rowDone, marked, repairAsked, clickhouse, answered>>

(* The process dies, or PostgreSQL is gone and cannot be told. *)
FlusherDies(f) ==
    /\ flush[f].pc # "idle"
    /\ flushFails < MaxFlushFails
    /\ flushFails' = flushFails + 1
    /\ flush' = [flush EXCEPT ![f] = NoFlush]
    /\ UNCHANGED <<postgres, clickhouse, answered>>

(* locked_at becomes older than five minutes. *)
LeaseExpires(b) ==
    /\ b \in DOMAIN batches
    /\ batches[b].status = "inflight" /\ batches[b].lease = "fresh"
    /\ SlowFlushers \/ \A f \in Flushers : b \notin flush[f].todo
    /\ batches' = [batches EXCEPT ![b].lease = "expired"]
    /\ UNCHANGED <<rowBatch, rowDone, marked, repairAsked, clickhouse, flush, answered, flushFails>>

OutboxNext ==
    \/ \E S \in SUBSET OutboxKeys : EnqueueEvents(S)
    \/ \E f \in Flushers : Claim(f)
    \/ \E f \in Flushers : ReadBatch(f)
    \/ \E f \in Flushers : InsertEvents(f)
    \/ \E f \in Flushers : InsertHourly(f)
    \/ \E f \in Flushers : CommitBatch(f)
    \/ \E f \in Flushers : FlushFails(f)
    \/ \E f \in Flushers : FlusherDies(f)
    \/ \E b \in 1..MaxBatches : LeaseExpires(b)

OutboxSpec == OutboxInit /\ [][OutboxNext]_outboxVars

(* What a flusher does of itself. *)
FlushSteps(f) == Claim(f) \/ ReadBatch(f) \/ InsertEvents(f) \/ InsertHourly(f) \/ CommitBatch(f)

-----------------------------------------------------------------------------
(* Type invariant. *)
OutboxTypeOK ==
    /\ batches \in Seq([status : {"pending", "inflight", "delivered"}, delivered : BOOLEAN,
                        lease : {"none", "fresh", "expired"}])
    /\ Len(batches) <= MaxBatches
    /\ rowBatch \in [OutboxKeys -> 0..Len(batches)]
    /\ rowDone \subseteq OutboxKeys /\ events \subseteq OutboxKeys
    /\ hourly \in [OutboxKeys -> Nat]
    /\ eventTokens \in Seq(1..MaxBatches) /\ Len(eventTokens) <= Window
    /\ hourlyTokens \in Seq(1..MaxBatches) /\ Len(hourlyTokens) <= Window
    /\ marked \subseteq OutboxKeys /\ repairAsked \subseteq Unpriced
    /\ flush \in [Flushers -> [pc : {"idle", "next", "rows", "events", "hourly"},
                               todo : SUBSET (1..MaxBatches), at : 0..MaxBatches,
                               rows : SUBSET OutboxKeys]]

(* The outbox implements UsageAccounting with the hourly table as the      *)
(* additive one: two flushers that hold the same batch because the lease   *)
(* of the first ran out, and a flush repeated after any failure, do not    *)
(* count an event twice, while the table remembers the batch's token.      *)
Accounting == INSTANCE UsageAccounting WITH Events <- OutboxKeys, accepted <- answered, counted <- hourly
CountedOnce == Accounting!Spec

(* What a delivered row stands for, also when the batch was delivered by   *)
(* another flusher than the one that inserted it: the event is in both     *)
(* tables, its bucket was marked and, without a price, a repair was asked  *)
(* for after the event was visible.                                        *)
DeliveredComplete ==
    \A k \in rowDone :
        /\ k \in events /\ hourly[k] = 1
        /\ k \in marked
        /\ k \in Unpriced => k \in repairAsked

(* A delivered batch is never leased again, even when the late failure of  *)
(* a slow flusher sets its status back to pending.                         *)
DeliveredStays ==
    [][\A b \in DOMAIN batches : batches[b].delivered => batches'[b].status # "inflight"]_outboxVars

(* Once failures stop every accepted event is delivered, including those   *)
(* of batches a dead or failed flusher had leased and not yet taken.       *)
AcceptedDelivered == []<>(answered \subseteq rowDone)
=============================================================================
