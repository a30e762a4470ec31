----------------------------- MODULE RollupProofs -----------------------------
(***************************************************************************)
(* What the 15 minute rollup and the timezone rollup keep, for any keys,   *)
(* buckets, workers and bounds.                                            *)
(***************************************************************************)
EXTENDS UsageRollup, FiniteSetTheorems, WellFoundedInduction, TLAPS

Comps == [pc : {"idle", "aggregate", "delete", "insert", "commit"},
          dirty : SUBSET Buckets, fresh : SUBSET Buckets, to : 0..NBuckets,
          rows : [Buckets -> SUBSET Rows]]
Recs == [pc : {"idle", "select", "mark", "delete", "remark"}, keys : SUBSET Keys, had : BOOLEAN]
Reps == [pc : {"idle", "mark", "insert", "remark"}, keys : SUBSET Keys]
Works == [pc : {"idle", "next", "aggregate", "delete", "insert", "mark"},
          todo : SUBSET Tasks, at : Tasks \union {NoTask}, rows : SUBSET Rows]
JobRows == [status : {"none", "pending", "inflight", "done"}, gen : Nat]

-----------------------------------------------------------------------------
(* The operators of the model.                                             *)

(* A bucket lies before the end of the timezone bucket it is part of. *)
LEMMA PartBound ==
  ASSUME NEW b \in Buckets
  PROVE  b \div Span \in Nat /\ b < ((b \div Span) + 1) * Span
<1>1. b \in Nat /\ Span \in Nat /\ Span > 0
  BY RollupAssumption DEF Buckets
<1> QED  BY <1>1

(* The least and the greatest of two numbers. *)
LEMMA MinMaxOfTwo ==
  ASSUME NEW x \in Int, NEW y \in Int
  PROVE  /\ Min({x, y}) = IF x <= y THEN x ELSE y
         /\ Max({x, y}) = IF x <= y THEN y ELSE x
<1>1. Min({x, y}) \in {x, y} /\ \A z \in {x, y} : Min({x, y}) =< z
  <2> DEFINE P(m) == m \in {x, y} /\ \A z \in {x, y} : m =< z
  <2>1. \E m : P(m)
    BY x <= y \/ y <= x
  <2>2. P(CHOOSE m : P(m))
    BY <2>1, Zenon
  <2>3. Min({x, y}) = CHOOSE m : P(m)
    BY Zenon DEF Min
  <2> QED  BY <2>2, <2>3, Zenon
<1>2. Max({x, y}) \in {x, y} /\ \A z \in {x, y} : Max({x, y}) >= z
  <2> DEFINE P(m) == m \in {x, y} /\ \A z \in {x, y} : m >= z
  <2>1. \E m : P(m)
    BY x <= y \/ y <= x
  <2>2. P(CHOOSE m : P(m))
    BY <2>1, Zenon
  <2>3. Max({x, y}) = CHOOSE m : P(m)
    BY Zenon DEF Max
  <2> QED  BY <2>2, <2>3, Zenon
<1> QED  BY <1>1, <1>2

(* The least of a set of numbers. *)
LEMMA MinOfSet ==
  ASSUME NEW S \in SUBSET Nat, S # {}
  PROVE  Min(S) \in S /\ \A y \in S : Min(S) =< y
<1>1. PICK first \in S : \A b \in S : <<b, first>> \notin OpToRel(<, Nat)
  BY WFMin, NatLessThanWellFounded, Zenon
<1>2. \A b \in S : ~(b < first)
  BY <1>1, Zenon DEF OpToRel
<1>3. \A b \in S : first =< b
  BY <1>2
<1> DEFINE P(m) == m \in S /\ \A y \in S : m =< y
<1>4. P(CHOOSE m : P(m))
  BY <1>3, Zenon
<1>5. Min(S) = CHOOSE m : P(m)
  BY Zenon DEF Min
<1> QED  BY <1>4, <1>5, Zenon

(* Where the compactor goes on: at the watermark, or where the first raw   *)
(* event is.                                                               *)
LEMMA MarkFacts ==
  ASSUME TypeOK
  PROVE  /\ Mark \in 0..NBuckets
         /\ watermark # NoMark => Mark = watermark
         /\ watermark = NoMark => \A k \in Keys : raw[k] # 0 => BucketOf[k] >= Mark
<1> DEFINE present == {BucketOf[k] : k \in {x \in Keys : raw[x] # 0}}
<1>1. BucketOf \in [Keys -> Buckets] /\ NBuckets \in Nat
  BY RollupAssumption
<1>2. present \in SUBSET Nat /\ present \in SUBSET Buckets
  BY <1>1 DEF Buckets
<1>3. Mark = IF watermark # NoMark THEN watermark ELSE IF present # {} THEN Min(present) ELSE eligible
  BY DEF Mark
<1>4. present # {} => Min(present) \in Buckets /\ \A b \in present : Min(present) =< b
  BY <1>2, MinOfSet
<1>5. \A k \in Keys : raw[k] # 0 => BucketOf[k] \in present
  OBVIOUS
<1>6. watermark \in -1..NBuckets /\ eligible \in 0..NBuckets
  BY DEF TypeOK
<1> HIDE DEF present
<1>7. CASE watermark # NoMark
  BY <1>1, <1>3, <1>6, <1>7 DEF NoMark
<1>8. CASE watermark = NoMark /\ present # {}
  BY <1>1, <1>2, <1>3, <1>4, <1>5, <1>8 DEF Buckets
<1>9. CASE watermark = NoMark /\ present = {}
  BY <1>3, <1>5, <1>6, <1>9
<1> QED  BY <1>7, <1>8, <1>9

(* The contiguous share begins there, and ends before what is eligible.    *)
LEMMA FreshFacts ==
  ASSUME TypeOK
  PROVE  /\ FreshShare \in SUBSET Buckets
         /\ \A b \in FreshShare : Mark <= b /\ b < eligible
         /\ Mark + Cardinality(FreshShare) \in 0..NBuckets
         /\ Cardinality(FreshShare) \in Nat
         /\ \A b \in Buckets : Mark <= b /\ b < Mark + Cardinality(FreshShare) => b \in FreshShare
         /\ DirtyShare \in SUBSET Buckets /\ DirtyShare \subseteq dirty
<1> DEFINE wide == Max({0, eligible - Mark})
           left == MaxBuckets - Cardinality(DirtyShare)
           n == Min({left, wide})
<1>1. Mark \in 0..NBuckets /\ eligible \in 0..NBuckets /\ NBuckets \in Nat /\ MaxBuckets \in Int
  BY MarkFacts, RollupAssumption DEF TypeOK
<1>2. DirtyShare \in SUBSET Buckets /\ DirtyShare \subseteq dirty
  BY DEF DirtyShare, Lower, TypeOK
<1>3. IsFiniteSet(Buckets)
  BY <1>1, FS_Interval DEF Buckets
<1>4. Cardinality(DirtyShare) \in Nat
  BY <1>2, <1>3, FS_Subset, FS_CardinalityType
<1>5. left \in Int /\ eligible - Mark \in Int
  BY <1>1, <1>4
<1> HIDE DEF left
<1>6. wide = (IF eligible - Mark >= 0 THEN eligible - Mark ELSE 0)
  BY <1>1, <1>5, MinMaxOfTwo
<1>7. wide \in Int
  BY <1>1, <1>6
<1> HIDE DEF wide
<1>8. n \in Int /\ n <= wide
  BY <1>5, <1>7, MinMaxOfTwo
<1>9. FreshShare = Mark..(Mark + n - 1)
  BY Zenon DEF FreshShare, n, wide, left
<1> HIDE DEF n
<1>10. Cardinality(FreshShare) = IF n > 0 THEN n ELSE 0
  <2>1. Mark + n - 1 \in Int /\ Mark \in Int
    BY <1>1, <1>8
  <2>2. Cardinality(Mark..(Mark + n - 1)) = IF Mark > Mark + n - 1 THEN 0 ELSE (Mark + n - 1) - Mark + 1
    BY <2>1, FS_Interval
  <2> QED  BY <1>1, <1>8, <1>9, <2>2
<1>11. \A b \in FreshShare : Mark <= b /\ b < eligible /\ b \in Buckets
  BY <1>1, <1>6, <1>8, <1>9 DEF Buckets
<1>12. Mark + Cardinality(FreshShare) \in 0..NBuckets
  BY <1>1, <1>6, <1>8, <1>10
<1>13. \A b \in Buckets : Mark <= b /\ b < Mark + Cardinality(FreshShare) => b \in FreshShare
  BY <1>1, <1>8, <1>9, <1>10 DEF Buckets
<1>14. Cardinality(FreshShare) \in Nat
  BY <1>8, <1>10
<1> QED  BY <1>2, <1>11, <1>12, <1>13, <1>14

(* The rows of a bucket are those of its raw events. *)
LEMMA AggregateFacts ==
  ASSUME raw \in [Keys -> 0..2], NEW b
  PROVE  /\ Aggregate(b) \in SUBSET Rows
         /\ Aggregate(b) = {} <=> \A k \in Keys : BucketOf[k] = b => raw[k] = 0
<1> DEFINE here == {x \in Keys : BucketOf[x] = b /\ raw[x] # 0}
<1>1. Aggregate(b) = {<<k, raw[k]>> : k \in here}
  BY DEF Aggregate
<1>2. \A k \in here : k \in Keys /\ raw[k] \in 1..2
  OBVIOUS
<1>3. Aggregate(b) \in SUBSET Rows
  BY <1>1, <1>2 DEF Rows
<1>4. Aggregate(b) = {} <=> here = {}
  BY <1>1
<1> QED  BY <1>3, <1>4

-----------------------------------------------------------------------------
(* Types.                                                                  *)

(* The types of the tables, of the bookkeeping and of the tasks. *)
BaseTyped ==
  /\ outbox \in [Keys -> {"none", "pending", "delivered", "gone"}]
  /\ held \in [Keys -> {"no", "rows", "sent"}]
  /\ tokens \subseteq Keys
  /\ raw \in [Keys -> 0..2]
DerivedTyped ==
  /\ rollup \in [Buckets -> SUBSET Rows]
  /\ dirty \subseteq Buckets
  /\ watermark \in -1..NBuckets
  /\ jobs \in [Jobs -> JobRows]
  /\ coverage \subseteq Jobs
  /\ tz \in [Jobs -> SUBSET Rows]
LocksTyped ==
  /\ eligible \in 0..NBuckets
  /\ slot \in {"free", "compactor", "repair"} \union Workers
  /\ tzlock \in {"free"} \union Workers
TasksTyped ==
  /\ comp \in Comps /\ rec \in Recs /\ rep \in Reps
  /\ work \in [Workers -> Works]

(* They make up the type invariant, before a step and after it. *)
LEMMA TypeParts ==
  /\ TypeOK <=> BaseTyped /\ DerivedTyped /\ LocksTyped /\ TasksTyped
  /\ TypeOK' <=> BaseTyped' /\ DerivedTyped' /\ LocksTyped' /\ TasksTyped'
<1> QED  BY DEF TypeOK, BaseTyped, DerivedTyped, LocksTyped, TasksTyped, Comps, Recs, Reps, Works, JobRows

(* The types hold at first ... *)
LEMMA TypeInit == Init => TypeOK
<1> SUFFICES ASSUME Init  PROVE TypeOK
  OBVIOUS
<1> USE DEF Init
<1>1. NBuckets \in Nat /\ 0 \in 0..NBuckets
  BY RollupAssumption
<1>2. BaseTyped
  BY DEF BaseTyped
<1>3. NoJob \in JobRows
  BY DEF NoJob, JobRows
<1>4. DerivedTyped
  BY <1>1, <1>3 DEF DerivedTyped, NoMark
<1>5. LocksTyped
  BY DEF LocksTyped
<1>6. NoComp \in Comps
  BY <1>1 DEF NoComp, Comps
<1>7. NoRec \in Recs /\ NoRep \in Reps /\ NoWork \in Works
  BY DEF NoRec, Recs, NoRep, Reps, NoWork, Works
<1>8. TasksTyped
  BY <1>6, <1>7 DEF TasksTyped
<1> QED  BY <1>2, <1>4, <1>5, <1>8, TypeParts

(* ... a flush keeps them ... *)
LEMMA FlushTyped ==
  ASSUME TypeOK, NEW k \in Keys, Accept(k) \/ Flush(k)
  PROVE  TypeOK'
<1>1. BaseTyped /\ DerivedTyped /\ LocksTyped /\ TasksTyped
  BY TypeParts
<1>2. BaseTyped'
  BY <1>1 DEF BaseTyped, Accept, Flush, FetchRows, InsertRaw, Delivered, FlushFails, derived, history
<1>3. LocksTyped' /\ TasksTyped'
  BY <1>1 DEF LocksTyped, TasksTyped, Accept, Flush, FetchRows, InsertRaw, Delivered, FlushFails
<1>4. DerivedTyped'
  <2>1. BucketOf[k] \in Buckets
    BY RollupAssumption
  <2>2. dirty' = dirty \/ dirty' = dirty \union {BucketOf[k]}
    BY DEF Accept, Flush, FetchRows, InsertRaw, Delivered, FlushFails, derived, MarkDirty
  <2>3. UNCHANGED <<rollup, watermark, jobs, coverage, tz>>
    BY DEF Accept, Flush, FetchRows, InsertRaw, Delivered, FlushFails, derived
  <2> QED  BY <1>1, <2>1, <2>2, <2>3 DEF DerivedTyped
<1> QED  BY <1>2, <1>3, <1>4, TypeParts

(* ... a retraction ... *)
LEMMA RetractionTyped ==
  ASSUME TypeOK, Retraction
  PROVE  TypeOK'
<1> USE DEF Retraction, RetractSelect, RetractMark, RetractDelete, RetractFails
<1>1. BaseTyped /\ DerivedTyped /\ LocksTyped /\ TasksTyped
  BY TypeParts
<1>2. BaseTyped'
  BY <1>1 DEF BaseTyped, base, RetractOutbox
<1>3. LocksTyped' /\ UNCHANGED <<comp, rep, work>>
  BY <1>1 DEF LocksTyped, RetractOutbox
<1>4. rec' \in Recs
  <2>1. rec \in Recs /\ NoRec \in Recs
    BY <1>1 DEF TasksTyped, NoRec, Recs
  <2>2. \A pc \in {"mark", "delete", "remark"} : [rec EXCEPT !.pc = pc] \in Recs
    BY <2>1 DEF Recs
  <2>3. ASSUME NEW k \in Keys, RetractOutbox(k)  PROVE rec' \in Recs
    BY <2>3 DEF RetractOutbox, Recs
  <2> QED  BY <2>1, <2>2, <2>3
<1>5. DerivedTyped'
  <2>1. BucketsOf(rec.keys) \subseteq Buckets
    BY <1>1, RollupAssumption DEF BucketsOf, TasksTyped, Recs
  <2>2. dirty' = dirty \/ dirty' = dirty \union BucketsOf(rec.keys)
    BY DEF RetractOutbox, derived, MarkDirty
  <2>3. UNCHANGED <<rollup, watermark, jobs, coverage, tz>>
    BY DEF RetractOutbox, derived
  <2> QED  BY <1>1, <2>1, <2>2, <2>3 DEF DerivedTyped
<1>6. TasksTyped'
  BY <1>1, <1>3, <1>4 DEF TasksTyped
<1> QED  BY <1>2, <1>3, <1>5, <1>6, TypeParts

(* ... a pricing repair ... *)
LEMMA RepairTyped ==
  ASSUME TypeOK, Repair
  PROVE  TypeOK'
<1> USE DEF Repair, RepairRead, RepairMark, RepairInsert, RepairFails, RecheckPricing
<1>1. BaseTyped /\ DerivedTyped /\ LocksTyped /\ TasksTyped
  BY TypeParts
<1>2. BaseTyped'
  BY <1>1 DEF BaseTyped, base
<1>3. LocksTyped' /\ UNCHANGED <<comp, rec, work>>
  BY <1>1 DEF LocksTyped, Release
<1>4. rep' \in Reps
  <2>1. rep \in Reps /\ NoRep \in Reps
    BY <1>1 DEF TasksTyped, NoRep, Reps
  <2>2. \A pc \in {"insert", "remark"} : [rep EXCEPT !.pc = pc] \in Reps
    BY <2>1 DEF Reps
  <2>3. ASSUME RepairRead  PROVE rep' \in Reps
    <3>1. {k \in Repairable : raw[k] = 1} \subseteq Keys
      BY RollupAssumption
    <3> QED  BY <2>3, <3>1 DEF Reps
  <2> QED  BY <2>1, <2>2, <2>3
<1>5. DerivedTyped'
  <2>1. BucketsOf(rep.keys) \subseteq Buckets /\ Mispriced \subseteq Buckets
    BY <1>1, RollupAssumption DEF BucketsOf, TasksTyped, Reps, Mispriced
  <2>2. dirty' = dirty \/ dirty' = dirty \union BucketsOf(rep.keys) \/ dirty' = dirty \union Mispriced
    BY DEF derived, MarkDirty
  <2>3. UNCHANGED <<rollup, watermark, jobs, coverage, tz>>
    BY DEF derived
  <2> QED  BY <1>1, <2>1, <2>2, <2>3 DEF DerivedTyped
<1>6. TasksTyped'
  BY <1>1, <1>3, <1>4 DEF TasksTyped
<1> QED  BY <1>2, <1>3, <1>5, <1>6, TypeParts

(* ... the clock and a lost session ... *)
LEMMA TickTyped ==
  ASSUME TypeOK, Tick \/ LoseSession
  PROVE  TypeOK'
<1>1. BaseTyped /\ DerivedTyped /\ LocksTyped /\ TasksTyped
  BY TypeParts
<1>2. BaseTyped' /\ DerivedTyped' /\ TasksTyped'
  BY <1>1 DEF Tick, LoseSession, BaseTyped, DerivedTyped, TasksTyped, base, derived
<1>3. LocksTyped'
  BY <1>1, RollupAssumption DEF Tick, LoseSession, LocksTyped
<1> QED  BY <1>2, <1>3, TypeParts

(* ... the compactor ... *)
LEMMA CompactTyped ==
  ASSUME TypeOK, Compact
  PROVE  TypeOK'
<1>1. BaseTyped /\ DerivedTyped /\ LocksTyped /\ TasksTyped
  BY TypeParts
<1>2. BaseTyped' /\ UNCHANGED <<rec, rep, work, tz, eligible, tzlock>>
  BY <1>1 DEF Compact, CompactBegin, CompactAggregate, CompactDelete, CompactInsert, CompactCommit,
              CompactFails, BaseTyped, base, derived
<1>3. slot' \in {slot, "free", "compactor"}
  BY DEF Compact, CompactBegin, CompactAggregate, CompactDelete, CompactInsert, CompactCommit,
         CompactFails, Release
<1>4. LocksTyped'
  BY <1>1, <1>2, <1>3 DEF LocksTyped
<1>5. comp \in Comps /\ NoComp \in Comps
  BY <1>1, RollupAssumption DEF TasksTyped, NoComp, Comps
<1>6. comp' \in Comps
  <2>1. ASSUME CompactBegin  PROVE comp' \in Comps
    <3> DEFINE n == [NoComp EXCEPT !.pc = "aggregate", !.dirty = DirtyShare, !.fresh = FreshShare,
                                   !.to = Mark + Cardinality(FreshShare)]
    <3>1. n \in Comps
      <4> DEFINE to == Mark + Cardinality(FreshShare)
      <4>1. DirtyShare \in SUBSET Buckets /\ FreshShare \in SUBSET Buckets /\ to \in 0..NBuckets
        BY FreshFacts
      <4> HIDE DEF to
      <4>2. n = [NoComp EXCEPT !.pc = "aggregate", !.dirty = DirtyShare, !.fresh = FreshShare, !.to = to]
        BY DEF to
      <4> QED  BY <1>5, <4>1, <4>2 DEF Comps
    <3>2. comp' = comp \/ comp' = n
      BY <2>1 DEF CompactBegin
    <3> QED  BY <1>5, <3>1, <3>2
  <2>2. ASSUME CompactAggregate  PROVE comp' \in Comps
    <3> DEFINE rows == [b \in Buckets |-> IF b \in Compacted THEN Aggregate(b) ELSE {}]
    <3>1. \A b \in Buckets : Aggregate(b) \in SUBSET Rows
      BY <1>1, AggregateFacts DEF BaseTyped
    <3>2. rows \in [Buckets -> SUBSET Rows]
      BY <3>1
    <3>3. comp' = [comp EXCEPT !.pc = "delete", !.rows = rows]
      BY <2>2 DEF CompactAggregate
    <3> HIDE DEF rows
    <3> QED  BY <1>5, <3>2, <3>3 DEF Comps
  <2>3. ASSUME CompactDelete \/ CompactInsert  PROVE comp' \in Comps
    BY <1>5, <2>3 DEF CompactDelete, CompactInsert, Comps
  <2>4. ASSUME CompactCommit \/ CompactFails  PROVE comp' \in Comps
    BY <1>5, <2>4 DEF CompactCommit, CompactFails
  <2> QED  BY <2>1, <2>2, <2>3, <2>4 DEF Compact
<1>7. DerivedTyped'
  <2>1. ASSUME CompactBegin  PROVE DerivedTyped'
    <3>1. watermark' = watermark \/ watermark' = Mark
      BY <2>1 DEF CompactBegin
    <3>2. UNCHANGED <<rollup, dirty, jobs, coverage, tz>>
      BY <2>1 DEF CompactBegin
    <3>3. Mark \in 0..NBuckets /\ NBuckets \in Nat
      BY MarkFacts, RollupAssumption
    <3> QED  BY <1>1, <3>1, <3>2, <3>3 DEF DerivedTyped
  <2>2. ASSUME CompactAggregate \/ CompactFails  PROVE DerivedTyped'
    BY <1>1, <2>2 DEF CompactAggregate, CompactFails, DerivedTyped, derived
  <2>3. ASSUME CompactDelete  PROVE DerivedTyped'
    BY <1>1, <2>3 DEF CompactDelete, DerivedTyped
  <2>4. ASSUME CompactInsert  PROVE DerivedTyped'
    <3>1. \A b \in Buckets : rollup[b] \union comp.rows[b] \in SUBSET Rows
      BY <1>1, <1>5 DEF DerivedTyped, Comps
    <3>2. rollup' \in [Buckets -> SUBSET Rows]
      BY <2>4, <3>1 DEF CompactInsert
    <3> QED  BY <1>1, <2>4, <3>2 DEF CompactInsert, DerivedTyped
  <2>5. ASSUME CompactCommit  PROVE DerivedTyped'
    <3>1. jobs' \in [Jobs -> JobRows]
      BY <1>1, <2>5 DEF CompactCommit, InvalidateJobs, DerivedTyped, JobRows
    <3>2. watermark' \in -1..NBuckets
      BY <1>5, <2>5, RollupAssumption DEF CompactCommit, Comps
    <3> QED  BY <1>1, <2>5, <3>1, <3>2 DEF CompactCommit, InvalidateJobs, DerivedTyped
  <2> QED  BY <2>1, <2>2, <2>3, <2>4, <2>5 DEF Compact
<1>8. TasksTyped'
  BY <1>1, <1>2, <1>6 DEF TasksTyped
<1> QED  BY <1>2, <1>4, <1>7, <1>8, TypeParts

(* ... the jobs that are created and pruned ... *)
LEMMA JobTyped ==
  ASSUME TypeOK, NEW j \in Jobs, Prewarm(j) \/ PruneJob(j)
  PROVE  TypeOK'
<1>1. BaseTyped /\ DerivedTyped /\ LocksTyped /\ TasksTyped
  BY TypeParts
<1>2. BaseTyped' /\ LocksTyped' /\ TasksTyped'
  BY <1>1 DEF Prewarm, PruneJob, BaseTyped, LocksTyped, TasksTyped, base
<1>3. jobs' \in [Jobs -> JobRows]
  <2>1. jobs \in [Jobs -> JobRows]
    BY <1>1 DEF DerivedTyped
  <2>2. CASE Prewarm(j)
    BY <2>1, <2>2 DEF Prewarm, JobRows
  <2>3. CASE PruneJob(j)
    BY <2>1, <2>3 DEF PruneJob, JobRows
  <2> QED  BY <2>2, <2>3
<1>4. DerivedTyped'
  BY <1>1, <1>3 DEF Prewarm, PruneJob, DerivedTyped
<1> QED  BY <1>2, <1>4, TypeParts

(* markPending gives back the job the worker holds, and touches no other. *)
LEMMA PendingFacts ==
  ASSUME jobs \in [Jobs -> JobRows], NEW t \in Tasks, MarkPending(t)
  PROVE  /\ jobs' \in [Jobs -> JobRows]
         /\ \A j \in Jobs : jobs'[j].gen = jobs[j].gen
         /\ \A j \in Jobs : jobs'[j].status = jobs[j].status \/ jobs[j].status = "inflight"
<1>1. t.job \in Jobs
  BY DEF Tasks
<1> DEFINE s == IF Mine(t) THEN "pending" ELSE jobs[t.job].status
           row == [jobs[t.job] EXCEPT !.status = s]
<1>2. s \in {"none", "pending", "inflight", "done"} /\ (s = jobs[t.job].status \/ jobs[t.job].status = "inflight")
  BY <1>1 DEF Mine, JobRows
<1>3. jobs' = [jobs EXCEPT ![t.job] = row]
  BY <1>1 DEF MarkPending
<1> HIDE DEF s
<1>4. row \in JobRows /\ row.gen = jobs[t.job].gen /\ row.status = s
  BY <1>1, <1>2 DEF JobRows
<1> HIDE DEF row
<1> QED  BY <1>1, <1>2, <1>3, <1>4 DEF JobRows

(* What is known of a worker besides the types. *)
Running(w) == work[w].pc \in {"aggregate", "delete", "insert", "mark"}
WorkInv ==
  \A w \in Workers :
     /\ work[w].pc = "idle" => work[w].todo = {}
     /\ Running(w) => work[w].at \in Tasks

(* The record of a worker after each of its steps. *)
Worker(pc, todo, at, rows) == [pc |-> pc, todo |-> todo, at |-> at, rows |-> rows]
Sets(w, v) == work' = [work EXCEPT ![w] = v]

(* The records of a worker after each of its steps: it has claimed its     *)
(* jobs ...                                                                *)
LEMMA ClaimStep ==
  ASSUME TypeOK, NEW w \in Workers, ClaimJobs(w)
  PROVE  \E S \in SUBSET {j \in Jobs : Claimable(j)} :
            /\ jobs' = [j \in Jobs |-> IF j \in S THEN [jobs[j] EXCEPT !.status = "inflight"] ELSE jobs[j]]
            /\ Sets(w, Worker("next", {[job |-> j, gen |-> jobs[j].gen] : j \in S}, NoTask, {}))
            /\ slot = "free" /\ slot' = w /\ work[w].pc = "idle"
<1>1. PICK S \in SUBSET {j \in Jobs : Claimable(j)} :
          /\ jobs' = [j \in Jobs |-> IF j \in S THEN [jobs[j] EXCEPT !.status = "inflight"] ELSE jobs[j]]
          /\ work' = [work EXCEPT ![w] = [NoWork EXCEPT !.pc = "next",
                                             !.todo = {[job |-> j, gen |-> jobs[j].gen] : j \in S}]]
  BY Zenon DEF ClaimJobs
<1>2. [NoWork EXCEPT !.pc = "next", !.todo = {[job |-> j, gen |-> jobs[j].gen] : j \in S}]
        = Worker("next", {[job |-> j, gen |-> jobs[j].gen] : j \in S}, NoTask, {})
  <2> DEFINE todo == {[job |-> j, gen |-> jobs[j].gen] : j \in S}
  <2> HIDE DEF todo
  <2>1. ASSUME NEW v, v = [NoWork EXCEPT !.pc = "next", !.todo = todo]
        PROVE  v = Worker("next", todo, NoTask, {})
    BY <2>1 DEF NoWork, Worker
  <2> QED  BY <2>1, Zenon DEF todo
<1>3. slot = "free" /\ slot' = w /\ work[w].pc = "idle"
  BY DEF ClaimJobs
<1> QED  BY <1>1, <1>2, <1>3, Zenon DEF Sets

(* ... has the lock of the next, or has given that job back ...            *)
LEMMA LockStep ==
  ASSUME TypeOK, NEW w \in Workers, LockTimezone(w)
  PROVE  /\ work[w].pc = "next"
         /\ \E t \in work[w].todo :
              \/ /\ tzlock = "free" /\ tzlock' = w
                 /\ Sets(w, Worker("aggregate", work[w].todo \ {t}, t, work[w].rows))
                 /\ UNCHANGED jobs
              \/ /\ MarkPending(t) /\ UNCHANGED tzlock
                 /\ Sets(w, Worker("next", work[w].todo \ {t}, work[w].at, work[w].rows))
<1>1. work \in [Workers -> Works] /\ work[w] \in Works
  BY TypeParts DEF TasksTyped
<1>2. PICK t \in work[w].todo :
          \/ /\ tzlock = "free" /\ tzlock' = w
             /\ work' = [work EXCEPT ![w] = [@ EXCEPT !.pc = "aggregate", !.at = t, !.todo = work[w].todo \ {t}]]
             /\ UNCHANGED jobs
          \/ /\ MarkPending(t)
             /\ work' = [work EXCEPT ![w].todo = @ \ {t}]
             /\ UNCHANGED tzlock
  BY DEF LockTimezone
<1>3. work[w].pc = "next"
  BY DEF LockTimezone
<1>4. ASSUME work' = [work EXCEPT ![w] = [@ EXCEPT !.pc = "aggregate", !.at = t, !.todo = work[w].todo \ {t}]]
      PROVE  Sets(w, Worker("aggregate", work[w].todo \ {t}, t, work[w].rows))
  <2>1. ASSUME NEW v \in Works, NEW todo, NEW n, n = [v EXCEPT !.pc = "aggregate", !.at = t, !.todo = todo]
        PROVE  n = Worker("aggregate", todo, t, v.rows)
    BY <2>1 DEF Worker, Works
  <2>2. [work[w] EXCEPT !.pc = "aggregate", !.at = t, !.todo = work[w].todo \ {t}]
          = Worker("aggregate", work[w].todo \ {t}, t, work[w].rows)
    BY <1>1, <2>1
  <2>3. work' = [work EXCEPT ![w] = [work[w] EXCEPT !.pc = "aggregate", !.at = t, !.todo = work[w].todo \ {t}]]
    BY <1>1, <1>4
  <2> QED  BY <2>2, <2>3, Zenon DEF Sets
<1>5. ASSUME work' = [work EXCEPT ![w].todo = @ \ {t}]
      PROVE  Sets(w, Worker("next", work[w].todo \ {t}, work[w].at, work[w].rows))
  <2>1. ASSUME NEW v \in Works, NEW todo, NEW n, n = [v EXCEPT !.todo = todo], v.pc = "next"
        PROVE  n = Worker("next", todo, v.at, v.rows)
    BY <2>1 DEF Worker, Works
  <2>2. [work[w] EXCEPT !.todo = work[w].todo \ {t}]
          = Worker("next", work[w].todo \ {t}, work[w].at, work[w].rows)
    BY <1>1, <1>3, <2>1
  <2>3. work' = [work EXCEPT ![w] = [work[w] EXCEPT !.todo = work[w].todo \ {t}]]
    BY <1>1, <1>5
  <2> QED  BY <2>2, <2>3, Zenon DEF Sets
<1> QED  BY <1>2, <1>3, <1>4, <1>5

(* ... has done a step of the job ...                                      *)
LEMMA TzSteps ==
  ASSUME TypeOK, NEW w \in Workers
  PROVE  /\ TzAggregate(w) => Sets(w, Worker("delete", work[w].todo, work[w].at,
                                             UNION {rollup[b] : b \in Parts(work[w].at.job)}))
         /\ TzDelete(w) => Sets(w, Worker("insert", work[w].todo, work[w].at, work[w].rows))
         /\ TzInsert(w) => Sets(w, Worker("mark", work[w].todo, work[w].at, work[w].rows))
         /\ MarkDone(w) => Sets(w, Worker("next", work[w].todo, NoTask, {}))
         /\ WorkEnds(w) \/ WorkerDies(w) => Sets(w, Worker("idle", {}, NoTask, {}))
<1>1. work \in [Workers -> Works] /\ work[w] \in Works
  BY TypeParts DEF TasksTyped
<1>2. TzAggregate(w) => Sets(w, Worker("delete", work[w].todo, work[w].at,
                                       UNION {rollup[b] : b \in Parts(work[w].at.job)}))
  BY <1>1 DEF TzAggregate, Sets, Worker, Works
<1>3. TzDelete(w) => Sets(w, Worker("insert", work[w].todo, work[w].at, work[w].rows))
  BY <1>1 DEF TzDelete, Sets, Worker, Works
<1>4. TzInsert(w) => Sets(w, Worker("mark", work[w].todo, work[w].at, work[w].rows))
  BY <1>1 DEF TzInsert, Sets, Worker, Works
<1>5. MarkDone(w) => Sets(w, Worker("next", work[w].todo, NoTask, {}))
  BY <1>1 DEF MarkDone, Sets, Worker, Works
<1>6. WorkEnds(w) \/ WorkerDies(w) => Sets(w, Worker("idle", {}, NoTask, {}))
  BY DEF WorkEnds, WorkerDies, Sets, Worker, NoWork
<1> QED  BY <1>2, <1>3, <1>4, <1>5, <1>6

(* ... or has failed in it.                                                *)
LEMMA FailStep ==
  ASSUME TypeOK, NEW w \in Workers, JobFails(w)
  PROVE  \/ \E t \in work[w].todo :
              /\ work[w].pc = "next" /\ MarkPending(t)
              /\ Sets(w, Worker("next", work[w].todo \ {t}, work[w].at, work[w].rows))
         \/ /\ Running(w) /\ MarkPending(work[w].at)
            /\ Sets(w, Worker("next", work[w].todo, NoTask, {}))
<1>1. work \in [Workers -> Works] /\ work[w] \in Works
  BY TypeParts DEF TasksTyped
<1>2. CASE /\ work[w].pc = "next"
           /\ \E t \in work[w].todo :
                 /\ MarkPending(t)
                 /\ work' = [work EXCEPT ![w].todo = @ \ {t}]
  <2>1. PICK t \in work[w].todo : MarkPending(t) /\ work' = [work EXCEPT ![w].todo = @ \ {t}]
    BY <1>2
  <2>2. Sets(w, Worker("next", work[w].todo \ {t}, work[w].at, work[w].rows))
    BY <1>1, <1>2, <2>1 DEF Sets, Worker, Works
  <2> QED  BY <1>2, <2>1, <2>2
<1>3. CASE /\ Running(w)
           /\ MarkPending(work[w].at)
           /\ work' = [work EXCEPT ![w] = [@ EXCEPT !.pc = "next", !.at = NoTask, !.rows = {}]]
  <2>1. work' = [work EXCEPT ![w] = [@ EXCEPT !.pc = "next", !.at = NoTask, !.rows = {}]]
    BY <1>3, Zenon
  <2>2. ASSUME NEW v \in Works, NEW n, n = [v EXCEPT !.pc = "next", !.at = NoTask, !.rows = {}]
        PROVE  n = Worker("next", v.todo, NoTask, {})
    BY <2>2 DEF Worker, Works
  <2>3. [work[w] EXCEPT !.pc = "next", !.at = NoTask, !.rows = {}] = Worker("next", work[w].todo, NoTask, {})
    BY <1>1, <2>2
  <2>4. work' = [work EXCEPT ![w] = [work[w] EXCEPT !.pc = "next", !.at = NoTask, !.rows = {}]]
    BY <1>1, <2>1
  <2>5. Sets(w, Worker("next", work[w].todo, NoTask, {}))
    BY <2>3, <2>4, Zenon DEF Sets
  <2> QED  BY <1>3, <2>5
<1> QED  BY <1>2, <1>3 DEF JobFails, Running

(* The parts of the record of a worker. *)
LEMMA WorkFacts ==
  ASSUME NEW v \in Works
  PROVE  /\ v.pc \in {"idle", "next", "aggregate", "delete", "insert", "mark"}
         /\ v.todo \in SUBSET Tasks /\ v.at \in Tasks \union {NoTask} /\ v.rows \in SUBSET Rows
<1> QED  BY DEF Works

(* What a worker record made this way is. *)
LEMMA WorkerFacts ==
  ASSUME NEW pc, NEW todo, NEW at, NEW rows
  PROVE  /\ Worker(pc, todo, at, rows).pc = pc /\ Worker(pc, todo, at, rows).todo = todo
         /\ Worker(pc, todo, at, rows).at = at /\ Worker(pc, todo, at, rows).rows = rows
         /\ /\ pc \in {"idle", "next", "aggregate", "delete", "insert", "mark"}
            /\ todo \in SUBSET Tasks /\ at \in Tasks \union {NoTask} /\ rows \in SUBSET Rows
            => Worker(pc, todo, at, rows) \in Works
<1> QED  BY DEF Worker, Works

(* A worker that is set this way is, and the others stay as they are. *)
LEMMA SetFacts ==
  ASSUME work \in [Workers -> Works], NEW w \in Workers, NEW n \in Works, Sets(w, n)
  PROVE  /\ work' \in [Workers -> Works] /\ work'[w] = n
         /\ \A v \in Workers : v # w => work'[v] = work[v]
<1> QED  BY DEF Sets

(* A worker record that is idle has nothing to do, and one that is at a    *)
(* job has one.                                                            *)
Sound(v) ==
  /\ v \in Works
  /\ v.pc = "idle" => v.todo = {}
  /\ v.pc \in {"aggregate", "delete", "insert", "mark"} => v.at \in Tasks

(* Each step of a worker leaves a sound record. *)
LEMMA WorkMoves ==
  ASSUME TypeOK, WorkInv, NEW w \in Workers, Timezone(w)
  PROVE  \E n : Sound(n) /\ Sets(w, n)
<1>1. work \in [Workers -> Works] /\ work[w] \in Works
  BY TypeParts DEF TasksTyped
<1> DEFINE v == work[w]
<1>2. v.todo \in SUBSET Tasks /\ v.at \in Tasks \union {NoTask} /\ v.rows \in SUBSET Rows
  BY <1>1, WorkFacts
<1>3. v.pc \in {"aggregate", "delete", "insert", "mark"} => v.at \in Tasks
  BY DEF WorkInv, Running
<1> HIDE DEF v
<1>4. CASE ClaimJobs(w)
  <2>1. PICK S \in SUBSET {j \in Jobs : Claimable(j)} :
           Sets(w, Worker("next", {[job |-> j, gen |-> jobs[j].gen] : j \in S}, NoTask, {}))
    BY <1>4, ClaimStep
  <2>2. {[job |-> j, gen |-> jobs[j].gen] : j \in S} \in SUBSET Tasks
    <3>1. \A j \in S : j \in Jobs /\ jobs[j].gen \in Nat
      BY TypeParts DEF DerivedTyped, JobRows
    <3> QED  BY <3>1 DEF Tasks
  <2>3. Sound(Worker("next", {[job |-> j, gen |-> jobs[j].gen] : j \in S}, NoTask, {}))
    BY <2>2, WorkerFacts DEF Sound
  <2> QED  BY <2>1, <2>3
<1>5. CASE LockTimezone(w)
  <2>1. PICK t \in v.todo :
          \/ Sets(w, Worker("aggregate", v.todo \ {t}, t, v.rows))
          \/ Sets(w, Worker("next", v.todo \ {t}, v.at, v.rows))
    BY <1>5, LockStep DEF v
  <2>2. t \in Tasks /\ v.todo \ {t} \in SUBSET Tasks
    BY <1>2
  <2>3. Sound(Worker("aggregate", v.todo \ {t}, t, v.rows))
    BY <1>2, <2>2 DEF Sound, Worker, Works
  <2>4. Sound(Worker("next", v.todo \ {t}, v.at, v.rows))
    BY <1>2, <2>2 DEF Sound, Worker, Works
  <2> QED  BY <2>1, <2>3, <2>4
<1>6. CASE TzAggregate(w)
  <2> DEFINE sum == UNION {rollup[b] : b \in Parts(work[w].at.job)}
  <2>1. sum \in SUBSET Rows
    BY TypeParts DEF DerivedTyped, Parts
  <2>2. Sets(w, Worker("delete", v.todo, v.at, sum)) /\ v.pc = "aggregate"
    BY <1>6, TzSteps DEF TzAggregate, v
  <2> HIDE DEF sum
  <2>3. Sound(Worker("delete", v.todo, v.at, sum))
    BY <1>2, <1>3, <2>1, <2>2 DEF Sound, Worker, Works
  <2> QED  BY <2>2, <2>3
<1>7. CASE TzDelete(w)
  <2>1. Sets(w, Worker("insert", v.todo, v.at, v.rows)) /\ v.pc = "delete"
    BY <1>7, TzSteps DEF TzDelete, v
  <2>2. Sound(Worker("insert", v.todo, v.at, v.rows))
    BY <1>2, <1>3, <2>1 DEF Sound, Worker, Works
  <2> QED  BY <2>1, <2>2
<1>8. CASE TzInsert(w)
  <2>1. Sets(w, Worker("mark", v.todo, v.at, v.rows)) /\ v.pc = "insert"
    BY <1>8, TzSteps DEF TzInsert, v
  <2>2. Sound(Worker("mark", v.todo, v.at, v.rows))
    BY <1>2, <1>3, <2>1 DEF Sound, Worker, Works
  <2> QED  BY <2>1, <2>2
<1>9. Sound(Worker("next", v.todo, NoTask, {}))
  BY <1>2 DEF Sound, Worker, Works
<1>10. CASE MarkDone(w)
  BY <1>9, <1>10, TzSteps DEF v
<1>11. CASE JobFails(w)
  <2>1. \/ \E t \in v.todo : Sets(w, Worker("next", v.todo \ {t}, v.at, v.rows))
        \/ Sets(w, Worker("next", v.todo, NoTask, {}))
    BY <1>11, FailStep DEF v
  <2>2. ASSUME NEW t \in v.todo  PROVE Sound(Worker("next", v.todo \ {t}, v.at, v.rows))
    <3>1. v.todo \ {t} \in SUBSET Tasks
      BY <1>2
    <3> QED  BY <1>2, <3>1 DEF Sound, Worker, Works
  <2> QED  BY <1>9, <2>1, <2>2
<1>12. CASE WorkEnds(w) \/ WorkerDies(w)
  <2>1. Sets(w, Worker("idle", {}, NoTask, {}))
    BY <1>12, TzSteps
  <2>2. Sound(Worker("idle", {}, NoTask, {}))
    BY DEF Sound, Worker, Works
  <2> QED  BY <2>1, <2>2
<1> QED  BY <1>4, <1>5, <1>6, <1>7, <1>8, <1>10, <1>11, <1>12 DEF Timezone

(* ... and the workers of the timezone. *)
LEMMA TimezoneTyped ==
  ASSUME TypeOK, WorkInv, NEW w \in Workers, Timezone(w)
  PROVE  TypeOK' /\ WorkInv'
<1>1. BaseTyped /\ DerivedTyped /\ LocksTyped /\ TasksTyped
  BY TypeParts
<1>2. BaseTyped' /\ UNCHANGED <<comp, rec, rep, rollup, dirty, watermark, eligible>>
  BY <1>1 DEF Timezone, ClaimJobs, LockTimezone, TzAggregate, TzDelete, TzInsert, MarkDone, JobFails,
              WorkEnds, WorkerDies, BaseTyped, base, derived
<1>3. slot' \in {slot, "free", w} /\ tzlock' \in {tzlock, "free", w}
  BY DEF Timezone, ClaimJobs, LockTimezone, TzAggregate, TzDelete, TzInsert, MarkDone, JobFails,
         WorkEnds, WorkerDies, Release, Unlock, derived
<1>4. LocksTyped'
  BY <1>1, <1>2, <1>3 DEF LocksTyped
<1> PICK n : Sound(n) /\ Sets(w, n)
  BY WorkMoves
<1>5. /\ work' \in [Workers -> Works] /\ work'[w] = n
      /\ \A v \in Workers : v # w => work'[v] = work[v]
  BY <1>1, SetFacts DEF TasksTyped, Sound
<1>6. TasksTyped' /\ WorkInv'
  <2>1. TasksTyped'
    BY <1>1, <1>2, <1>5 DEF TasksTyped
  <2>2. WorkInv'
    BY <1>5 DEF WorkInv, Running, Sound
  <2> QED  BY <2>1, <2>2
<1>7. jobs' \in [Jobs -> JobRows]
  <2>1. jobs \in [Jobs -> JobRows] /\ work[w] \in Works
    BY <1>1 DEF DerivedTyped, TasksTyped
  <2>2. CASE ClaimJobs(w)
    <3>1. PICK S \in SUBSET {j \in Jobs : Claimable(j)} :
             jobs' = [j \in Jobs |-> IF j \in S THEN [jobs[j] EXCEPT !.status = "inflight"] ELSE jobs[j]]
      BY <2>2, ClaimStep
    <3>2. \A j \in Jobs : [jobs[j] EXCEPT !.status = "inflight"] \in JobRows
      BY <2>1 DEF JobRows
    <3> QED  BY <2>1, <3>1, <3>2
  <2>3. CASE LockTimezone(w)
    <3>1. jobs' = jobs \/ \E t \in work[w].todo : MarkPending(t)
      BY <2>3, LockStep
    <3> QED  BY <2>1, <3>1, PendingFacts, WorkFacts
  <2>4. CASE MarkDone(w)
    <3>1. work[w].at \in Tasks
      BY <2>4 DEF MarkDone, WorkInv, Running
    <3>2. work[w].at.job \in Jobs
      BY <3>1 DEF Tasks
    <3>3. jobs' = [jobs EXCEPT ![work[w].at.job].status = "done"] \/ MarkPending(work[w].at)
      BY <2>4 DEF MarkDone
    <3>4. [jobs EXCEPT ![work[w].at.job].status = "done"] \in [Jobs -> JobRows]
      BY <2>1, <3>2 DEF JobRows
    <3> QED  BY <2>1, <3>1, <3>3, <3>4, PendingFacts
  <2>5. CASE JobFails(w)
    <3>1. (\E t \in work[w].todo : MarkPending(t)) \/ (Running(w) /\ MarkPending(work[w].at))
      BY <2>5, FailStep
    <3> QED  BY <2>1, <3>1, PendingFacts, WorkFacts DEF WorkInv
  <2>6. CASE TzAggregate(w) \/ TzDelete(w) \/ TzInsert(w) \/ WorkEnds(w) \/ WorkerDies(w)
    BY <2>1, <2>6 DEF TzAggregate, TzDelete, TzInsert, WorkEnds, WorkerDies, derived
  <2> QED  BY <2>2, <2>3, <2>4, <2>5, <2>6 DEF Timezone
<1>8. tz' \in [Jobs -> SUBSET Rows]
  <2>1. tz \in [Jobs -> SUBSET Rows] /\ work[w] \in Works
    BY <1>1 DEF DerivedTyped, TasksTyped
  <2>2. CASE TzDelete(w)
    BY <2>1, <2>2 DEF TzDelete
  <2>3. CASE TzInsert(w)
    <3>1. work[w].at.job \in Jobs /\ work[w].rows \in SUBSET Rows
      BY <2>1, <2>3, WorkFacts DEF TzInsert, WorkInv, Running, Tasks
    <3> QED  BY <2>1, <2>3, <3>1 DEF TzInsert
  <2>4. CASE ~TzDelete(w) /\ ~TzInsert(w)
    BY <2>1, <2>4 DEF Timezone, ClaimJobs, LockTimezone, TzAggregate, MarkDone, JobFails,
                      WorkEnds, WorkerDies, derived
  <2> QED  BY <2>2, <2>3, <2>4
<1>9. coverage' \subseteq Jobs
  <2>1. coverage \subseteq Jobs
    BY <1>1 DEF DerivedTyped
  <2>2. CASE MarkDone(w)
    <3>1. work[w].at.job \in Jobs
      BY <2>2 DEF MarkDone, WorkInv, Running, Tasks
    <3> QED  BY <2>1, <2>2, <3>1 DEF MarkDone
  <2>3. CASE ~MarkDone(w)
    BY <2>1, <2>3 DEF Timezone, ClaimJobs, LockTimezone, TzAggregate, TzDelete, TzInsert, JobFails,
                      WorkEnds, WorkerDies, derived
  <2> QED  BY <2>2, <2>3
<1>10. DerivedTyped'
  BY <1>1, <1>2, <1>7, <1>8, <1>9 DEF DerivedTyped
<1> QED  BY <1>2, <1>4, <1>6, <1>10, TypeParts

(* The workers are left alone by every other step. *)
LEMMA OthersLeaveWork ==
  ASSUME [Next]_vars, \A w \in Workers : ~Timezone(w)
  PROVE  UNCHANGED work
<1>1. CASE UNCHANGED vars
  BY <1>1 DEF vars
<1>2. CASE \E k \in Keys : Accept(k) \/ Flush(k)
  BY <1>2 DEF Accept, Flush, FetchRows, InsertRaw, Delivered, FlushFails
<1>3. CASE Retraction
  BY <1>3 DEF Retraction, RetractOutbox, RetractSelect, RetractMark, RetractDelete, RetractFails
<1>4. CASE LoseSession \/ Tick
  BY <1>4 DEF LoseSession, Tick
<1>5. CASE Repair
  BY <1>5 DEF Repair, RepairRead, RepairMark, RepairInsert, RepairFails, RecheckPricing
<1>6. CASE Compact
  BY <1>6 DEF Compact, CompactBegin, CompactAggregate, CompactDelete, CompactInsert, CompactCommit, CompactFails
<1>7. CASE \E j \in Jobs : Prewarm(j) \/ PruneJob(j)
  BY <1>7 DEF Prewarm, PruneJob
<1> QED  BY <1>1, <1>2, <1>3, <1>4, <1>5, <1>6, <1>7 DEF Next

(* Every step keeps the types. *)
TypeInv == TypeOK /\ WorkInv

(* The invariant of the types holds at the start ...                       *)
LEMMA TypeInvInit == Init => TypeInv
<1> SUFFICES ASSUME Init  PROVE WorkInv
  BY TypeInit DEF TypeInv
<1> QED  BY DEF Init, WorkInv, NoWork, Running

(* ... every step keeps it ...                                             *)
LEMMA TypeInvNext == TypeInv /\ [Next]_vars => TypeInv'
<1> SUFFICES ASSUME TypeInv, [Next]_vars  PROVE TypeInv'
  OBVIOUS
<1>1. TypeOK /\ WorkInv
  BY DEF TypeInv
<1>2. CASE \E w \in Workers : Timezone(w)
  BY <1>1, <1>2, TimezoneTyped DEF TypeInv
<1>3. CASE \A w \in Workers : ~Timezone(w)
  <2>1. WorkInv'
    BY <1>1, <1>3, OthersLeaveWork DEF WorkInv, Running
  <2>2. TypeOK'
    <3>1. CASE UNCHANGED vars
      BY <1>1, <3>1 DEF TypeOK, vars
    <3>2. CASE \E k \in Keys : Accept(k) \/ Flush(k)
      BY <1>1, <3>2, FlushTyped
    <3>3. CASE Retraction
      BY <1>1, <3>3, RetractionTyped
    <3>4. CASE LoseSession \/ Tick
      BY <1>1, <3>4, TickTyped
    <3>5. CASE Repair
      BY <1>1, <3>5, RepairTyped
    <3>6. CASE Compact
      BY <1>1, <3>6, CompactTyped
    <3>7. CASE \E j \in Jobs : Prewarm(j) \/ PruneJob(j)
      BY <1>1, <3>7, JobTyped
    <3> QED  BY <1>3, <3>1, <3>2, <3>3, <3>4, <3>5, <3>6, <3>7 DEF Next
  <2> QED  BY <2>1, <2>2 DEF TypeInv
<1> QED  BY <1>2, <1>3

(* ... and so it holds in every reachable state.                           *)
LEMMA TypeInvAlways == Spec => []TypeInv
<1> QED  BY TypeInvInit, TypeInvNext, PTL DEF Spec

(* The tables, the bookkeeping and the tasks keep their types. *)
THEOREM RollupTyped == Spec => []TypeOK
<1>1. TypeInv => TypeOK
  BY DEF TypeInv
<1> QED  BY <1>1, TypeInvAlways, PTL

-----------------------------------------------------------------------------
(* The timezone rollup.                                                    *)

(* The task a worker holds: one it claimed or the one it is at. *)
Holds(w, t) == t \in work[w].todo \/ (Running(w) /\ work[w].at = t)

(* The generation of the job has not moved on since it was claimed. *)
Current(t) == jobs[t.job].gen = t.gen

(* A job that is held or covered lies below the watermark, a held job is   *)
(* never newer than its row, and a covered one has no open job.            *)
Below(j) == (j + 1) * Span <= watermark
HeldInv == \A w \in Workers : \A t \in Tasks : Holds(w, t) => t.gen <= jobs[t.job].gen /\ Below(t.job)
CoverInv == \A j \in coverage : jobs[j].status \in {"none", "done"} /\ Below(j)

(* A compaction took buckets that are still dirty, or new ones. *)
CompInv ==
  /\ comp.pc # "idle" => /\ comp.dirty \subseteq dirty
                         /\ \A b \in comp.fresh : b >= watermark
                         /\ comp.to >= watermark
  /\ comp.pc \in {"delete", "insert"} => \A b \in Buckets : b \notin Compacted => comp.rows[b] = {}

JobsInv == TypeInv /\ HeldInv /\ CoverInv /\ CompInv

(* No job and no compaction at the start.                                  *)
LEMMA JobsInvInit == Init => JobsInv
<1> SUFFICES ASSUME Init  PROVE HeldInv /\ CoverInv /\ CompInv
  BY TypeInvInit DEF JobsInv
<1> QED  BY DEF Init, HeldInv, CoverInv, CompInv, NoWork, NoComp, Holds, Running

(* The dirty buckets of a compaction stay dirty until it commits, and the  *)
(* watermark never goes back.                                              *)
LEMMA CompInvNext ==
  ASSUME TypeInv, CompInv, [Next]_vars
  PROVE  CompInv' /\ watermark' >= watermark
<1>1. TypeOK /\ BaseTyped /\ DerivedTyped /\ LocksTyped /\ TasksTyped
  BY TypeParts DEF TypeInv
<1>2. watermark \in Int /\ NBuckets \in Nat
  BY <1>1, RollupAssumption DEF DerivedTyped
<1>3. ASSUME UNCHANGED <<comp, watermark>>, dirty \subseteq dirty'  PROVE CompInv' /\ watermark' >= watermark
  BY <1>2, <1>3 DEF CompInv, Compacted
<1>4. CASE UNCHANGED vars
  BY <1>3, <1>4 DEF vars
<1>5. CASE \E k \in Keys : Accept(k) \/ Flush(k)
  BY <1>3, <1>5 DEF Accept, Flush, FetchRows, InsertRaw, Delivered, FlushFails, MarkDirty, derived
<1>6. CASE Retraction
  BY <1>3, <1>6 DEF Retraction, RetractOutbox, RetractSelect, RetractMark, RetractDelete, RetractFails,
                    MarkDirty, derived
<1>7. CASE LoseSession \/ Tick
  BY <1>3, <1>7 DEF LoseSession, Tick, derived
<1>8. CASE Repair
  BY <1>3, <1>8 DEF Repair, RepairRead, RepairMark, RepairInsert, RepairFails, RecheckPricing, MarkDirty, derived
<1>9. CASE \E j \in Jobs : Prewarm(j) \/ PruneJob(j)
  BY <1>3, <1>9 DEF Prewarm, PruneJob
<1>10. CASE \E w \in Workers : Timezone(w)
  BY <1>3, <1>10 DEF Timezone, ClaimJobs, LockTimezone, TzAggregate, TzDelete, TzInsert, MarkDone, JobFails,
                     WorkEnds, WorkerDies, derived
<1>11. CASE CompactBegin
  <2>1. /\ Mark \in 0..NBuckets /\ Mark >= watermark
        /\ watermark' = watermark \/ watermark' = Mark
    BY <1>1, <1>2, <1>11, MarkFacts DEF CompactBegin, NoMark, DerivedTyped
  <2>2. CASE comp' = comp
    BY <1>2, <1>11, <2>1, <2>2 DEF CompactBegin, CompInv
  <2>3. CASE comp' # comp
    <3> DEFINE to == Mark + Cardinality(FreshShare)
    <3>1. /\ DirtyShare \subseteq dirty /\ to \in Nat /\ to >= Mark /\ \A b \in FreshShare : b \in Nat /\ b >= Mark
      BY <1>1, <2>1, FreshFacts DEF Buckets
    <3>2. comp' = [NoComp EXCEPT !.pc = "aggregate", !.dirty = DirtyShare, !.fresh = FreshShare, !.to = to]
      BY <1>11, <2>3 DEF CompactBegin
    <3>3. UNCHANGED <<watermark, dirty>>
      BY <1>11, <2>3 DEF CompactBegin
    <3> HIDE DEF to
    <3>4. comp'.pc = "aggregate" /\ comp'.dirty = DirtyShare /\ comp'.fresh = FreshShare /\ comp'.to = to
      BY <3>2 DEF NoComp
    <3> QED  BY <1>2, <2>1, <3>1, <3>3, <3>4 DEF CompInv
  <2> QED  BY <2>2, <2>3
<1>12. comp \in Comps
  BY <1>1 DEF TasksTyped
<1>13. CASE CompactAggregate
  <2> DEFINE rows == [b \in Buckets |-> IF b \in Compacted THEN Aggregate(b) ELSE {}]
  <2>1. comp' = [comp EXCEPT !.pc = "delete", !.rows = rows] /\ comp.pc = "aggregate"
    BY <1>13 DEF CompactAggregate
  <2>2. UNCHANGED <<watermark, dirty>>
    BY <1>13 DEF CompactAggregate, derived
  <2>3. \A b \in Buckets : b \notin Compacted => rows[b] = {}
    OBVIOUS
  <2> HIDE DEF rows
  <2>4. /\ comp'.pc = "delete" /\ comp'.dirty = comp.dirty /\ comp'.fresh = comp.fresh /\ comp'.to = comp.to
        /\ comp'.rows = rows
    BY <1>12, <2>1 DEF Comps
  <2> QED  BY <1>2, <2>1, <2>2, <2>3, <2>4 DEF CompInv, Compacted
<1>14. CASE CompactDelete \/ CompactInsert
  <2>1. \/ comp' = [comp EXCEPT !.pc = "insert"] /\ comp.pc = "delete"
        \/ comp' = [comp EXCEPT !.pc = "commit"] /\ comp.pc = "insert"
    BY <1>14 DEF CompactDelete, CompactInsert
  <2>2. UNCHANGED <<watermark, dirty>>
    BY <1>14 DEF CompactDelete, CompactInsert
  <2>3. /\ comp.pc \in {"delete", "insert"} /\ comp'.pc \in {"insert", "commit"}
        /\ comp'.dirty = comp.dirty /\ comp'.fresh = comp.fresh /\ comp'.to = comp.to /\ comp'.rows = comp.rows
    BY <1>12, <2>1 DEF Comps
  <2> QED  BY <1>2, <2>2, <2>3 DEF CompInv, Compacted
<1>15. CASE CompactCommit \/ CompactFails
  <2>1. comp' = NoComp /\ (watermark' = watermark \/ (comp.pc = "commit" /\ watermark' = comp.to))
    BY <1>15 DEF CompactCommit, CompactFails, derived
  <2> QED  BY <1>2, <2>1 DEF CompInv, NoComp
<1> QED  BY <1>4, <1>5, <1>6, <1>7, <1>8, <1>9, <1>10, <1>11, <1>13, <1>14, <1>15 DEF Next, Compact

(* A worker holds only tasks it held before, or claims of settled jobs. *)
LEMMA HoldsMoves ==
  ASSUME TypeInv, NEW w \in Workers, Timezone(w), NEW v \in Workers, NEW t \in Tasks, Holds(v, t)'
  PROVE  Holds(v, t) \/ (v = w /\ ClaimJobs(w) /\ t.gen = jobs[t.job].gen /\ Claimable(t.job))
<1>1. TypeOK /\ work \in [Workers -> Works] /\ work[w] \in Works
  BY TypeParts DEF TypeInv, TasksTyped
<1>2. v # w => work'[v] = work[v]
  BY WorkMoves, SetFacts, <1>1 DEF TypeInv, Sound
<1>3. CASE v # w
  BY <1>2, <1>3 DEF Holds, Running
<1>4. CASE v = w
  <2>1. ASSUME NEW pc, NEW todo, NEW at, NEW rows, Sets(w, Worker(pc, todo, at, rows))
        PROVE  /\ t \in todo \/ (pc \in {"aggregate", "delete", "insert", "mark"} /\ t = at)
    <3>1. work'[w] = Worker(pc, todo, at, rows)
      BY <1>1, <2>1 DEF Sets
    <3> QED  BY <1>4, <3>1, WorkerFacts DEF Holds, Running
  <2>2. CASE ClaimJobs(w)
    <3>1. PICK S \in SUBSET {j \in Jobs : Claimable(j)} :
             Sets(w, Worker("next", {[job |-> j, gen |-> jobs[j].gen] : j \in S}, NoTask, {}))
      BY <1>1, <2>2, ClaimStep
    <3>2. t \in {[job |-> j, gen |-> jobs[j].gen] : j \in S}
      BY <2>1, <3>1
    <3>3. PICK j \in S : t = [job |-> j, gen |-> jobs[j].gen]
      BY <3>2
    <3> QED  BY <1>4, <2>2, <3>3
  <2>3. CASE LockTimezone(w)
    <3>1. PICK u \in work[w].todo :
            \/ Sets(w, Worker("aggregate", work[w].todo \ {u}, u, work[w].rows))
            \/ Sets(w, Worker("next", work[w].todo \ {u}, work[w].at, work[w].rows))
      BY <1>1, <2>3, LockStep
    <3>2. t \in work[w].todo \ {u} \/ t = u
      BY <2>1, <3>1
    <3> QED  BY <1>4, <3>1, <3>2 DEF Holds
  <2>4. CASE TzAggregate(w) \/ TzDelete(w) \/ TzInsert(w)
    <3>1. Running(w)
      BY <2>4 DEF TzAggregate, TzDelete, TzInsert, Running
    <3>2. \E pc, rows : Sets(w, Worker(pc, work[w].todo, work[w].at, rows))
      BY <1>1, <2>4, TzSteps
    <3>3. t \in work[w].todo \/ t = work[w].at
      BY <2>1, <3>2
    <3> QED  BY <1>4, <3>1, <3>3 DEF Holds
  <2>5. CASE MarkDone(w)
    <3>1. Sets(w, Worker("next", work[w].todo, NoTask, {}))
      BY <1>1, <2>5, TzSteps
    <3>2. t \in work[w].todo
      BY <2>1, <3>1
    <3> QED  BY <1>4, <3>2 DEF Holds
  <2>6. CASE JobFails(w)
    <3>1. \/ \E u \in work[w].todo : Sets(w, Worker("next", work[w].todo \ {u}, work[w].at, work[w].rows))
          \/ Sets(w, Worker("next", work[w].todo, NoTask, {}))
      BY <1>1, <2>6, FailStep
    <3>2. CASE Sets(w, Worker("next", work[w].todo, NoTask, {}))
      <4>1. t \in work[w].todo
        BY <2>1, <3>2
      <4> QED  BY <1>4, <4>1 DEF Holds
    <3>3. ASSUME NEW u, Sets(w, Worker("next", work[w].todo \ {u}, work[w].at, work[w].rows))
          PROVE  Holds(v, t)
      <4>1. t \in work[w].todo \ {u}
        BY <2>1, <3>3
      <4> QED  BY <1>4, <4>1 DEF Holds
    <3> QED  BY <3>1, <3>2, <3>3
  <2>7. CASE WorkEnds(w) \/ WorkerDies(w)
    <3>1. Sets(w, Worker("idle", {}, NoTask, {}))
      BY <1>1, <2>7, TzSteps
    <3>2. t \in {}
      BY <2>1, <3>1
    <3> QED  BY <3>2
  <2> QED  BY <2>2, <2>3, <2>4, <2>5, <2>6, <2>7 DEF Timezone
<1> QED  BY <1>3, <1>4

(* What a step of a worker does to the jobs and the coverage. *)
LEMMA TimezoneJobs ==
  ASSUME TypeInv, NEW w \in Workers, Timezone(w)
  PROVE  /\ \A j \in Jobs : jobs'[j].gen = jobs[j].gen
         /\ \A j \in Jobs : \/ jobs'[j].status = jobs[j].status
                            \/ jobs[j].status \in {"pending", "inflight"}
         /\ \A j \in coverage' : \/ j \in coverage
                                 \/ /\ jobs'[j].status = "done" /\ Settled(j)
                                    /\ work[w].pc = "mark" /\ j = work[w].at.job /\ Current(work[w].at)
<1>1. TypeOK /\ jobs \in [Jobs -> JobRows] /\ work[w] \in Works
  BY TypeParts DEF TypeInv, DerivedTyped, TasksTyped
<1>2. CASE ClaimJobs(w)
  <2>1. PICK S \in SUBSET {j \in Jobs : Claimable(j)} :
           jobs' = [j \in Jobs |-> IF j \in S THEN [jobs[j] EXCEPT !.status = "inflight"] ELSE jobs[j]]
    BY <1>1, <1>2, ClaimStep
  <2>2. \A j \in S : jobs[j].status \in {"pending", "inflight"}
    BY DEF Claimable, Stale
  <2>3. \A j \in Jobs : [jobs[j] EXCEPT !.status = "inflight"].gen = jobs[j].gen
    BY <1>1 DEF JobRows
  <2>4. coverage' = coverage
    BY <1>2 DEF ClaimJobs
  <2> QED  BY <2>1, <2>2, <2>3, <2>4
<1>3. CASE LockTimezone(w)
  <2>1. jobs' = jobs \/ \E t \in work[w].todo : MarkPending(t)
    BY <1>1, <1>3, LockStep
  <2>2. coverage' = coverage
    BY <1>3 DEF LockTimezone
  <2> QED  BY <1>1, <2>1, <2>2, PendingFacts, WorkFacts
<1>4. CASE JobFails(w)
  <2>1. (\E t \in work[w].todo : MarkPending(t)) \/ (Running(w) /\ MarkPending(work[w].at))
    BY <1>1, <1>4, FailStep
  <2>2. coverage' = coverage
    BY <1>4 DEF JobFails
  <2> QED  BY <1>1, <2>1, <2>2, PendingFacts, WorkFacts DEF TypeInv, WorkInv
<1>5. CASE MarkDone(w)
  <2> DEFINE t == work[w].at
  <2>1. t \in Tasks /\ t.job \in Jobs /\ work[w].pc = "mark"
    BY <1>5 DEF MarkDone, TypeInv, WorkInv, Running, Tasks
  <2>2. CASE Mine(t) /\ Settled(t.job)
    <3>1. jobs' = [jobs EXCEPT ![t.job].status = "done"] /\ coverage' = coverage \union {t.job}
      BY <1>5, <2>2 DEF MarkDone
    <3>2. jobs[t.job].status = "inflight" /\ Current(t)
      BY <2>2 DEF Mine, Current
    <3> HIDE DEF t
    <3>3. /\ \A j \in Jobs : jobs'[j].gen = jobs[j].gen
          /\ \A j \in Jobs : j # t.job => jobs'[j].status = jobs[j].status
          /\ jobs'[t.job].status = "done"
      BY <1>1, <2>1, <3>1 DEF JobRows
    <3>4. \A j \in coverage' : j \in coverage \/ j = t.job
      BY <3>1
    <3> QED  BY <2>1, <2>2, <3>2, <3>3, <3>4 DEF t
  <2>3. CASE ~(Mine(t) /\ Settled(t.job))
    <3>1. MarkPending(t) /\ coverage' = coverage
      BY <1>5, <2>3 DEF MarkDone
    <3> HIDE DEF t
    <3> QED  BY <1>1, <2>1, <3>1, PendingFacts
  <2> QED  BY <2>2, <2>3
<1>6. CASE TzAggregate(w) \/ TzDelete(w) \/ TzInsert(w) \/ WorkEnds(w) \/ WorkerDies(w)
  BY <1>6 DEF TzAggregate, TzDelete, TzInsert, WorkEnds, WorkerDies, derived
<1> QED  BY <1>2, <1>3, <1>4, <1>5, <1>6 DEF Timezone

(* Jobs and coverage move on together. *)
LEMMA JobsInvNext ==
  ASSUME JobsInv, [Next]_vars
  PROVE  JobsInv'
<1>1. TypeInv /\ TypeInv' /\ CompInv /\ CompInv' /\ watermark' >= watermark
  BY TypeInvNext, CompInvNext DEF JobsInv
<1>2. /\ watermark \in Int /\ watermark' \in Int /\ Span \in Nat /\ Span > 0
      /\ jobs \in [Jobs -> JobRows] /\ coverage \subseteq Jobs /\ coverage' \subseteq Jobs
  BY <1>1, TypeParts, RollupAssumption DEF TypeInv, DerivedTyped
<1>3. \A j \in Jobs : j \in Int
  BY RollupAssumption DEF Jobs
<1>4. \A j \in Jobs : Below(j) => Below(j)'
  BY <1>1, <1>2, <1>3 DEF Below
<1>5. \A t \in Tasks : t.job \in Jobs /\ t.gen \in Nat
  BY DEF Tasks
<1>6. \A j \in Jobs : jobs[j].gen \in Nat
  BY <1>2 DEF JobRows
<1>7. ASSUME UNCHANGED work, \A j \in Jobs : jobs'[j].gen \in {jobs[j].gen, jobs[j].gen + 1},
             \A j \in coverage' : j \in coverage /\ jobs'[j].status \in {jobs[j].status, "none"}
      PROVE  JobsInv'
  <2>1. HeldInv'
    <3> SUFFICES ASSUME NEW w \in Workers, NEW t \in Tasks, Holds(w, t)'
                 PROVE  t.gen <= jobs'[t.job].gen /\ Below(t.job)'
      BY DEF HeldInv
    <3>1. Holds(w, t)
      BY <1>7 DEF Holds, Running
    <3>2. t.gen <= jobs[t.job].gen /\ Below(t.job)
      BY <3>1 DEF JobsInv, HeldInv
    <3> QED  BY <1>4, <1>5, <1>6, <1>7, <3>2
  <2>2. CoverInv'
    BY <1>2, <1>4, <1>7 DEF JobsInv, CoverInv
  <2> QED  BY <1>1, <2>1, <2>2 DEF JobsInv
<1>8. CASE \E w \in Workers : Timezone(w)
  <2>1. PICK w \in Workers : Timezone(w)
    BY <1>8
  <2>2. HeldInv'
    <3> SUFFICES ASSUME NEW v \in Workers, NEW t \in Tasks, Holds(v, t)'
                 PROVE  t.gen <= jobs'[t.job].gen /\ Below(t.job)'
      BY DEF HeldInv
    <3>1. jobs'[t.job].gen = jobs[t.job].gen
      BY <1>1, <1>5, <2>1, TimezoneJobs
    <3>2. Holds(v, t) \/ (t.gen = jobs[t.job].gen /\ Settled(t.job))
      BY <1>1, <2>1, HoldsMoves DEF Claimable
    <3>3. t.gen <= jobs[t.job].gen /\ Below(t.job)
      BY <1>5, <1>6, <3>2 DEF JobsInv, HeldInv, Settled, Below
    <3> QED  BY <1>4, <1>5, <3>1, <3>3
  <2>3. CoverInv'
    <3> SUFFICES ASSUME NEW j \in coverage'
                 PROVE  jobs'[j].status \in {"none", "done"} /\ Below(j)'
      BY DEF CoverInv
    <3>1. j \in coverage \/ (jobs'[j].status = "done" /\ Settled(j))
      BY <1>1, <2>1, TimezoneJobs
    <3>2. CASE j \in coverage
      <4>1. jobs[j].status \in {"none", "done"} /\ Below(j)
        BY <3>2 DEF JobsInv, CoverInv
      <4>2. jobs'[j].status = jobs[j].status
        BY <1>1, <1>2, <2>1, <4>1, TimezoneJobs
      <4> QED  BY <1>2, <1>4, <4>1, <4>2
    <3>3. CASE jobs'[j].status = "done" /\ Settled(j)
      BY <1>2, <1>4, <3>3 DEF Settled, Below
    <3> QED  BY <3>1, <3>2, <3>3
  <2> QED  BY <1>1, <2>2, <2>3 DEF JobsInv
<1>9. CASE \A w \in Workers : ~Timezone(w)
  <2>1. UNCHANGED work
    BY <1>9, OthersLeaveWork
  <2>2. ASSUME UNCHANGED <<jobs, coverage>>  PROVE JobsInv'
    BY <1>7, <2>1, <2>2
  <2>3. CASE UNCHANGED vars
    BY <2>2, <2>3 DEF vars
  <2>4. CASE \E k \in Keys : Accept(k) \/ Flush(k)
    BY <2>2, <2>4 DEF Accept, Flush, FetchRows, InsertRaw, Delivered, FlushFails, derived
  <2>5. CASE Retraction
    BY <2>2, <2>5 DEF Retraction, RetractOutbox, RetractSelect, RetractMark, RetractDelete, RetractFails, derived
  <2>6. CASE LoseSession \/ Tick
    BY <2>2, <2>6 DEF LoseSession, Tick, derived
  <2>7. CASE Repair
    BY <2>2, <2>7 DEF Repair, RepairRead, RepairMark, RepairInsert, RepairFails, RecheckPricing, derived
  <2>8. CASE \E j \in Jobs : Prewarm(j) \/ PruneJob(j)
    <3>1. PICK j \in Jobs : Prewarm(j) \/ PruneJob(j)
      BY <2>8
    <3>2. CASE Prewarm(j)
      <4>1. /\ j \notin coverage /\ coverage' = coverage
            /\ jobs' = [jobs EXCEPT ![j] = [status |-> "pending", gen |-> jobs[j].gen + 1]]
        BY <1>2, <3>2 DEF Prewarm
      <4>2. \A i \in Jobs : jobs'[i].gen \in {jobs[i].gen, jobs[i].gen + 1} /\ (i # j => jobs'[i] = jobs[i])
        BY <1>2, <4>1
      <4> QED  BY <1>2, <1>7, <2>1, <4>1, <4>2
    <3>3. CASE PruneJob(j)
      <4>1. coverage' = coverage /\ jobs' = [jobs EXCEPT ![j].status = "none"]
        BY <3>3 DEF PruneJob
      <4>2. \A i \in Jobs : jobs'[i].gen = jobs[i].gen /\ jobs'[i].status \in {jobs[i].status, "none"}
        BY <1>2, <4>1 DEF JobRows
      <4> QED  BY <1>2, <1>7, <2>1, <4>1, <4>2
    <3> QED  BY <3>1, <3>2, <3>3
  <2>9. CASE Compact
    <3>1. CASE CompactCommit
      <4>1. /\ coverage' = coverage \ JobOf(Compacted)
            /\ jobs' = [j \in Jobs |-> IF j \in JobOf(Compacted)
                               THEN [status |-> "pending", gen |-> jobs[j].gen + 1] ELSE jobs[j]]
        BY <3>1 DEF CompactCommit, InvalidateJobs
      <4>2. \A i \in Jobs : /\ jobs'[i].gen \in {jobs[i].gen, jobs[i].gen + 1}
                            /\ i \notin JobOf(Compacted) => jobs'[i] = jobs[i]
        BY <4>1
      <4> QED  BY <1>2, <1>7, <2>1, <4>1, <4>2
    <3>2. CASE ~CompactCommit
      BY <2>2, <2>9, <3>2 DEF Compact, CompactBegin, CompactAggregate, CompactDelete, CompactInsert,
                              CompactFails, derived
    <3> QED  BY <3>1, <3>2
  <2> QED  BY <1>9, <2>3, <2>4, <2>5, <2>6, <2>7, <2>8, <2>9 DEF Next
<1> QED  BY <1>8, <1>9

(* The invariant of the jobs holds in every reachable state.               *)
LEMMA JobsInvAlways == Spec => []JobsInv
<1>1. JobsInv /\ [Next]_vars => JobsInv'
  BY JobsInvNext
<1> QED  BY <1>1, JobsInvInit, PTL DEF Spec

(* What a timezone bucket should hold: its 15 minute buckets. *)
Total(j) == UNION {rollup[b] : b \in Parts(j)}

(* The compactor changes a 15 minute bucket of a settled timezone bucket   *)
(* only when it commits, which invalidates the job.                        *)
LEMMA SettledStays ==
  ASSUME JobsInv, [Next]_vars, \A w \in Workers : ~Timezone(w),
         NEW j \in Jobs, Below(j), Settled(j)', ~(CompactCommit /\ j \in JobOf(Compacted))
  PROVE  Settled(j) /\ Total(j)' = Total(j) /\ UNCHANGED <<tz, work>>
<1>1. TypeInv /\ CompInv
  BY DEF JobsInv
<1>2. /\ watermark \in Int /\ Span \in Nat /\ Span > 0 /\ j \in Int
      /\ rollup \in [Buckets -> SUBSET Rows] /\ dirty \subseteq Buckets
      /\ comp \in Comps
  BY <1>1, TypeParts, RollupAssumption DEF TypeInv, DerivedTyped, TasksTyped, Jobs
<1>3. \A b \in Parts(j) : b \in Buckets /\ (Settled(j) => b < watermark /\ b \notin dirty)
  <2> SUFFICES ASSUME NEW b \in Parts(j)  PROVE b \in Buckets /\ (Settled(j) => b < watermark /\ b \notin dirty)
    OBVIOUS
  <2>1. b \in Buckets /\ b \div Span = j
    BY DEF Parts
  <2>2. b < (j + 1) * Span /\ b \in Int
    BY <2>1, PartBound DEF Buckets
  <2>3. (j + 1) * Span \in Int
    BY <1>2
  <2> QED  BY <1>2, <2>1, <2>2, <2>3 DEF Settled
<1>4. UNCHANGED work
  BY OthersLeaveWork
<1>5. ASSUME UNCHANGED <<rollup, tz>>, dirty \subseteq dirty'
      PROVE  Settled(j) /\ Total(j)' = Total(j) /\ UNCHANGED <<tz, work>>
  <2>1. Settled(j)
    BY <1>5 DEF Settled, Below
  <2> QED  BY <1>4, <1>5, <2>1 DEF Total
<1>6. CASE UNCHANGED vars
  BY <1>5, <1>6 DEF vars
<1>7. CASE \E k \in Keys : Accept(k) \/ Flush(k)
  BY <1>5, <1>7 DEF Accept, Flush, FetchRows, InsertRaw, Delivered, FlushFails, MarkDirty, derived
<1>8. CASE Retraction
  BY <1>5, <1>8 DEF Retraction, RetractOutbox, RetractSelect, RetractMark, RetractDelete, RetractFails,
                    MarkDirty, derived
<1>9. CASE LoseSession \/ Tick
  BY <1>5, <1>9 DEF LoseSession, Tick, derived
<1>10. CASE Repair
  BY <1>5, <1>10 DEF Repair, RepairRead, RepairMark, RepairInsert, RepairFails, RecheckPricing, MarkDirty, derived
<1>11. CASE \E i \in Jobs : Prewarm(i) \/ PruneJob(i)
  BY <1>5, <1>11 DEF Prewarm, PruneJob
<1>12. CASE CompactBegin \/ CompactAggregate \/ CompactFails
  BY <1>5, <1>12 DEF CompactBegin, CompactAggregate, CompactFails, derived
<1>13. ASSUME UNCHANGED <<dirty, watermark, tz>>, Settled(j) => \A b \in Parts(j) : rollup'[b] = rollup[b]
       PROVE  Settled(j) /\ Total(j)' = Total(j) /\ UNCHANGED <<tz, work>>
  <2>1. Settled(j)
    BY <1>13 DEF Settled
  <2> QED  BY <1>4, <1>13, <2>1 DEF Total
<1>14. CASE CompactDelete
  <2>1. UNCHANGED <<dirty, watermark, tz>> /\ rollup' = [b \in Buckets |-> IF b \in comp.dirty THEN {} ELSE rollup[b]]
    BY <1>14 DEF CompactDelete
  <2>2. comp.dirty \subseteq dirty
    BY <1>1, <1>14 DEF CompactDelete, CompInv
  <2> QED  BY <1>3, <1>13, <2>1, <2>2
<1>15. CASE CompactInsert
  <2>1. UNCHANGED <<dirty, watermark, tz>> /\ rollup' = [b \in Buckets |-> rollup[b] \union comp.rows[b]]
    BY <1>15 DEF CompactInsert
  <2>2. /\ comp.dirty \subseteq dirty /\ \A b \in comp.fresh : b >= watermark
        /\ \A b \in Buckets : b \notin Compacted => comp.rows[b] = {}
    BY <1>1, <1>15 DEF CompactInsert, CompInv
  <2>3. Settled(j) => \A b \in Parts(j) : comp.rows[b] = {}
    BY <1>2, <1>3, <2>2 DEF Compacted, Buckets
  <2> QED  BY <1>3, <1>13, <2>1, <2>3
<1>16. CASE CompactCommit
  <2>1. UNCHANGED <<rollup, tz>> /\ dirty' = dirty \ Compacted
    BY <1>16 DEF CompactCommit
  <2>2. \A b \in Parts(j) : b \notin Compacted
    BY <1>16 DEF JobOf, Parts
  <2>3. dirty' \intersect Parts(j) = {}
    BY DEF Settled
  <2>4. Settled(j)
    BY <2>1, <2>2, <2>3 DEF Settled, Below
  <2> QED  BY <1>4, <2>1, <2>4 DEF Total
<1> QED  BY <1>6, <1>7, <1>8, <1>9, <1>10, <1>11, <1>12, <1>14, <1>15, <1>16 DEF Next, Compact

(* Only a commit makes a claimed generation old, and only a worker covers. *)
LEMMA CurrentStays ==
  ASSUME JobsInv, [Next]_vars, \A w \in Workers : ~Timezone(w)
  PROVE  /\ coverage' \subseteq coverage
         /\ \A w \in Workers : \A t \in Tasks : Holds(w, t) /\ Current(t)' => Current(t)
         /\ CompactCommit => /\ coverage' \intersect JobOf(Compacted) = {}
                             /\ \A w \in Workers : \A t \in Tasks :
                                  Holds(w, t) /\ t.job \in JobOf(Compacted) => ~Current(t)'
<1>1. jobs \in [Jobs -> JobRows] /\ \A j \in Jobs : jobs[j].gen \in Nat
  BY TypeParts DEF JobsInv, TypeInv, DerivedTyped, JobRows
<1>2. \A t \in Tasks : t.job \in Jobs /\ t.gen \in Nat
  BY DEF Tasks
<1>3. \A w \in Workers : \A t \in Tasks : Holds(w, t) => t.gen <= jobs[t.job].gen
  BY DEF JobsInv, HeldInv
<1>4. CASE CompactCommit
  <2>1. /\ coverage' = coverage \ JobOf(Compacted)
        /\ jobs' = [j \in Jobs |-> IF j \in JobOf(Compacted)
                           THEN [status |-> "pending", gen |-> jobs[j].gen + 1] ELSE jobs[j]]
    BY <1>4 DEF CompactCommit, InvalidateJobs
  <2>2. \A j \in Jobs : IF j \in JobOf(Compacted) THEN jobs'[j].gen = jobs[j].gen + 1 ELSE jobs'[j] = jobs[j]
    BY <2>1
  <2>3. \A w \in Workers : \A t \in Tasks : Holds(w, t) /\ t.job \in JobOf(Compacted) => ~Current(t)'
    BY <1>1, <1>2, <1>3, <2>2 DEF Current
  <2>4. \A w \in Workers : \A t \in Tasks : Holds(w, t) /\ Current(t)' => Current(t)
    BY <1>2, <2>2, <2>3 DEF Current
  <2> QED  BY <2>1, <2>3, <2>4
<1>5. CASE \E j \in Jobs : Prewarm(j) \/ PruneJob(j)
  <2>1. PICK j \in Jobs : Prewarm(j) \/ PruneJob(j)
    BY <1>5
  <2>2. coverage' = coverage /\ \A i \in Jobs : jobs'[i].gen \in {jobs[i].gen, jobs[i].gen + 1}
    <3>1. CASE Prewarm(j)
      <4>1. jobs' = [jobs EXCEPT ![j] = [status |-> "pending", gen |-> jobs[j].gen + 1]]
        BY <1>1, <3>1 DEF Prewarm
      <4> QED  BY <1>1, <3>1, <4>1 DEF Prewarm
    <3>2. CASE PruneJob(j)
      <4>1. jobs' = [jobs EXCEPT ![j].status = "none"]
        BY <3>2 DEF PruneJob
      <4> QED  BY <1>1, <3>2, <4>1 DEF PruneJob, JobRows
    <3> QED  BY <2>1, <3>1, <3>2
  <2>3. ~CompactCommit
    <3>1. coverage' = coverage /\ UNCHANGED comp
      BY <2>1 DEF Prewarm, PruneJob
    <3> QED  BY <3>1 DEF CompactCommit, NoComp
  <2> QED  BY <1>1, <1>2, <1>3, <2>2, <2>3 DEF Current
<1>6. ASSUME UNCHANGED <<jobs, coverage>>  PROVE coverage' \subseteq coverage /\ \A t \in Tasks : Current(t)' => Current(t)
  BY <1>6 DEF Current
<1>7. CASE ~CompactCommit /\ ~(\E j \in Jobs : Prewarm(j) \/ PruneJob(j))
  <2>1. UNCHANGED <<jobs, coverage>>
    <3>1. CASE UNCHANGED vars
      BY <3>1 DEF vars
    <3>2. CASE \E k \in Keys : Accept(k) \/ Flush(k)
      BY <3>2 DEF Accept, Flush, FetchRows, InsertRaw, Delivered, FlushFails, derived
    <3>3. CASE Retraction
      BY <3>3 DEF Retraction, RetractOutbox, RetractSelect, RetractMark, RetractDelete, RetractFails, derived
    <3>4. CASE LoseSession \/ Tick
      BY <3>4 DEF LoseSession, Tick, derived
    <3>5. CASE Repair
      BY <3>5 DEF Repair, RepairRead, RepairMark, RepairInsert, RepairFails, RecheckPricing, derived
    <3>6. CASE Compact
      BY <1>7, <3>6 DEF Compact, CompactBegin, CompactAggregate, CompactDelete, CompactInsert, CompactFails, derived
    <3> QED  BY <1>7, <3>1, <3>2, <3>3, <3>4, <3>5, <3>6 DEF Next
  <2> QED  BY <1>6, <1>7, <2>1
<1> QED  BY <1>4, <1>5, <1>7

(* At the end of its job the worker will cover the timezone bucket. *)
Marking(w, t) == work[w].pc = "mark" /\ work[w].at = t /\ Current(t)
Live(j) == j \in coverage \/ \E w \in Workers : \E t \in Tasks : t.job = j /\ Marking(w, t)

(* While workers may run side by side: only the one with the lock of the   *)
(* timezone writes, and a bucket that is or will be covered is empty or    *)
(* right.                                                                  *)
LockInv == \A w \in Workers : work[w].pc \in {"aggregate", "delete", "insert"} => tzlock = w
EmptyInv == \A w \in Workers : \A t \in Tasks :
               work[w].pc = "insert" /\ work[w].at = t => tz[t.job] = {}
RowsInv == \A w \in Workers : \A t \in Tasks :
              /\ work[w].pc \in {"delete", "insert"} /\ work[w].at = t
              /\ Settled(t.job) /\ (Live(t.job) \/ Current(t))
              => work[w].rows = Total(t.job)
LiveInv == \A j \in Jobs : Live(j) /\ Settled(j) => tz[j] \in {{}, Total(j)}

StaleInv == LockInv /\ EmptyInv /\ RowsInv /\ LiveInv

(* No timezone rows at the start.                                          *)
LEMMA StaleInvInit == Init => StaleInv
<1> QED  BY DEF Init, StaleInv, LockInv, EmptyInv, RowsInv, LiveInv, NoWork

(* The server side: what is settled and live now was so before. *)
LEMMA StaleInvServer ==
  ASSUME JobsInv, StaleInv, [Next]_vars, \A w \in Workers : ~Timezone(w), LoseSession => UNCHANGED tzlock
  PROVE  StaleInv'
<1>1. UNCHANGED work
  BY OthersLeaveWork
<1>2. UNCHANGED tzlock
  <2>1. CASE UNCHANGED vars
    BY <2>1 DEF vars
  <2>2. CASE \E k \in Keys : Accept(k) \/ Flush(k)
    BY <2>2 DEF Accept, Flush, FetchRows, InsertRaw, Delivered, FlushFails
  <2>3. CASE Retraction
    BY <2>3 DEF Retraction, RetractOutbox, RetractSelect, RetractMark, RetractDelete, RetractFails
  <2>4. CASE LoseSession \/ Tick
    BY <2>4 DEF Tick
  <2>5. CASE Repair
    BY <2>5 DEF Repair, RepairRead, RepairMark, RepairInsert, RepairFails, RecheckPricing
  <2>6. CASE Compact
    BY <2>6 DEF Compact, CompactBegin, CompactAggregate, CompactDelete, CompactInsert, CompactCommit, CompactFails
  <2>7. CASE \E j \in Jobs : Prewarm(j) \/ PruneJob(j)
    BY <2>7 DEF Prewarm, PruneJob
  <2> QED  BY <2>1, <2>2, <2>3, <2>4, <2>5, <2>6, <2>7 DEF Next
<1>3. \A w \in Workers : \A t \in Tasks : Holds(w, t) => Below(t.job)
  BY DEF JobsInv, HeldInv
<1>4. \A j \in coverage : j \in Jobs /\ Below(j)
  BY TypeParts DEF JobsInv, TypeInv, DerivedTyped, CoverInv
<1>5. \A j \in Jobs : Live(j)' => Live(j) /\ Below(j) /\ ~(CompactCommit /\ j \in JobOf(Compacted))
  <2> SUFFICES ASSUME NEW j \in Jobs, Live(j)'
               PROVE  Live(j) /\ Below(j) /\ ~(CompactCommit /\ j \in JobOf(Compacted))
    OBVIOUS
  <2>1. CASE j \in coverage'
    BY <1>4, <2>1, CurrentStays DEF Live
  <2>2. CASE j \notin coverage'
    <3>1. PICK w \in Workers, t \in Tasks : t.job = j /\ work[w].pc = "mark" /\ work[w].at = t /\ Current(t)'
      BY <1>1, <2>2 DEF Live, Marking
    <3>2. Holds(w, t)
      BY <3>1 DEF Holds, Running
    <3>3. Current(t) /\ ~(CompactCommit /\ j \in JobOf(Compacted))
      BY <3>1, <3>2, CurrentStays
    <3> QED  BY <1>3, <3>1, <3>2, <3>3 DEF Live, Marking
  <2> QED  BY <2>1, <2>2
<1>6. \A j \in Jobs : /\ Below(j) /\ Settled(j)' /\ ~(CompactCommit /\ j \in JobOf(Compacted))
                      => Settled(j) /\ Total(j)' = Total(j) /\ tz' = tz
  BY SettledStays
<1>7. \A t \in Tasks : t.job \in Jobs
  BY DEF Tasks
<1>8. LockInv'
  BY <1>1, <1>2 DEF StaleInv, LockInv
<1>9. UNCHANGED tz
  <2>1. CASE UNCHANGED vars
    BY <2>1 DEF vars
  <2>2. CASE \E k \in Keys : Accept(k) \/ Flush(k)
    BY <2>2 DEF Accept, Flush, FetchRows, InsertRaw, Delivered, FlushFails, derived
  <2>3. CASE Retraction
    BY <2>3 DEF Retraction, RetractOutbox, RetractSelect, RetractMark, RetractDelete, RetractFails, derived
  <2>4. CASE LoseSession \/ Tick
    BY <2>4 DEF LoseSession, Tick, derived
  <2>5. CASE Repair
    BY <2>5 DEF Repair, RepairRead, RepairMark, RepairInsert, RepairFails, RecheckPricing, derived
  <2>6. CASE Compact
    BY <2>6 DEF Compact, CompactBegin, CompactAggregate, CompactDelete, CompactInsert, CompactCommit,
                CompactFails, derived
  <2>7. CASE \E j \in Jobs : Prewarm(j) \/ PruneJob(j)
    BY <2>7 DEF Prewarm, PruneJob
  <2> QED  BY <2>1, <2>2, <2>3, <2>4, <2>5, <2>6, <2>7 DEF Next
<1>10. EmptyInv'
  BY <1>1, <1>9 DEF StaleInv, EmptyInv
<1>11. RowsInv'
  <2> SUFFICES ASSUME NEW w \in Workers, NEW t \in Tasks,
                      work[w].pc \in {"delete", "insert"}, work[w].at = t,
                      Settled(t.job)', Live(t.job)' \/ Current(t)'
               PROVE  work[w].rows = Total(t.job)'
    BY <1>1 DEF RowsInv
  <2>1. Holds(w, t)
    BY DEF Holds, Running
  <2>2. Below(t.job) /\ ~(CompactCommit /\ t.job \in JobOf(Compacted)) /\ (Live(t.job) \/ Current(t))
    <3>1. CASE Live(t.job)'
      BY <1>5, <1>7, <3>1
    <3>2. CASE Current(t)'
      BY <1>3, <2>1, <3>2, CurrentStays
    <3> QED  BY <3>1, <3>2
  <2>3. Settled(t.job) /\ Total(t.job)' = Total(t.job)
    BY <1>6, <1>7, <2>2
  <2>4. work[w].rows = Total(t.job)
    BY <2>2, <2>3 DEF StaleInv, RowsInv
  <2> QED  BY <2>3, <2>4
<1>12. LiveInv'
  <2> SUFFICES ASSUME NEW j \in Jobs, Live(j)', Settled(j)'  PROVE tz'[j] \in {{}, Total(j)'}
    BY DEF LiveInv
  <2>1. Live(j) /\ Below(j) /\ ~(CompactCommit /\ j \in JobOf(Compacted))
    BY <1>5
  <2>2. Settled(j) /\ Total(j)' = Total(j) /\ tz' = tz
    BY <1>6, <2>1
  <2>3. tz[j] \in {{}, Total(j)}
    BY <2>1, <2>2 DEF StaleInv, LiveInv
  <2> QED  BY <2>2, <2>3
<1> QED  BY <1>8, <1>10, <1>11, <1>12 DEF StaleInv

(* The worker side: the steps of the job at hand, and the others. *)
Computes(w) == TzAggregate(w) \/ TzDelete(w) \/ TzInsert(w)

(* The step a worker is at says which of the steps of a job it takes and   *)
(* what that changes.                                                      *)
LEMMA PcFacts ==
  ASSUME TypeInv, NEW w \in Workers, Timezone(w)
  PROVE  /\ \A v \in Workers : v # w => work'[v] = work[v]
         /\ TzAggregate(w) =>
              /\ work[w].pc = "aggregate" /\ work'[w].pc = "delete" /\ work'[w].at = work[w].at
              /\ work'[w].rows = Total(work[w].at.job) /\ UNCHANGED <<tz, tzlock, jobs, coverage>>
         /\ TzDelete(w) =>
              /\ work[w].pc = "delete" /\ work'[w].pc = "insert" /\ work'[w].at = work[w].at
              /\ work'[w].rows = work[w].rows /\ UNCHANGED <<tzlock, jobs, coverage>>
              /\ tz' = [tz EXCEPT ![work[w].at.job] = {}]
         /\ TzInsert(w) =>
              /\ work[w].pc = "insert" /\ work'[w].pc = "mark" /\ work'[w].at = work[w].at
              /\ UNCHANGED <<jobs, coverage>>
              /\ tz' = [tz EXCEPT ![work[w].at.job] = tz[work[w].at.job] \union work[w].rows]
         /\ ~Computes(w) =>
              /\ work'[w].pc \in {"idle", "next"} \/ (work'[w].pc = "aggregate" /\ tzlock = "free" /\ tzlock' = w)
              /\ UNCHANGED tz
         /\ tzlock' \in {tzlock, w} \/ tzlock = w
<1>1. TypeOK /\ work \in [Workers -> Works] /\ work[w] \in Works /\ tz \in [Jobs -> SUBSET Rows]
  BY TypeParts DEF TypeInv, TasksTyped, DerivedTyped
<1>2. \A v \in Workers : v # w => work'[v] = work[v]
  BY WorkMoves, SetFacts, <1>1 DEF TypeInv, Sound
<1>3. ASSUME NEW pc, NEW todo, NEW at, NEW rows, Sets(w, Worker(pc, todo, at, rows))
      PROVE  work'[w].pc = pc /\ work'[w].at = at /\ work'[w].rows = rows
  <2>1. work'[w] = Worker(pc, todo, at, rows)
    BY <1>1, <1>3 DEF Sets
  <2> QED  BY <2>1, WorkerFacts
<1>4. ASSUME TzAggregate(w)
      PROVE  /\ work[w].pc = "aggregate" /\ work'[w].pc = "delete" /\ work'[w].at = work[w].at
             /\ work'[w].rows = Total(work[w].at.job) /\ UNCHANGED <<tz, tzlock, jobs, coverage>>
  <2>1. Sets(w, Worker("delete", work[w].todo, work[w].at, Total(work[w].at.job)))
    BY <1>1, <1>4, TzSteps DEF Total
  <2>2. work'[w].pc = "delete" /\ work'[w].at = work[w].at /\ work'[w].rows = Total(work[w].at.job)
    BY <1>3, <2>1
  <2> QED  BY <1>4, <2>2 DEF TzAggregate, derived
<1>5. ASSUME TzDelete(w)
      PROVE  /\ work[w].pc = "delete" /\ work'[w].pc = "insert" /\ work'[w].at = work[w].at
             /\ work'[w].rows = work[w].rows /\ UNCHANGED <<tzlock, jobs, coverage>>
             /\ tz' = [tz EXCEPT ![work[w].at.job] = {}]
  <2>1. Sets(w, Worker("insert", work[w].todo, work[w].at, work[w].rows))
    BY <1>1, <1>5, TzSteps
  <2>2. work'[w].pc = "insert" /\ work'[w].at = work[w].at /\ work'[w].rows = work[w].rows
    BY <1>3, <2>1
  <2> QED  BY <1>5, <2>2 DEF TzDelete
<1>6. ASSUME TzInsert(w)
      PROVE  /\ work[w].pc = "insert" /\ work'[w].pc = "mark" /\ work'[w].at = work[w].at
             /\ UNCHANGED <<jobs, coverage>>
             /\ tz' = [tz EXCEPT ![work[w].at.job] = tz[work[w].at.job] \union work[w].rows]
  <2>1. Sets(w, Worker("mark", work[w].todo, work[w].at, work[w].rows))
    BY <1>1, <1>6, TzSteps
  <2>2. work'[w].pc = "mark" /\ work'[w].at = work[w].at
    BY <1>3, <2>1
  <2>3. tz' = [tz EXCEPT ![work[w].at.job] = tz[work[w].at.job] \union work[w].rows]
    BY <1>1, <1>6 DEF TzInsert
  <2> QED  BY <1>6, <2>2, <2>3 DEF TzInsert
<1>7. ASSUME ~Computes(w)
      PROVE  /\ work'[w].pc \in {"idle", "next"} \/ (work'[w].pc = "aggregate" /\ tzlock = "free" /\ tzlock' = w)
             /\ UNCHANGED tz
  <2>1. UNCHANGED tz
    BY <1>7 DEF Timezone, Computes, ClaimJobs, LockTimezone, MarkDone, JobFails, WorkEnds, WorkerDies, derived
  <2>2. CASE ClaimJobs(w)
    <3>1. \E todo : Sets(w, Worker("next", todo, NoTask, {}))
      BY <1>1, <2>2, ClaimStep
    <3> QED  BY <1>3, <2>1, <3>1
  <2>3. CASE LockTimezone(w)
    <3>1. \E t : \/ tzlock = "free" /\ tzlock' = w /\ Sets(w, Worker("aggregate", work[w].todo \ {t}, t, work[w].rows))
                 \/ Sets(w, Worker("next", work[w].todo \ {t}, work[w].at, work[w].rows))
      BY <1>1, <2>3, LockStep
    <3> QED  BY <1>3, <2>1, <3>1
  <2>4. CASE MarkDone(w)
    <3>1. Sets(w, Worker("next", work[w].todo, NoTask, {}))
      BY <1>1, <2>4, TzSteps
    <3> QED  BY <1>3, <2>1, <3>1
  <2>5. CASE JobFails(w)
    <3>1. \E todo, at, rows : Sets(w, Worker("next", todo, at, rows))
      BY <1>1, <2>5, FailStep
    <3> QED  BY <1>3, <2>1, <3>1
  <2>6. CASE WorkEnds(w) \/ WorkerDies(w)
    <3>1. Sets(w, Worker("idle", {}, NoTask, {}))
      BY <1>1, <2>6, TzSteps
    <3> QED  BY <1>3, <2>1, <3>1
  <2> QED  BY <1>7, <2>2, <2>3, <2>4, <2>5, <2>6 DEF Timezone, Computes
<1>8. tzlock' \in {tzlock, w} \/ tzlock = w
  BY DEF Timezone, ClaimJobs, LockTimezone, TzAggregate, TzDelete, TzInsert, MarkDone, JobFails,
         WorkEnds, WorkerDies, Unlock, derived
<1> QED  BY <1>2, <1>4, <1>5, <1>6, <1>7, <1>8

(* A worker leaves the 15 minute rollup and the generations alone, and a   *)
(* timezone bucket becomes live only when its rows were inserted.          *)
LEMMA TimezoneFrame ==
  ASSUME TypeInv, NEW w \in Workers, Timezone(w)
  PROVE  /\ \A t \in Tasks : Current(t)' <=> Current(t)
         /\ \A j \in Jobs : (Settled(j)' <=> Settled(j)) /\ Total(j)' = Total(j)
         /\ \A j \in Jobs : Live(j)' =>
              Live(j) \/ (TzInsert(w) /\ work[w].at \in Tasks /\ work[w].at.job = j /\ Current(work[w].at))
<1>1. UNCHANGED <<rollup, dirty, watermark>>
  BY DEF Timezone, ClaimJobs, LockTimezone, TzAggregate, TzDelete, TzInsert, MarkDone, JobFails,
         WorkEnds, WorkerDies, derived
<1>2. \A t \in Tasks : Current(t)' <=> Current(t)
  BY TimezoneJobs DEF Current, Tasks
<1>3. \A j \in Jobs : (Settled(j)' <=> Settled(j)) /\ Total(j)' = Total(j)
  BY <1>1 DEF Settled, Total
<1>4. ASSUME NEW j \in Jobs, Live(j)'
      PROVE  Live(j) \/ (TzInsert(w) /\ work[w].at \in Tasks /\ work[w].at.job = j /\ Current(work[w].at))
  <2>1. CASE j \in coverage'
    <3>1. CASE j \in coverage
      BY <3>1 DEF Live
    <3>2. CASE j \notin coverage
      <4>1. work[w].pc = "mark" /\ j = work[w].at.job /\ Current(work[w].at)
        BY <2>1, <3>2, TimezoneJobs
      <4>2. work[w].at \in Tasks
        BY <4>1 DEF TypeInv, WorkInv, Running
      <4> QED  BY <4>1, <4>2 DEF Live, Marking
    <3> QED  BY <3>1, <3>2
  <2>2. CASE j \notin coverage'
    <3>1. PICK v \in Workers, t \in Tasks : t.job = j /\ work'[v].pc = "mark" /\ work'[v].at = t /\ Current(t)'
      BY <1>4, <2>2 DEF Live, Marking
    <3>2. Current(t)
      BY <1>2, <3>1
    <3>3. CASE v # w
      <4>1. work'[v] = work[v]
        BY <3>3, PcFacts
      <4> QED  BY <3>1, <3>2, <4>1 DEF Live, Marking
    <3>4. CASE v = w
      <4>1. TzInsert(w) /\ work'[w].at = work[w].at
        BY <3>1, <3>4, PcFacts DEF Computes
      <4> QED  BY <3>1, <3>2, <3>4, <4>1
    <3> QED  BY <3>3, <3>4
  <2> QED  BY <2>1, <2>2
<1> QED  BY <1>2, <1>3, <1>4

(* Each step of a worker keeps it. *)
LEMMA StaleInvWorker ==
  ASSUME JobsInv, StaleInv, NEW w \in Workers, Timezone(w)
  PROVE  StaleInv'
<1>1. TypeInv /\ w # "free" /\ tz \in [Jobs -> SUBSET Rows]
  BY TypeParts, RollupAssumption DEF JobsInv, TypeInv, DerivedTyped
<1>2. \A t \in Tasks : t.job \in Jobs
  BY DEF Tasks
<1>3. \A v \in Workers : v # w => work'[v] = work[v]
  BY <1>1, PcFacts
<1>4. /\ \A t \in Tasks : Current(t)' <=> Current(t)
      /\ \A j \in Jobs : (Settled(j)' <=> Settled(j)) /\ Total(j)' = Total(j)
  BY <1>1, TimezoneFrame
<1>5. ASSUME work[w].pc \in {"aggregate", "delete", "insert"}
      PROVE  \A v \in Workers : work[v].pc \in {"aggregate", "delete", "insert"} => v = w
  BY <1>5 DEF StaleInv, LockInv
<1>6. Running(w) => work[w].at \in Tasks /\ work[w].at.job \in Jobs
  BY <1>1, <1>2 DEF TypeInv, WorkInv
<1>7. LockInv'
  <2> SUFFICES ASSUME NEW v \in Workers, work'[v].pc \in {"aggregate", "delete", "insert"}
               PROVE  tzlock' = v
    BY DEF LockInv
  <2>1. CASE v = w
    <3>1. CASE TzAggregate(w) \/ TzDelete(w)
      <4>1. work[w].pc \in {"aggregate", "delete"} /\ tzlock' = tzlock
        BY <1>1, <3>1, PcFacts
      <4> QED  BY <2>1, <4>1 DEF StaleInv, LockInv
    <3>2. CASE TzInsert(w)
      BY <1>1, <2>1, <3>2, PcFacts
    <3>3. CASE ~Computes(w)
      BY <1>1, <2>1, <3>3, PcFacts
    <3> QED  BY <3>1, <3>2, <3>3 DEF Computes
  <2>2. CASE v # w
    <3>1. tzlock = v
      BY <1>3, <2>2 DEF StaleInv, LockInv
    <3>2. tzlock' # w
      <4>1. CASE work'[w].pc = "aggregate" /\ tzlock = "free"
        BY <3>1, <4>1, RollupAssumption
      <4>2. CASE tzlock' = tzlock
        BY <2>2, <3>1, <4>2
      <4>3. CASE LockTimezone(w) /\ tzlock' # tzlock
        BY <3>1, <4>3, RollupAssumption DEF LockTimezone
      <4>4. tzlock' = tzlock \/ LockTimezone(w)
        BY <2>2, <3>1 DEF Timezone, ClaimJobs, TzAggregate, TzDelete, TzInsert, MarkDone, JobFails,
                          WorkEnds, WorkerDies, Unlock, derived
      <4> QED  BY <4>2, <4>3, <4>4
    <3> QED  BY <1>1, <2>2, <3>1, <3>2, PcFacts
  <2> QED  BY <2>1, <2>2
<1>8. CASE TzAggregate(w)
  <2> DEFINE t0 == work[w].at
  <2>1. /\ work'[w].pc = "delete" /\ work'[w].at = t0 /\ work'[w].rows = Total(t0.job) /\ tz' = tz
        /\ t0 \in Tasks /\ t0.job \in Jobs
    BY <1>1, <1>6, <1>8, PcFacts DEF Running
  <2>2. \A j \in Jobs : Live(j)' => Live(j)
    BY <1>1, <1>8, TimezoneFrame, PcFacts
  <2> HIDE DEF t0
  <2>3. EmptyInv'
    BY <1>3, <2>1 DEF StaleInv, EmptyInv
  <2>4. RowsInv'
    <3> SUFFICES ASSUME NEW v \in Workers, NEW t \in Tasks,
                        work'[v].pc \in {"delete", "insert"}, work'[v].at = t,
                        Settled(t.job)', Live(t.job)' \/ Current(t)'
                 PROVE  work'[v].rows = Total(t.job)'
      BY DEF RowsInv
    <3>1. CASE v = w
      BY <1>4, <2>1, <3>1
    <3>2. CASE v # w
      BY <1>2, <1>3, <1>4, <2>2, <3>2 DEF StaleInv, RowsInv
    <3> QED  BY <3>1, <3>2
  <2>5. LiveInv'
    BY <1>4, <2>1, <2>2 DEF StaleInv, LiveInv
  <2> QED  BY <1>7, <2>3, <2>4, <2>5 DEF StaleInv
<1>9. CASE TzDelete(w)
  <2> DEFINE t0 == work[w].at
  <2>1. /\ work[w].pc = "delete" /\ work'[w].pc = "insert" /\ work'[w].at = t0 /\ work'[w].rows = work[w].rows
        /\ t0 \in Tasks /\ t0.job \in Jobs
    BY <1>1, <1>6, <1>9, PcFacts DEF Running
  <2>2. \A j \in Jobs : Live(j)' => Live(j)
    BY <1>1, <1>9, TimezoneFrame, PcFacts
  <2>3. \A v \in Workers : v # w => work[v].pc \notin {"aggregate", "delete", "insert"}
    BY <1>5, <2>1
  <2>4. tz'[t0.job] = {} /\ \A j \in Jobs : j # t0.job => tz'[j] = tz[j]
    <3>1. tz' = [tz EXCEPT ![t0.job] = {}]
      BY <1>1, <1>9, PcFacts
    <3> HIDE DEF t0
    <3> QED  BY <1>1, <2>1, <3>1
  <2>5. \A t \in Tasks : /\ work[w].at = t /\ Settled(t.job) /\ (Live(t.job) \/ Current(t))
                         => work[w].rows = Total(t.job)
    BY <2>1 DEF StaleInv, RowsInv
  <2>6. EmptyInv'
    BY <1>3, <2>1, <2>3, <2>4 DEF EmptyInv
  <2>7. RowsInv'
    <3> SUFFICES ASSUME NEW v \in Workers, NEW t \in Tasks,
                        work'[v].pc \in {"delete", "insert"}, work'[v].at = t,
                        Settled(t.job)', Live(t.job)' \/ Current(t)'
                 PROVE  work'[v].rows = Total(t.job)'
      BY DEF RowsInv
    <3>1. v = w
      BY <1>3, <2>3
    <3>2. work[w].at = t /\ Settled(t.job) /\ (Live(t.job) \/ Current(t)) /\ Total(t.job)' = Total(t.job)
      BY <1>2, <1>4, <2>1, <2>2, <3>1
    <3> QED  BY <2>1, <2>5, <3>1, <3>2
  <2>8. LiveInv'
    <3> SUFFICES ASSUME NEW j \in Jobs, Live(j)', Settled(j)'  PROVE tz'[j] \in {{}, Total(j)'}
      BY DEF LiveInv
    <3>1. tz[j] \in {{}, Total(j)}
      BY <1>4, <2>2 DEF StaleInv, LiveInv
    <3> QED  BY <1>4, <2>4, <3>1
  <2> QED  BY <1>7, <2>6, <2>7, <2>8 DEF StaleInv
<1>10. CASE TzInsert(w)
  <2> DEFINE t0 == work[w].at
  <2>1. /\ work[w].pc = "insert" /\ work'[w].pc = "mark" /\ work'[w].at = t0
        /\ t0 \in Tasks /\ t0.job \in Jobs
    BY <1>1, <1>6, <1>10, PcFacts DEF Running
  <2>2. \A j \in Jobs : Live(j)' => Live(j) \/ (j = t0.job /\ Current(t0))
    BY <1>1, <1>10, TimezoneFrame
  <2>3. \A v \in Workers : v # w => work[v].pc \notin {"aggregate", "delete", "insert"}
    BY <1>5, <2>1
  <2>4. tz'[t0.job] = work[w].rows /\ \A j \in Jobs : j # t0.job => tz'[j] = tz[j]
    <3>1. tz' = [tz EXCEPT ![t0.job] = tz[t0.job] \union work[w].rows]
      BY <1>1, <1>10, PcFacts
    <3>2. tz[t0.job] = {}
      BY <2>1 DEF StaleInv, EmptyInv
    <3> HIDE DEF t0
    <3> QED  BY <1>1, <2>1, <3>1, <3>2
  <2>5. Settled(t0.job) /\ (Live(t0.job) \/ Current(t0)) => work[w].rows = Total(t0.job)
    BY <2>1 DEF StaleInv, RowsInv
  <2>6. EmptyInv' /\ RowsInv'
    BY <1>3, <2>1, <2>3 DEF EmptyInv, RowsInv
  <2>7. LiveInv'
    <3> SUFFICES ASSUME NEW j \in Jobs, Live(j)', Settled(j)'  PROVE tz'[j] \in {{}, Total(j)'}
      BY DEF LiveInv
    <3>1. Settled(j) /\ Total(j)' = Total(j)
      BY <1>4
    <3>2. CASE j = t0.job
      <4>1. tz'[j] = Total(j)
        BY <2>2, <2>4, <2>5, <3>1, <3>2
      <4> QED  BY <3>1, <4>1
    <3>3. CASE j # t0.job
      <4>1. tz[j] \in {{}, Total(j)} /\ tz'[j] = tz[j]
        BY <2>2, <2>4, <3>1, <3>3 DEF StaleInv, LiveInv
      <4> QED  BY <3>1, <4>1
    <3> QED  BY <3>2, <3>3
  <2> QED  BY <1>7, <2>6, <2>7 DEF StaleInv
<1>11. CASE ~Computes(w)
  <2>1. work'[w].pc \in {"idle", "next", "aggregate"} /\ tz' = tz
    BY <1>1, <1>11, PcFacts
  <2>2. \A j \in Jobs : Live(j)' => Live(j)
    BY <1>1, <1>11, TimezoneFrame DEF Computes
  <2>3. EmptyInv'
    BY <1>3, <2>1 DEF StaleInv, EmptyInv
  <2>4. RowsInv'
    <3> SUFFICES ASSUME NEW v \in Workers, NEW t \in Tasks,
                        work'[v].pc \in {"delete", "insert"}, work'[v].at = t,
                        Settled(t.job)', Live(t.job)' \/ Current(t)'
                 PROVE  work'[v].rows = Total(t.job)'
      BY DEF RowsInv
    <3>1. v # w
      BY <2>1
    <3> QED  BY <1>2, <1>3, <1>4, <2>2, <3>1 DEF StaleInv, RowsInv
  <2>5. LiveInv'
    BY <1>4, <2>1, <2>2 DEF StaleInv, LiveInv
  <2> QED  BY <1>7, <2>3, <2>4, <2>5 DEF StaleInv
<1> QED  BY <1>8, <1>9, <1>10, <1>11 DEF Computes

(* While the lock is not lost no step makes a covered slot stale.          *)
LEMMA StaleInvAlways ==
  Spec /\ [][LoseSession => UNCHANGED tzlock]_vars => []StaleInv
<1>1. JobsInv /\ StaleInv /\ [Next]_vars /\ [LoseSession => UNCHANGED tzlock]_vars => StaleInv'
  <2> SUFFICES ASSUME JobsInv, StaleInv, [Next]_vars, [LoseSession => UNCHANGED tzlock]_vars
               PROVE  StaleInv'
    OBVIOUS
  <2>1. CASE \E w \in Workers : Timezone(w)
    BY <2>1, StaleInvWorker
  <2>2. CASE \A w \in Workers : ~Timezone(w)
    <3>1. LoseSession => UNCHANGED tzlock
      BY DEF vars
    <3> QED  BY <2>2, <3>1, StaleInvServer
  <2> QED  BY <2>1, <2>2
<1> QED  BY <1>1, StaleInvInit, JobsInvAlways, PTL DEF Spec

(* As long as no session is lost together with the lock of the timezone    *)
(* (the load slot may be lost at any time, so that workers and the         *)
(* compactor run side by side, and workers may outlive their lease), a     *)
(* timezone bucket that is served is empty or the sum of its parts.        *)
THEOREM CoveredNeverStale ==
  Spec /\ [][LoseSession => UNCHANGED tzlock]_vars => []CoveredNotStale
<1>1. TypeInv /\ StaleInv => CoveredNotStale
  <2> SUFFICES ASSUME TypeInv, StaleInv, NEW j \in coverage, Settled(j)
               PROVE  tz[j] \in {{}, UNION {rollup[b] : b \in Parts(j)}}
    BY DEF CoveredNotStale
  <2>1. j \in Jobs
    BY TypeParts DEF TypeInv, DerivedTyped
  <2> QED  BY <2>1 DEF StaleInv, LiveInv, Live, Total
<1> QED  BY <1>1, StaleInvAlways, TypeInvAlways, PTL

(* While the load slot is kept, one task runs at a time. *)
SlotInv ==
  /\ comp.pc # "idle" => slot = "compactor"
  /\ \A w \in Workers : work[w].pc # "idle" => slot = w

(* What a worker holds is not covered, and it holds no job twice. *)
ClaimInv ==
  /\ \A w \in Workers : \A t \in Tasks : Holds(w, t) => t.job \notin coverage
  /\ \A w \in Workers : \A t, u \in Tasks : Holds(w, t) /\ Holds(w, u) /\ t.job = u.job => t = u
  /\ \A w \in Workers : Running(w) => work[w].at \notin work[w].todo

(* The worker's job at hand, and what is covered, is computed from what    *)
(* the rollup holds now.                                                   *)
RowsNow == \A w \in Workers : \A t \in Tasks :
              work[w].pc \in {"delete", "insert"} /\ work[w].at = t /\ Settled(t.job) /\ Current(t)
              => work[w].rows = Total(t.job)
MarkNow == \A w \in Workers : \A t \in Tasks :
              work[w].pc = "mark" /\ work[w].at = t /\ Settled(t.job) /\ Current(t)
              => tz[t.job] = Total(t.job)
CoverNow == \A j \in coverage : Settled(j) => tz[j] = Total(j)

ExactInv == SlotInv /\ ClaimInv /\ EmptyInv /\ RowsNow /\ MarkNow /\ CoverNow

(* No worker has the slot at the start.                                    *)
LEMMA ExactInvInit == Init => ExactInv
<1> QED  BY DEF Init, ExactInv, SlotInv, ClaimInv, EmptyInv, RowsNow, MarkNow, CoverNow, NoWork, NoComp,
                Holds, Running

(* The slot is taken when it is free and given back by who holds it. *)
LEMMA SlotServer ==
  ASSUME TypeInv, SlotInv, [Next]_vars, \A w \in Workers : ~Timezone(w), LoseSession => UNCHANGED slot
  PROVE  SlotInv'
<1>1. UNCHANGED work
  BY OthersLeaveWork
<1>2. "compactor" \notin Workers /\ "repair" \notin Workers /\ "free" \notin Workers
  BY RollupAssumption
<1>3. ASSUME UNCHANGED comp, slot' = slot \/ slot \in {"free", "repair"}
      PROVE  SlotInv'
  BY <1>1, <1>2, <1>3 DEF SlotInv
<1>4. CASE UNCHANGED vars
  BY <1>3, <1>4 DEF vars
<1>5. CASE \E k \in Keys : Accept(k) \/ Flush(k)
  BY <1>3, <1>5 DEF Accept, Flush, FetchRows, InsertRaw, Delivered, FlushFails
<1>6. CASE Retraction
  BY <1>3, <1>6 DEF Retraction, RetractOutbox, RetractSelect, RetractMark, RetractDelete, RetractFails
<1>7. CASE LoseSession
  BY <1>3, <1>7 DEF LoseSession
<1>8. CASE Tick
  BY <1>3, <1>8 DEF Tick
<1>9. CASE Repair
  BY <1>3, <1>9 DEF Repair, RepairRead, RepairMark, RepairInsert, RepairFails, RecheckPricing, Release
<1>10. CASE \E j \in Jobs : Prewarm(j) \/ PruneJob(j)
  BY <1>3, <1>10 DEF Prewarm, PruneJob
<1>11. CASE CompactBegin
  BY <1>1, <1>2, <1>11 DEF CompactBegin, SlotInv
<1>12. comp \in Comps
  BY TypeParts DEF TypeInv, TasksTyped
<1>13. CASE CompactAggregate \/ CompactDelete \/ CompactInsert
  <2>1. slot' = slot /\ comp.pc # "idle"
    BY <1>13 DEF CompactAggregate, CompactDelete, CompactInsert
  <2> QED  BY <1>1, <2>1 DEF SlotInv
<1>14. CASE CompactCommit \/ CompactFails
  <2>1. slot' = (IF slot = "compactor" THEN "free" ELSE slot) /\ comp' = NoComp
    BY <1>14 DEF CompactCommit, CompactFails, Release
  <2> QED  BY <1>1, <1>2, <2>1 DEF SlotInv, NoComp
<1> QED  BY <1>4, <1>5, <1>6, <1>7, <1>8, <1>9, <1>10, <1>11, <1>13, <1>14 DEF Next, Compact

(* A step of a worker is one while no other worker has work. *)
LEMMA SlotWorker ==
  ASSUME TypeInv, SlotInv, NEW w \in Workers, Timezone(w)
  PROVE  SlotInv' /\ \A v \in Workers : v # w => work[v].pc = "idle"
<1>1. w # "compactor" /\ w # "free" /\ "compactor" # "free" /\ \A v \in Workers : v # "free" /\ v # "compactor"
  BY RollupAssumption
<1>2. \A v \in Workers : v # w => work'[v] = work[v]
  BY PcFacts
<1>3. slot = w \/ (slot = "free" /\ slot' = w)
  <2>1. CASE ClaimJobs(w)
    BY <2>1 DEF ClaimJobs
  <2>2. CASE ~ClaimJobs(w)
    <3>1. work[w].pc # "idle"
      BY <2>2 DEF Timezone, LockTimezone, TzAggregate, TzDelete, TzInsert, MarkDone, JobFails, WorkEnds, WorkerDies
    <3> QED  BY <3>1 DEF SlotInv
  <2> QED  BY <2>1, <2>2
<1>4. comp.pc = "idle" /\ \A v \in Workers : v # w => work[v].pc = "idle"
  BY <1>1, <1>3 DEF SlotInv
<1>5. comp' = comp
  BY DEF Timezone, ClaimJobs, LockTimezone, TzAggregate, TzDelete, TzInsert, MarkDone, JobFails, WorkEnds, WorkerDies
<1>6. work'[w].pc # "idle" => slot' = w
  <2>1. CASE WorkEnds(w) \/ WorkerDies(w)
    <3>1. work \in [Workers -> Works] /\ work' = [work EXCEPT ![w] = NoWork]
      BY <2>1, TypeParts DEF TypeInv, TasksTyped, WorkEnds, WorkerDies
    <3> QED  BY <3>1 DEF NoWork
  <2>2. CASE ClaimJobs(w)
    BY <2>2 DEF ClaimJobs
  <2>3. CASE ~ClaimJobs(w) /\ ~WorkEnds(w) /\ ~WorkerDies(w)
    <3>1. slot' = slot /\ work[w].pc # "idle"
      BY <2>3 DEF Timezone, LockTimezone, TzAggregate, TzDelete, TzInsert, MarkDone, JobFails, derived
    <3> QED  BY <3>1 DEF SlotInv
  <2> QED  BY <2>1, <2>2, <2>3
<1> QED  BY <1>2, <1>4, <1>5, <1>6 DEF SlotInv

(* The server side keeps covered slots exact.                              *)
LEMMA ExactInvServer ==
  ASSUME JobsInv, ExactInv, [Next]_vars, \A w \in Workers : ~Timezone(w), LoseSession => UNCHANGED slot
  PROVE  ExactInv'
<1>1. UNCHANGED work /\ TypeInv
  BY OthersLeaveWork DEF JobsInv
<1>2. SlotInv'
  BY <1>1, SlotServer DEF ExactInv
<1>3. coverage' \subseteq coverage
  BY CurrentStays
<1>4. ClaimInv'
  BY <1>1, <1>3 DEF ExactInv, ClaimInv, Holds, Running
<1>5. UNCHANGED tz
  <2>1. CASE UNCHANGED vars
    BY <2>1 DEF vars
  <2>2. CASE \E k \in Keys : Accept(k) \/ Flush(k)
    BY <2>2 DEF Accept, Flush, FetchRows, InsertRaw, Delivered, FlushFails, derived
  <2>3. CASE Retraction
    BY <2>3 DEF Retraction, RetractOutbox, RetractSelect, RetractMark, RetractDelete, RetractFails, derived
  <2>4. CASE LoseSession \/ Tick
    BY <2>4 DEF LoseSession, Tick, derived
  <2>5. CASE Repair
    BY <2>5 DEF Repair, RepairRead, RepairMark, RepairInsert, RepairFails, RecheckPricing, derived
  <2>6. CASE Compact
    BY <2>6 DEF Compact, CompactBegin, CompactAggregate, CompactDelete, CompactInsert, CompactCommit,
                CompactFails, derived
  <2>7. CASE \E j \in Jobs : Prewarm(j) \/ PruneJob(j)
    BY <2>7 DEF Prewarm, PruneJob
  <2> QED  BY <2>1, <2>2, <2>3, <2>4, <2>5, <2>6, <2>7 DEF Next
<1>6. EmptyInv'
  BY <1>1, <1>5 DEF ExactInv, EmptyInv
<1>7. ASSUME NEW w \in Workers, NEW t \in Tasks, Holds(w, t), Settled(t.job)', Current(t)'
      PROVE  Settled(t.job) /\ Current(t) /\ Total(t.job)' = Total(t.job)
  <2>1. t.job \in Jobs /\ Below(t.job)
    BY <1>7 DEF Tasks, JobsInv, HeldInv
  <2>2. Current(t) /\ ~(CompactCommit /\ t.job \in JobOf(Compacted))
    BY <1>7, CurrentStays
  <2> QED  BY <1>7, <2>1, <2>2, SettledStays
<1>8. \A w \in Workers : \A t \in Tasks : Running(w) /\ work[w].at = t => Holds(w, t)
  BY DEF Holds
<1>9. RowsNow'
  <2> SUFFICES ASSUME NEW w \in Workers, NEW t \in Tasks, work[w].pc \in {"delete", "insert"}, work[w].at = t,
                      Settled(t.job)', Current(t)'
               PROVE  work[w].rows = Total(t.job)'
    BY <1>1 DEF RowsNow
  <2>1. Settled(t.job) /\ Current(t) /\ Total(t.job)' = Total(t.job)
    BY <1>7, <1>8 DEF Running
  <2> QED  BY <2>1 DEF ExactInv, RowsNow
<1>10. MarkNow'
  <2> SUFFICES ASSUME NEW w \in Workers, NEW t \in Tasks, work[w].pc = "mark", work[w].at = t,
                      Settled(t.job)', Current(t)'
               PROVE  tz[t.job] = Total(t.job)'
    BY <1>1, <1>5 DEF MarkNow
  <2>1. Settled(t.job) /\ Current(t) /\ Total(t.job)' = Total(t.job)
    BY <1>7, <1>8 DEF Running
  <2> QED  BY <2>1 DEF ExactInv, MarkNow
<1>11. CoverNow'
  <2> SUFFICES ASSUME NEW j \in coverage', Settled(j)'  PROVE tz[j] = Total(j)'
    BY <1>5 DEF CoverNow
  <2>1. j \in coverage /\ j \in Jobs /\ Below(j)
    BY <1>1, <1>3, TypeParts DEF TypeInv, DerivedTyped, JobsInv, CoverInv
  <2>2. ~(CompactCommit /\ j \in JobOf(Compacted))
    BY CurrentStays
  <2>3. Settled(j) /\ Total(j)' = Total(j)
    BY <2>1, <2>2, SettledStays
  <2> QED  BY <2>1, <2>3 DEF ExactInv, CoverNow
<1> QED  BY <1>2, <1>4, <1>6, <1>9, <1>10, <1>11 DEF ExactInv

(* A worker takes the job at hand from its list. *)
LEMMA AtLeavesTodo ==
  ASSUME TypeInv, NEW w \in Workers, Timezone(w), Running(w) => work[w].at \notin work[w].todo, Running(w)'
  PROVE  work'[w].at \notin work'[w].todo
<1>1. TypeOK /\ work \in [Workers -> Works]
  BY TypeParts DEF TypeInv, TasksTyped
<1>2. ASSUME NEW pc, NEW todo, NEW at, NEW rows, Sets(w, Worker(pc, todo, at, rows))
      PROVE  work'[w].pc = pc /\ work'[w].at = at /\ work'[w].todo = todo
  <2>1. work'[w] = Worker(pc, todo, at, rows)
    BY <1>1, <1>2 DEF Sets
  <2> QED  BY <2>1, WorkerFacts
<1>3. CASE Computes(w)
  <2>1. \E pc, rows : Sets(w, Worker(pc, work[w].todo, work[w].at, rows))
    BY <1>1, <1>3, TzSteps DEF Computes
  <2>2. work'[w].at = work[w].at /\ work'[w].todo = work[w].todo
    BY <1>2, <2>1
  <2>3. Running(w)
    BY <1>3 DEF Computes, TzAggregate, TzDelete, TzInsert, Running
  <2> QED  BY <2>2, <2>3
<1>4. CASE LockTimezone(w)
  <2>1. \E t : \/ Sets(w, Worker("aggregate", work[w].todo \ {t}, t, work[w].rows))
               \/ Sets(w, Worker("next", work[w].todo \ {t}, work[w].at, work[w].rows))
    BY <1>1, <1>4, LockStep
  <2>2. PICK t : \/ Sets(w, Worker("aggregate", work[w].todo \ {t}, t, work[w].rows))
                 \/ Sets(w, Worker("next", work[w].todo \ {t}, work[w].at, work[w].rows))
    BY <2>1
  <2>3. CASE Sets(w, Worker("aggregate", work[w].todo \ {t}, t, work[w].rows))
    <3>1. work'[w].at = t /\ work'[w].todo = work[w].todo \ {t}
      BY <1>2, <2>3
    <3> QED  BY <3>1
  <2>4. CASE Sets(w, Worker("next", work[w].todo \ {t}, work[w].at, work[w].rows))
    <3>1. work'[w].pc = "next"
      BY <1>2, <2>4
    <3> QED  BY <3>1 DEF Running
  <2> QED  BY <2>2, <2>3, <2>4
<1>5. CASE ~Computes(w) /\ ~LockTimezone(w)
  <2>1. work'[w].pc \in {"idle", "next"} \/ (tzlock = "free" /\ tzlock' = w)
    BY <1>5, PcFacts
  <2>2. w # "free"
    BY RollupAssumption
  <2>3. tzlock' = tzlock \/ tzlock' = "free"
    BY <1>5 DEF Timezone, Computes, ClaimJobs, MarkDone, JobFails, WorkEnds, WorkerDies, Unlock, derived
  <2>4. work'[w].pc \in {"idle", "next"}
    BY <2>1, <2>2, <2>3
  <2> QED  BY <2>4 DEF Running
<1> QED  BY <1>3, <1>4, <1>5

(* The worker that has the slot keeps them exact.                          *)
LEMMA ExactInvWorker ==
  ASSUME JobsInv, ExactInv, NEW w \in Workers, Timezone(w)
  PROVE  ExactInv'
<1>1. TypeInv /\ tz \in [Jobs -> SUBSET Rows]
  BY TypeParts DEF JobsInv, TypeInv, DerivedTyped
<1>2. \A t \in Tasks : t.job \in Jobs
  BY DEF Tasks
<1>3. SlotInv' /\ \A v \in Workers : v # w => work[v].pc = "idle" /\ work'[v] = work[v]
  BY <1>1, SlotWorker, PcFacts DEF ExactInv
<1>4. /\ \A t \in Tasks : Current(t)' <=> Current(t)
      /\ \A j \in Jobs : (Settled(j)' <=> Settled(j)) /\ Total(j)' = Total(j)
  BY <1>1, TimezoneFrame
<1>5. \A v \in Workers : \A t \in Tasks : work[v].pc = "idle" => ~Holds(v, t)
  BY <1>1 DEF TypeInv, WorkInv, Holds, Running
<1>6. \A v \in Workers : v # w => \A t \in Tasks : ~Holds(v, t)'
  BY <1>3, <1>5 DEF Holds, Running
<1>7. Running(w) => work[w].at \in Tasks /\ Holds(w, work[w].at) /\ work[w].at.job \notin coverage
  BY <1>1 DEF TypeInv, WorkInv, Holds, ExactInv, ClaimInv
<1>8. ClaimInv'
  <2>1. \A v \in Workers : Running(v)' => work'[v].at \notin work'[v].todo
    <3>1. Running(w)' => work'[w].at \notin work'[w].todo
      BY <1>1, AtLeavesTodo DEF ExactInv, ClaimInv
    <3> QED  BY <1>3, <3>1 DEF Running
  <2>2. \A t \in Tasks : Holds(w, t)' => t.job \notin coverage'
    <3> SUFFICES ASSUME NEW t \in Tasks, Holds(w, t)', t.job \in coverage'  PROVE FALSE
      OBVIOUS
    <3>1. \/ t.job \in coverage
          \/ work[w].pc = "mark" /\ t.job = work[w].at.job /\ jobs'[t.job].status = "done"
      BY <1>1, TimezoneJobs
    <3>2. CASE Holds(w, t)
      <4>1. t.job \notin coverage
        BY <3>2 DEF ExactInv, ClaimInv
      <4>2. work[w].pc = "mark" /\ t = work[w].at
        BY <1>7, <3>1, <3>2, <4>1 DEF Running, ExactInv, ClaimInv
      <4>3. MarkDone(w)
        <5>1. ~(JobFails(w) \/ WorkerDies(w))
          BY <3>1, <4>1 DEF JobFails, WorkerDies, derived
        <5> QED  BY <4>2, <5>1 DEF Timezone, ClaimJobs, LockTimezone, TzAggregate, TzDelete, TzInsert, WorkEnds
      <4>4. Sets(w, Worker("next", work[w].todo, NoTask, {}))
        BY <1>1, <4>3, TzSteps DEF TypeInv
      <4>5. work'[w] = Worker("next", work[w].todo, NoTask, {})
        <5>1. work \in [Workers -> Works]
          BY <1>1, TypeParts DEF TypeInv, TasksTyped
        <5> QED  BY <4>4, <5>1 DEF Sets
      <4>6. t \in work[w].todo
        BY <4>5, WorkerFacts DEF Holds, Running
      <4> QED  BY <4>2, <4>6 DEF Running, ExactInv, ClaimInv
    <3>3. CASE ClaimJobs(w) /\ Claimable(t.job)
      <4>1. coverage' = coverage /\ jobs[t.job].status \in {"pending", "inflight"}
        BY <3>3 DEF ClaimJobs, Claimable, Stale
      <4> QED  BY <4>1 DEF JobsInv, CoverInv
    <3> QED  BY <1>1, <3>2, <3>3, HoldsMoves
  <2>3. \A t, u \in Tasks : Holds(w, t)' /\ Holds(w, u)' /\ t.job = u.job => t = u
    <3> SUFFICES ASSUME NEW t \in Tasks, NEW u \in Tasks, Holds(w, t)', Holds(w, u)', t.job = u.job
                 PROVE  t = u
      OBVIOUS
    <3>1. CASE ClaimJobs(w)
      <4>1. ~Holds(w, t) /\ ~Holds(w, u)
        BY <1>5, <3>1 DEF ClaimJobs
      <4>2. t.gen = jobs[t.job].gen /\ u.gen = jobs[u.job].gen
        BY <1>1, <4>1, HoldsMoves
      <4> QED  BY <4>2 DEF Tasks
    <3>2. CASE ~ClaimJobs(w)
      BY <1>1, <3>2, HoldsMoves DEF ExactInv, ClaimInv
    <3> QED  BY <3>1, <3>2
  <2> QED  BY <1>6, <2>1, <2>2, <2>3 DEF ClaimInv
<1>9. \A v \in Workers : v # w => work'[v].pc = "idle"
  BY <1>3
<1> DEFINE t0 == work[w].at
<1>10. CASE TzAggregate(w)
  <2>1. work'[w].pc = "delete" /\ work'[w].at = t0 /\ work'[w].rows = Total(t0.job) /\ UNCHANGED <<tz, coverage>>
    BY <1>1, <1>10, PcFacts
  <2>2. t0 \in Tasks /\ t0.job \in Jobs
    BY <1>2, <1>7, <1>10 DEF TzAggregate, Running
  <2> HIDE DEF t0
  <2>3. RowsNow'
    BY <1>4, <1>9, <2>1, <2>2 DEF RowsNow
  <2>4. EmptyInv' /\ MarkNow'
    BY <1>9, <2>1 DEF EmptyInv, MarkNow
  <2>5. \A j \in coverage : j \in Jobs
    BY <1>1, TypeParts DEF TypeInv, DerivedTyped
  <2>6. CoverNow'
    BY <1>4, <2>1, <2>5 DEF ExactInv, CoverNow
  <2> QED  BY <1>3, <1>8, <2>3, <2>4, <2>6 DEF ExactInv
<1>11. CASE TzDelete(w)
  <2>1. /\ work[w].pc = "delete" /\ work'[w].pc = "insert" /\ work'[w].at = t0 /\ work'[w].rows = work[w].rows
        /\ coverage' = coverage /\ tz' = [tz EXCEPT ![t0.job] = {}]
    BY <1>1, <1>11, PcFacts
  <2>2. t0 \in Tasks /\ t0.job \in Jobs /\ t0.job \notin coverage
    BY <1>2, <1>7, <2>1 DEF Running
  <2>3. Settled(t0.job) /\ Current(t0) => work[w].rows = Total(t0.job)
    BY <2>1, <2>2 DEF ExactInv, RowsNow
  <2> HIDE DEF t0
  <2>4. tz'[t0.job] = {} /\ \A j \in Jobs : j # t0.job => tz'[j] = tz[j]
    BY <1>1, <2>1, <2>2
  <2>5. EmptyInv' /\ MarkNow'
    BY <1>9, <2>1, <2>4 DEF EmptyInv, MarkNow
  <2>6. RowsNow'
    BY <1>4, <1>9, <2>1, <2>2, <2>3 DEF RowsNow
  <2>7. \A j \in coverage : j \in Jobs
    BY <1>1, TypeParts DEF TypeInv, DerivedTyped
  <2>8. CoverNow'
    BY <1>4, <2>1, <2>2, <2>4, <2>7 DEF ExactInv, CoverNow
  <2> QED  BY <1>3, <1>8, <2>5, <2>6, <2>8 DEF ExactInv
<1>12. CASE TzInsert(w)
  <2>1. /\ work[w].pc = "insert" /\ work'[w].pc = "mark" /\ work'[w].at = t0
        /\ coverage' = coverage /\ tz' = [tz EXCEPT ![t0.job] = tz[t0.job] \union work[w].rows]
    BY <1>1, <1>12, PcFacts
  <2>2. t0 \in Tasks /\ t0.job \in Jobs /\ t0.job \notin coverage
    BY <1>2, <1>7, <2>1 DEF Running
  <2>3. Settled(t0.job) /\ Current(t0) => work[w].rows = Total(t0.job)
    BY <2>1, <2>2 DEF ExactInv, RowsNow
  <2>4. tz[t0.job] = {}
    BY <2>1, <2>2 DEF ExactInv, EmptyInv
  <2> HIDE DEF t0
  <2>5. tz'[t0.job] = work[w].rows /\ \A j \in Jobs : j # t0.job => tz'[j] = tz[j]
    BY <1>1, <2>1, <2>2, <2>4
  <2>6. EmptyInv' /\ RowsNow'
    BY <1>9, <2>1 DEF EmptyInv, RowsNow
  <2>7. MarkNow'
    BY <1>4, <1>9, <2>1, <2>2, <2>3, <2>5 DEF MarkNow
  <2>8. \A j \in coverage : j \in Jobs
    BY <1>1, TypeParts DEF TypeInv, DerivedTyped
  <2>9. CoverNow'
    BY <1>4, <2>1, <2>2, <2>5, <2>8 DEF ExactInv, CoverNow
  <2> QED  BY <1>3, <1>8, <2>6, <2>7, <2>9 DEF ExactInv
<1>13. CASE ~Computes(w)
  <2>1. work'[w].pc \in {"idle", "next", "aggregate"} /\ tz' = tz
    BY <1>1, <1>13, PcFacts
  <2>2. EmptyInv' /\ RowsNow' /\ MarkNow'
    BY <1>9, <2>1 DEF EmptyInv, RowsNow, MarkNow
  <2>3. CoverNow'
    <3> SUFFICES ASSUME NEW j \in coverage', Settled(j)'  PROVE tz[j] = Total(j)'
      BY <2>1 DEF CoverNow
    <3>1. j \in Jobs
      <4>1. TypeInv'
        BY JobsInvNext DEF JobsInv, Next
      <4> QED  BY <4>1, TypeParts DEF TypeInv, DerivedTyped
    <3>2. Settled(j) /\ Total(j)' = Total(j)
      BY <1>4, <3>1
    <3>3. CASE j \in coverage
      BY <3>2, <3>3 DEF ExactInv, CoverNow
    <3>4. CASE j \notin coverage
      <4>1. work[w].pc = "mark" /\ j = work[w].at.job /\ Current(work[w].at)
        BY <1>1, <3>4, TimezoneJobs
      <4>2. work[w].at \in Tasks
        BY <1>7, <4>1 DEF Running
      <4> QED  BY <3>2, <4>1, <4>2 DEF ExactInv, MarkNow
    <3> QED  BY <3>3, <3>4
  <2> QED  BY <1>3, <1>8, <2>2, <2>3 DEF ExactInv
<1> QED  BY <1>10, <1>11, <1>12, <1>13 DEF Computes

(* While the slot is not lost covered slots stay exact.                    *)
LEMMA ExactInvAlways ==
  Spec /\ [][LoseSession => UNCHANGED slot]_vars => []ExactInv
<1>1. JobsInv /\ ExactInv /\ [Next]_vars /\ [LoseSession => UNCHANGED slot]_vars => ExactInv'
  <2> SUFFICES ASSUME JobsInv, ExactInv, [Next]_vars, [LoseSession => UNCHANGED slot]_vars
               PROVE  ExactInv'
    OBVIOUS
  <2>1. CASE \E w \in Workers : Timezone(w)
    BY <2>1, ExactInvWorker
  <2>2. CASE \A w \in Workers : ~Timezone(w)
    <3>1. LoseSession => UNCHANGED slot
      BY DEF vars
    <3> QED  BY <2>2, <3>1, ExactInvServer
  <2> QED  BY <2>1, <2>2
<1> QED  BY <1>1, ExactInvInit, JobsInvAlways, PTL DEF Spec

(* As long as no session is lost together with the load slot, a timezone   *)
(* bucket that is served is the sum of its 15 minute buckets, whatever     *)
(* fails, dies, is invalidated or repeated in between.                     *)
THEOREM CoveredAlwaysExact ==
  Spec /\ [][LoseSession => UNCHANGED slot]_vars => []CoveredExact
<1>1. ExactInv => CoveredExact
  BY DEF CoveredExact, ExactInv, CoverNow, Total
<1> QED  BY <1>1, ExactInvAlways, PTL

-----------------------------------------------------------------------------
(* The 15 minute rollup.                                                   *)

(* A change of a bucket is pending with a flush, a retraction or a repair. *)
FlushPending(b) == \E k \in Keys : /\ BucketOf[k] = b
                                   /\ held[k] = "sent" \/ (outbox[k] = "pending" /\ k \in tokens)
RetractPending(b) == \/ rec.pc \in {"select", "mark"} /\ rec.had /\ b \in BucketsOf(rec.keys)
                     \/ rec.pc = "remark" /\ b \in BucketsOf(rec.keys)
RepairPending(b) == rep.pc = "remark" /\ b \in BucketsOf(rep.keys)

(* A change that will mark the bucket is a flush, a retraction or a        *)
(* repair.                                                                 *)
LEMMA PendingParts ==
  ASSUME NEW b
  PROVE  /\ ChangePending(b) <=> FlushPending(b) \/ RetractPending(b) \/ RepairPending(b)
         /\ ChangePending(b)' <=> FlushPending(b)' \/ RetractPending(b)' \/ RepairPending(b)'
<1>1. ChangePending(b) <=> FlushPending(b) \/ RetractPending(b) \/ RepairPending(b)
  BY DEF ChangePending, FlushPending, RetractPending, RepairPending
<1>2. ChangePending(b)' <=> FlushPending(b)' \/ RetractPending(b)' \/ RepairPending(b)'
  BY DEF ChangePending, FlushPending, RetractPending, RepairPending
<1> QED  BY <1>1, <1>2

(* A bucket is marked, and noted as overlapped when a compaction has it. *)
Marked(b) == b \in dirty' /\ (comp.pc # "idle" /\ b \in Compacted => b \in overlapped')

(* What every step but the compactor's does to a bucket: marks stay, and a *)
(* change that is no longer pending is marked.                             *)
BucketStep(b) ==
  /\ b \in dirty => b \in dirty'
  /\ b \in overlapped => b \in overlapped'
  /\ b \in dirty' => b \in dirty \/ Marked(b)
  /\ ~ChangePending(b)' => Marked(b) \/ (~ChangePending(b) /\ Aggregate(b)' = Aggregate(b))

(* What marking buckets does to one of them.                               *)
LEMMA MarkingFacts ==
  ASSUME NEW bs, MarkDirty(bs), NEW b
  PROVE  /\ b \in bs => Marked(b)
         /\ b \in dirty => b \in dirty'
         /\ b \in overlapped => b \in overlapped'
         /\ b \in dirty' => b \in dirty \/ Marked(b)
<1> QED  BY DEF MarkDirty, Marked, Compacted

(* The aggregate of a bucket is that of its own events.                    *)
LEMMA AggregateStays ==
  ASSUME NEW b, \A k \in Keys : BucketOf[k] = b => raw'[k] = raw[k]
  PROVE  Aggregate(b)' = Aggregate(b)
<1>1. {x \in Keys : BucketOf[x] = b /\ raw'[x] # 0} = {x \in Keys : BucketOf[x] = b /\ raw[x] # 0}
  OBVIOUS
<1>2. \A k \in {x \in Keys : BucketOf[x] = b /\ raw[x] # 0} : raw'[k] = raw[k]
  OBVIOUS
<1> QED  BY <1>1, <1>2 DEF Aggregate

(* What was sent was sent under its token. *)
SentInv == \A k \in Keys : held[k] = "sent" => k \in tokens

(* A flush does it, unless it fails after the insert for a row of the      *)
(* bucket that was taken from the outbox meanwhile.                        *)
LEMMA FlushMarks ==
  ASSUME TypeInv, SentInv, NEW k \in Keys, Accept(k) \/ Flush(k), NEW b \in Buckets,
         BucketOf[k] = b /\ FlushFails(k) /\ held[k] = "sent" => outbox[k] = "pending" \/ Delivered(k)
  PROVE  BucketStep(b)
<1>1. /\ outbox \in [Keys -> {"none", "pending", "delivered", "gone"}]
      /\ held \in [Keys -> {"no", "rows", "sent"}] /\ raw \in [Keys -> 0..2]
  BY TypeParts DEF TypeInv, BaseTyped
<1>2. CASE Delivered(k)
  <2>1. MarkDirty({BucketOf[k]}) /\ UNCHANGED <<raw, rec, rep, tokens>>
    BY <1>2 DEF Delivered
  <2>2. /\ b = BucketOf[k] => Marked(b)
        /\ b \in dirty => b \in dirty'
        /\ b \in overlapped => b \in overlapped'
        /\ b \in dirty' => b \in dirty \/ Marked(b)
    BY <2>1, MarkingFacts
  <2>3. Aggregate(b)' = Aggregate(b)
    BY <2>1, AggregateStays
  <2>4. (RetractPending(b)' <=> RetractPending(b)) /\ (RepairPending(b)' <=> RepairPending(b))
    BY <2>1 DEF RetractPending, RepairPending
  <2>5. b # BucketOf[k] => (FlushPending(b) => FlushPending(b)')
    BY <1>1, <1>2, <2>1 DEF Delivered, FlushPending
  <2> QED  BY <2>2, <2>3, <2>4, <2>5, PendingParts DEF BucketStep
<1>3. ASSUME UNCHANGED <<dirty, overlapped, rec, rep>>, FlushPending(b) => FlushPending(b)',
             ~FlushPending(b)' => Aggregate(b)' = Aggregate(b)
      PROVE  BucketStep(b)
  <2>1. (RetractPending(b)' <=> RetractPending(b)) /\ (RepairPending(b)' <=> RepairPending(b))
    BY <1>3 DEF RetractPending, RepairPending
  <2> QED  BY <1>3, <2>1, PendingParts DEF BucketStep
<1>4. CASE Accept(k) \/ FetchRows(k)
  <2>1. UNCHANGED <<dirty, overlapped, rec, rep, raw, tokens>>
    BY <1>4 DEF Accept, FetchRows, derived, history
  <2>2. FlushPending(b) => FlushPending(b)'
    BY <1>1, <1>4, <2>1 DEF Accept, FetchRows, FlushPending
  <2> QED  BY <1>3, <2>1, <2>2, AggregateStays
<1>5. CASE InsertRaw(k)
  <2>1. UNCHANGED <<dirty, overlapped, rec, rep>>
    BY <1>5 DEF InsertRaw, derived, history
  <2>2. FlushPending(b) => FlushPending(b)'
    BY <1>1, <1>5 DEF InsertRaw, FlushPending
  <2>3. ~FlushPending(b)' => BucketOf[k] # b
    BY <1>1, <1>5 DEF InsertRaw, FlushPending
  <2>4. BucketOf[k] # b => Aggregate(b)' = Aggregate(b)
    <3>1. \A i \in Keys : i # k => raw'[i] = raw[i]
      BY <1>1, <1>5 DEF InsertRaw
    <3> QED  BY <3>1, AggregateStays
  <2> QED  BY <1>3, <2>1, <2>2, <2>3, <2>4
<1>6. CASE FlushFails(k) /\ ~Delivered(k)
  <2>1. UNCHANGED <<dirty, overlapped, rec, rep, raw, tokens, outbox>>
    BY <1>6 DEF FlushFails, derived, history
  <2>2. held' = [held EXCEPT ![k] = "no"]
    BY <1>6 DEF FlushFails
  <2>3. BucketOf[k] = b /\ held[k] = "sent" => outbox[k] = "pending" /\ k \in tokens
    BY <1>6 DEF SentInv
  <2>4. FlushPending(b) => FlushPending(b)'
    BY <1>1, <2>1, <2>2, <2>3 DEF FlushPending
  <2> QED  BY <1>3, <2>1, <2>4, AggregateStays
<1> QED  BY <1>2, <1>4, <1>5, <1>6 DEF Flush

(* A retraction does it: the mark before the delete and the mark after it  *)
(* are one step each, and it is not killed while it has to mark the bucket.*)
LEMMA RetractionMarks ==
  ASSUME TypeInv, Retraction, NEW b \in Buckets, RetractFails => ~RetractPending(b)
  PROVE  BucketStep(b)
<1>1. /\ outbox \in [Keys -> {"none", "pending", "delivered", "gone"}]
      /\ raw \in [Keys -> 0..2] /\ rec \in Recs
  BY TypeParts DEF TypeInv, BaseTyped, TasksTyped
<1>2. CASE RetractMark
  <2>1. /\ MarkDirty(BucketsOf(rec.keys)) /\ UNCHANGED <<raw, rep, tokens, held, outbox>>
        /\ rec' = [rec EXCEPT !.pc = "delete"] \/ rec' = NoRec
    BY <1>2 DEF RetractMark, base
  <2>2. /\ b \in BucketsOf(rec.keys) => Marked(b)
        /\ b \in dirty => b \in dirty'
        /\ b \in overlapped => b \in overlapped'
        /\ b \in dirty' => b \in dirty \/ Marked(b)
    BY <2>1, MarkingFacts
  <2>3. Aggregate(b)' = Aggregate(b)
    BY <2>1, AggregateStays
  <2>4. (FlushPending(b)' <=> FlushPending(b)) /\ (RepairPending(b)' <=> RepairPending(b))
    BY <2>1 DEF FlushPending, RepairPending
  <2>5. RetractPending(b) => b \in BucketsOf(rec.keys)
    BY DEF RetractPending
  <2> QED  BY <2>2, <2>3, <2>4, <2>5, PendingParts DEF BucketStep
<1>3. ASSUME UNCHANGED <<dirty, overlapped, rep, tokens, held>>, ChangePending(b) => ChangePending(b)',
             ~RetractPending(b)' => Aggregate(b)' = Aggregate(b)
      PROVE  BucketStep(b)
  BY <1>3, PendingParts DEF BucketStep
<1>4. ASSUME NEW k \in Keys, RetractOutbox(k)  PROVE BucketStep(b)
  <2>1. UNCHANGED <<dirty, overlapped, rep, tokens, held, raw>>
    BY <1>4 DEF RetractOutbox, derived, history
  <2>2. /\ rec' = [pc |-> "select", keys |-> {k}, had |-> outbox[k] # "gone"] /\ rec.pc = "idle"
        /\ outbox' = [outbox EXCEPT ![k] = "gone"]
    BY <1>4 DEF RetractOutbox
  <2>3. ~RetractPending(b)
    BY <2>2 DEF RetractPending
  <2>4. RepairPending(b)' <=> RepairPending(b)
    BY <2>1 DEF RepairPending
  <2>5. FlushPending(b) => FlushPending(b)' \/ RetractPending(b)'
    <3> SUFFICES ASSUME NEW i \in Keys, BucketOf[i] = b,
                        held[i] = "sent" \/ (outbox[i] = "pending" /\ i \in tokens)
                 PROVE  FlushPending(b)' \/ RetractPending(b)'
      BY DEF FlushPending
    <3>1. CASE held[i] = "sent" \/ i # k
      BY <1>1, <2>1, <2>2, <3>1 DEF FlushPending
    <3>2. CASE outbox[i] = "pending" /\ i = k
      <4>1. rec'.pc = "select" /\ rec'.keys = {k} /\ (rec'.had <=> outbox[k] # "gone")
        BY <2>2
      <4>2. rec'.had
        BY <3>2, <4>1
      <4>3. b \in BucketsOf(rec'.keys)
        BY <3>2, <4>1 DEF BucketsOf
      <4> QED  BY <4>1, <4>2, <4>3 DEF RetractPending, BucketsOf
    <3> QED  BY <3>1, <3>2
  <2> QED  BY <1>3, <2>1, <2>3, <2>4, <2>5, PendingParts, AggregateStays
<1>5. CASE RetractSelect
  <2>1. UNCHANGED <<dirty, overlapped, rep, tokens, held, raw, outbox>>
    BY <1>5 DEF RetractSelect, derived, base
  <2>2. /\ rec.pc = "select"
        /\ rec' = [rec EXCEPT !.pc = "mark"] \/ (rec' = NoRec /\ ~rec.had)
    BY <1>5 DEF RetractSelect
  <2>3. RetractPending(b) => RetractPending(b)'
    <3>1. CASE rec' = [rec EXCEPT !.pc = "mark"]
      <4>1. rec'.pc = "mark" /\ rec'.keys = rec.keys /\ rec'.had = rec.had
        BY <1>1, <3>1 DEF Recs
      <4> QED  BY <2>2, <4>1 DEF RetractPending, BucketsOf
    <3>2. CASE rec' = NoRec /\ ~rec.had
      BY <2>2, <3>2 DEF RetractPending
    <3> QED  BY <2>2, <3>1, <3>2
  <2>4. (FlushPending(b)' <=> FlushPending(b)) /\ (RepairPending(b)' <=> RepairPending(b))
    BY <2>1 DEF FlushPending, RepairPending
  <2> QED  BY <1>3, <2>1, <2>3, <2>4, PendingParts, AggregateStays
<1>6. CASE RetractDelete
  <2>1. UNCHANGED <<dirty, overlapped, rep, tokens, held, outbox>>
    BY <1>6 DEF RetractDelete, derived, history
  <2>2. /\ rec.pc = "delete" /\ rec' = [rec EXCEPT !.pc = "remark"]
        /\ raw' = [k \in Keys |-> IF k \in rec.keys THEN 0 ELSE raw[k]]
    BY <1>6 DEF RetractDelete
  <2>3. ~RetractPending(b)
    BY <2>2 DEF RetractPending
  <2>4. (FlushPending(b)' <=> FlushPending(b)) /\ (RepairPending(b)' <=> RepairPending(b))
    BY <2>1 DEF FlushPending, RepairPending
  <2>5. rec'.pc = "remark" /\ rec'.keys = rec.keys
    BY <1>1, <2>2 DEF Recs
  <2>6. ~RetractPending(b)' => \A k \in Keys : BucketOf[k] = b => raw'[k] = raw[k]
    BY <2>2, <2>5 DEF RetractPending, BucketsOf
  <2> QED  BY <1>3, <2>1, <2>3, <2>4, <2>6, PendingParts, AggregateStays
<1>7. CASE RetractFails
  <2>1. UNCHANGED <<dirty, overlapped, rep, tokens, held, raw, outbox>> /\ ~RetractPending(b)
    BY <1>7 DEF RetractFails, derived, base
  <2>2. (FlushPending(b)' <=> FlushPending(b)) /\ (RepairPending(b)' <=> RepairPending(b))
    BY <2>1 DEF FlushPending, RepairPending
  <2> QED  BY <1>3, <2>1, <2>2, PendingParts, AggregateStays
<1> QED  BY <1>2, <1>4, <1>5, <1>6, <1>7 DEF Retraction

(* A pricing repair does it, if it is not killed before its second mark.   *)
LEMMA RepairMarks ==
  ASSUME TypeInv, Repair, NEW b \in Buckets, RepairFails => ~RepairPending(b)
  PROVE  BucketStep(b)
<1>1. raw \in [Keys -> 0..2] /\ rep \in Reps
  BY TypeParts DEF TypeInv, BaseTyped, TasksTyped
<1>2. UNCHANGED <<outbox, held, tokens, rec>>
  BY DEF Repair, RepairRead, RepairMark, RepairInsert, RepairFails, RecheckPricing, base
<1>3. (FlushPending(b)' <=> FlushPending(b)) /\ (RetractPending(b)' <=> RetractPending(b))
  BY <1>2 DEF FlushPending, RetractPending
<1>4. CASE RepairMark
  <2>1. MarkDirty(BucketsOf(rep.keys)) /\ UNCHANGED raw
    BY <1>4 DEF RepairMark, base
  <2>2. /\ b \in BucketsOf(rep.keys) => Marked(b)
        /\ b \in dirty => b \in dirty'
        /\ b \in overlapped => b \in overlapped'
        /\ b \in dirty' => b \in dirty \/ Marked(b)
    BY <2>1, MarkingFacts
  <2>3. Aggregate(b)' = Aggregate(b)
    BY <2>1, AggregateStays
  <2>4. RepairPending(b) => b \in BucketsOf(rep.keys)
    BY DEF RepairPending
  <2> QED  BY <1>3, <2>2, <2>3, <2>4, PendingParts DEF BucketStep
<1>5. CASE RecheckPricing
  <2>1. MarkDirty(Mispriced) /\ UNCHANGED <<raw, rep>>
    BY <1>5 DEF RecheckPricing, base
  <2>2. /\ b \in dirty => b \in dirty'
        /\ b \in overlapped => b \in overlapped'
        /\ b \in dirty' => b \in dirty \/ Marked(b)
    BY <2>1, MarkingFacts
  <2>3. Aggregate(b)' = Aggregate(b) /\ (RepairPending(b)' <=> RepairPending(b))
    BY <2>1, AggregateStays DEF RepairPending
  <2> QED  BY <1>3, <2>2, <2>3, PendingParts DEF BucketStep
<1>6. CASE RepairRead
  <2>1. UNCHANGED <<dirty, overlapped, raw>> /\ rep.pc = "idle"
    BY <1>6 DEF RepairRead, base, derived, history
  <2> QED  BY <1>3, <2>1, PendingParts, AggregateStays DEF BucketStep, RepairPending
<1>7. CASE RepairInsert
  <2>1. UNCHANGED <<dirty, overlapped>> /\ rep.pc = "insert" /\ rep' = [rep EXCEPT !.pc = "remark"]
    BY <1>7 DEF RepairInsert, derived, history
  <2>2. rep'.pc = "remark" /\ rep'.keys = rep.keys
    BY <1>1, <2>1 DEF Reps
  <2>3. raw' = [k \in Keys |-> IF k \in rep.keys THEN 2 ELSE raw[k]]
    BY <1>7 DEF RepairInsert
  <2>4. ~RepairPending(b)' => \A k \in Keys : BucketOf[k] = b => raw'[k] = raw[k]
    BY <2>2, <2>3 DEF RepairPending, BucketsOf
  <2> QED  BY <1>3, <2>1, <2>4, PendingParts, AggregateStays DEF BucketStep, RepairPending
<1>8. CASE RepairFails
  <2>1. UNCHANGED <<dirty, overlapped, raw>> /\ ~RepairPending(b)
    BY <1>8 DEF RepairFails, base, derived
  <2> QED  BY <1>3, <2>1, PendingParts, AggregateStays DEF BucketStep
<1> QED  BY <1>4, <1>5, <1>6, <1>7, <1>8 DEF Repair

(* Nobody leaves bucket b changed without a mark: no retraction and no     *)
(* repair is killed while it still has to mark it, and no flush fails      *)
(* after its insert for a row of it that a retraction took from the        *)
(* outbox.                                                                 *)
SteadyAt(b) ==
  /\ RetractFails => ~RetractPending(b)
  /\ RepairFails => ~RepairPending(b)
  /\ \A k \in Keys : BucketOf[k] = b /\ FlushFails(k) /\ held[k] = "sent"
                     => outbox[k] = "pending" \/ Delivered(k)

(* A compaction that takes b as a new bucket takes the mark it has.        *)
MarkFits(b) == CompactBegin /\ b \in FreshShare /\ b \in dirty => b \in DirtyShare

(* Nothing but the compactor changes the rollup, and it alone takes marks. *)
LEMMA OthersMark ==
  ASSUME TypeInv, SentInv, [Next]_vars, NEW b \in Buckets, SteadyAt(b) \/ UNCHANGED vars, ~Compact
  PROVE  UNCHANGED <<rollup, watermark, comp>> /\ BucketStep(b)
<1>1. ASSUME UNCHANGED <<outbox, held, tokens, raw, rec, rep, dirty, overlapped>>
      PROVE  BucketStep(b)
  <2>1. ChangePending(b)' <=> ChangePending(b)
    BY <1>1 DEF ChangePending
  <2> QED  BY <1>1, <2>1, AggregateStays DEF BucketStep
<1>2. CASE UNCHANGED vars
  BY <1>1, <1>2 DEF vars
<1>3. CASE SteadyAt(b) /\ \E k \in Keys : Accept(k) \/ Flush(k)
  <2>1. PICK k \in Keys : Accept(k) \/ Flush(k)
    BY <1>3
  <2>2. BucketStep(b)
    BY <1>3, <2>1, FlushMarks DEF SteadyAt
  <2>3. UNCHANGED <<rollup, watermark, comp>>
    BY <2>1 DEF Accept, Flush, FetchRows, InsertRaw, Delivered, FlushFails, derived
  <2> QED  BY <2>2, <2>3
<1>4. CASE SteadyAt(b) /\ Retraction
  <2>1. UNCHANGED <<rollup, watermark, comp>>
    BY <1>4 DEF Retraction, RetractOutbox, RetractSelect, RetractMark, RetractDelete, RetractFails, derived
  <2> QED  BY <1>4, <2>1, RetractionMarks DEF SteadyAt
<1>5. CASE SteadyAt(b) /\ Repair
  <2>1. UNCHANGED <<rollup, watermark, comp>>
    BY <1>5 DEF Repair, RepairRead, RepairMark, RepairInsert, RepairFails, RecheckPricing, derived
  <2> QED  BY <1>5, <2>1, RepairMarks DEF SteadyAt
<1>6. CASE LoseSession \/ Tick
  BY <1>1, <1>6 DEF LoseSession, Tick, base, derived, history
<1>7. CASE \E j \in Jobs : Prewarm(j) \/ PruneJob(j)
  BY <1>1, <1>7 DEF Prewarm, PruneJob, base, history
<1>8. CASE \E w \in Workers : Timezone(w)
  BY <1>1, <1>8 DEF Timezone, ClaimJobs, LockTimezone, TzAggregate, TzDelete, TzInsert, MarkDone, JobFails,
                    WorkEnds, WorkerDies, base, derived, history
<1> QED  BY <1>2, <1>3, <1>4, <1>5, <1>6, <1>7, <1>8 DEF Next

(* A bucket without a pending change, and one that is not dirty either.    *)
Quiet(b) == b \notin overlapped /\ ~ChangePending(b)
Calm(b)  == b \notin dirty /\ Quiet(b)

(* A calm bucket holds no row that the raw events do not give, and below   *)
(* the watermark all of them; the compaction under way will keep it so.    *)
CalmAt(b) == Calm(b) => /\ rollup[b] \subseteq Aggregate(b)
                        /\ b < watermark => rollup[b] = Aggregate(b)
TakenAt(b) == comp.pc # "idle" =>
                /\ Calm(b) /\ b < comp.to /\ b \notin Compacted => rollup[b] = Aggregate(b)
                /\ b \in comp.fresh /\ b \in dirty => b \in comp.dirty \/ b \in overlapped
AggregatedAt(b) ==
  comp.pc \in {"delete", "insert"} /\ b \in Compacted /\ Quiet(b) => comp.rows[b] = Aggregate(b)
DeletedAt(b) == comp.pc = "insert" /\ b \in comp.dirty => rollup[b] = {}
WrittenAt(b) == comp.pc = "commit" /\ b \in Compacted /\ Quiet(b) => rollup[b] = Aggregate(b)

ServedAt(b) == CalmAt(b) /\ TakenAt(b) /\ AggregatedAt(b) /\ DeletedAt(b) /\ WrittenAt(b)

(* No bucket is served at the start.                                       *)
LEMMA ServedInvInit == Init => SentInv /\ \A b \in Buckets : ServedAt(b)
<1> SUFFICES ASSUME Init  PROVE SentInv /\ \A b \in Buckets : ServedAt(b)
  OBVIOUS
<1>1. comp.pc = "idle"
  BY DEF Init, NoComp
<1>2. \A b \in Buckets : rollup[b] = {} /\ ~(b < watermark)
  BY RollupAssumption DEF Init, Buckets, NoMark
<1> QED  BY <1>1, <1>2 DEF Init, ServedAt, SentInv, CalmAt, TakenAt, AggregatedAt, DeletedAt, WrittenAt

(* What was sent keeps its token. *)
LEMMA SentInvNext ==
  ASSUME TypeInv, SentInv, [Next]_vars
  PROVE  SentInv'
<1>1. held \in [Keys -> {"no", "rows", "sent"}]
  BY TypeParts DEF TypeInv, BaseTyped
<1>2. ASSUME UNCHANGED <<held, tokens>>  PROVE SentInv'
  BY <1>2 DEF SentInv
<1>3. CASE UNCHANGED vars
  BY <1>2, <1>3 DEF vars
<1>4. CASE \E k \in Keys : Accept(k) \/ Flush(k)
  BY <1>1, <1>4 DEF Accept, Flush, FetchRows, InsertRaw, Delivered, FlushFails, SentInv
<1>5. CASE Retraction
  BY <1>2, <1>5 DEF Retraction, RetractOutbox, RetractSelect, RetractMark, RetractDelete, RetractFails, base
<1>6. CASE LoseSession \/ Tick
  BY <1>2, <1>6 DEF LoseSession, Tick, base
<1>7. CASE Repair
  BY <1>2, <1>7 DEF Repair, RepairRead, RepairMark, RepairInsert, RepairFails, RecheckPricing, base
<1>8. CASE Compact
  BY <1>2, <1>8 DEF Compact, CompactBegin, CompactAggregate, CompactDelete, CompactInsert, CompactCommit,
                    CompactFails, base
<1>9. CASE \E j \in Jobs : Prewarm(j) \/ PruneJob(j)
  BY <1>2, <1>9 DEF Prewarm, PruneJob, base
<1>10. CASE \E w \in Workers : Timezone(w)
  BY <1>2, <1>10 DEF Timezone, ClaimJobs, LockTimezone, TzAggregate, TzDelete, TzInsert, MarkDone, JobFails,
                     WorkEnds, WorkerDies, base
<1> QED  BY <1>3, <1>4, <1>5, <1>6, <1>7, <1>8, <1>9, <1>10 DEF Next

(* While the others write, what is calm or quiet now was so before. *)
LEMMA ServedInvOthers ==
  ASSUME TypeInv, SentInv, [Next]_vars, NEW b \in Buckets, ServedAt(b), SteadyAt(b) \/ UNCHANGED vars, ~Compact
  PROVE  ServedAt(b)'
<1>1. UNCHANGED <<rollup, watermark, comp>> /\ BucketStep(b)
  BY OthersMark
<1>2. Compacted' = Compacted
  BY <1>1 DEF Compacted
<1>3. Calm(b)' => Calm(b) /\ Aggregate(b)' = Aggregate(b)
  BY <1>1 DEF BucketStep, Marked, Calm, Quiet
<1>4. comp.pc # "idle" /\ b \in Compacted /\ Quiet(b)' => Quiet(b) /\ Aggregate(b)' = Aggregate(b)
  BY <1>1 DEF BucketStep, Marked, Quiet
<1>5. CalmAt(b)'
  BY <1>1, <1>3 DEF ServedAt, CalmAt
<1>6. TakenAt(b)'
  <2> SUFFICES ASSUME comp.pc # "idle"
               PROVE  /\ Calm(b)' /\ b < comp.to /\ b \notin Compacted => rollup[b] = Aggregate(b)'
                      /\ b \in comp.fresh /\ b \in dirty' => b \in comp.dirty \/ b \in overlapped'
    BY <1>1, <1>2 DEF TakenAt
  <2>1. Calm(b)' /\ b < comp.to /\ b \notin Compacted => rollup[b] = Aggregate(b)'
    BY <1>3 DEF ServedAt, TakenAt
  <2>2. b \in comp.fresh /\ b \in dirty' => b \in comp.dirty \/ b \in overlapped'
    BY <1>1 DEF BucketStep, Marked, Compacted, ServedAt, TakenAt
  <2> QED  BY <2>1, <2>2
<1>7. AggregatedAt(b)' /\ DeletedAt(b)' /\ WrittenAt(b)'
  BY <1>1, <1>2, <1>4 DEF ServedAt, AggregatedAt, DeletedAt, WrittenAt
<1> QED  BY <1>5, <1>6, <1>7 DEF ServedAt

(* The compactor leaves the raw events and what is pending alone. *)
LEMMA CompactFrame ==
  ASSUME Compact, NEW b
  PROVE  (ChangePending(b)' <=> ChangePending(b)) /\ Aggregate(b)' = Aggregate(b)
<1>1. UNCHANGED <<outbox, held, tokens, raw, rec, rep>>
  BY DEF Compact, CompactBegin, CompactAggregate, CompactDelete, CompactInsert, CompactCommit, CompactFails, base
<1>2. ChangePending(b)' <=> ChangePending(b)
  BY <1>1 DEF ChangePending
<1> QED  BY <1>1, <1>2, AggregateStays

(* A compaction takes buckets, empties the dirty ones, writes all of them  *)
(* and only then moves the watermark and removes the marks.                *)
LEMMA ServedInvCompact ==
  ASSUME JobsInv, SentInv, Compact, NEW b \in Buckets, ServedAt(b), MarkFits(b) \/ UNCHANGED vars
  PROVE  ServedAt(b)'
<1>1. TypeInv /\ TypeOK /\ CompInv /\ comp \in Comps /\ rollup \in [Buckets -> SUBSET Rows]
  BY TypeParts DEF JobsInv, TypeInv, TasksTyped, DerivedTyped
<1>2. (ChangePending(b)' <=> ChangePending(b)) /\ Aggregate(b)' = Aggregate(b)
  BY CompactFrame
<1>3. Calm(b) => /\ rollup[b] \subseteq Aggregate(b)
                 /\ b < watermark => rollup[b] = Aggregate(b)
  BY DEF ServedAt, CalmAt
<1>4. CASE CompactBegin
  <2>1. /\ Mark \in 0..NBuckets /\ (watermark # NoMark => Mark = watermark) /\ NBuckets \in Nat
        /\ watermark = NoMark => \A k \in Keys : raw[k] # 0 => BucketOf[k] >= Mark
        /\ raw \in [Keys -> 0..2]
    BY <1>1, MarkFacts, TypeParts, RollupAssumption DEF BaseTyped
  <2>2. Calm(b) /\ b < Mark => rollup[b] = Aggregate(b)
    <3> SUFFICES ASSUME Calm(b), b < Mark  PROVE rollup[b] = Aggregate(b)
      OBVIOUS
    <3>1. CASE watermark # NoMark
      BY <1>3, <2>1, <3>1
    <3>2. CASE watermark = NoMark
      <4>1. \A k \in Keys : BucketOf[k] = b => raw[k] = 0
        BY <2>1, <3>2 DEF Buckets
      <4>2. Aggregate(b) = {}
        BY <2>1, <4>1, AggregateFacts
      <4> QED  BY <1>3, <4>2
    <3> QED  BY <3>1, <3>2
  <2>3. UNCHANGED <<rollup, dirty>> /\ overlapped' = overlapped \ DirtyShare
    BY <1>4 DEF CompactBegin
  <2>4. DirtyShare \subseteq dirty
    BY <1>1, FreshFacts
  <2>5. Calm(b)' => Calm(b)
    BY <1>2, <2>3, <2>4 DEF Calm, Quiet
  <2>6. watermark' \in {watermark, Mark}
    BY <1>4 DEF CompactBegin
  <2>7. CalmAt(b)'
    BY <1>2, <1>3, <2>2, <2>3, <2>5, <2>6 DEF CalmAt
  <2>8. comp.pc = "idle"
    BY <1>4 DEF CompactBegin
  <2>9. CASE comp' = comp
    BY <2>7, <2>8, <2>9 DEF ServedAt, TakenAt, AggregatedAt, DeletedAt, WrittenAt
  <2>10. CASE comp' # comp
    <3> DEFINE to == Mark + Cardinality(FreshShare)
    <3>1. Mark <= b /\ b < to => b \in FreshShare
      BY <1>1, FreshFacts
    <3>2. MarkFits(b)
      BY <2>10 DEF vars
    <3>3. b \in FreshShare /\ b \in dirty => b \in DirtyShare
      BY <1>4, <3>2 DEF MarkFits
    <3>4. comp' = [NoComp EXCEPT !.pc = "aggregate", !.dirty = DirtyShare, !.fresh = FreshShare, !.to = to]
      BY <1>4, <2>10 DEF CompactBegin
    <3> HIDE DEF to
    <3>5. comp'.pc = "aggregate" /\ comp'.dirty = DirtyShare /\ comp'.fresh = FreshShare /\ comp'.to = to
      BY <3>4 DEF NoComp
    <3>6. b < to /\ b \notin FreshShare => b < Mark
      BY <2>1, <3>1 DEF Buckets
    <3>7. Calm(b)' /\ b < to /\ b \notin FreshShare => rollup'[b] = Aggregate(b)'
      BY <1>2, <2>2, <2>3, <2>5, <3>6
    <3>8. TakenAt(b)'
      BY <2>3, <3>3, <3>5, <3>7 DEF TakenAt, Compacted
    <3> QED  BY <2>7, <3>5, <3>8 DEF ServedAt, AggregatedAt, DeletedAt, WrittenAt
  <2> QED  BY <2>9, <2>10
<1>5. CASE CompactAggregate
  <2> DEFINE rows == [c \in Buckets |-> IF c \in Compacted THEN Aggregate(c) ELSE {}]
  <2>1. comp' = [comp EXCEPT !.pc = "delete", !.rows = rows] /\ comp.pc = "aggregate"
    BY <1>5 DEF CompactAggregate
  <2>2. UNCHANGED <<rollup, dirty, watermark, overlapped>>
    BY <1>5 DEF CompactAggregate, derived, history
  <2>3. b \in Compacted => rows[b] = Aggregate(b)
    OBVIOUS
  <2> HIDE DEF rows
  <2>4. /\ comp'.pc = "delete" /\ comp'.dirty = comp.dirty /\ comp'.fresh = comp.fresh /\ comp'.to = comp.to
        /\ comp'.rows = rows
    BY <1>1, <2>1 DEF Comps
  <2>5. (Calm(b)' <=> Calm(b)) /\ (Quiet(b)' <=> Quiet(b))
    BY <1>2, <2>2 DEF Calm, Quiet
  <2>6. CalmAt(b)'
    BY <1>2, <1>3, <2>2, <2>5 DEF CalmAt
  <2>7. TakenAt(b)'
    BY <1>2, <2>1, <2>2, <2>4, <2>5 DEF ServedAt, TakenAt, Compacted
  <2>8. AggregatedAt(b)'
    BY <1>2, <2>3, <2>4 DEF AggregatedAt, Compacted
  <2> QED  BY <2>4, <2>6, <2>7, <2>8 DEF ServedAt, DeletedAt, WrittenAt
<1>6. CASE CompactDelete
  <2>1. /\ comp' = [comp EXCEPT !.pc = "insert"] /\ comp.pc = "delete"
        /\ rollup'[b] = IF b \in comp.dirty THEN {} ELSE rollup[b]
    BY <1>6 DEF CompactDelete
  <2>2. UNCHANGED <<dirty, watermark, overlapped>>
    BY <1>6 DEF CompactDelete, history
  <2>3. /\ comp'.pc = "insert" /\ comp'.dirty = comp.dirty /\ comp'.fresh = comp.fresh /\ comp'.to = comp.to
        /\ comp'.rows = comp.rows
    BY <1>1, <2>1 DEF Comps
  <2>4. (Calm(b)' <=> Calm(b)) /\ (Quiet(b)' <=> Quiet(b))
    BY <1>2, <2>2 DEF Calm, Quiet
  <2>5. comp.dirty \subseteq dirty
    BY <1>1, <2>1 DEF CompInv
  <2>6. Calm(b) => rollup'[b] = rollup[b]
    BY <2>1, <2>5 DEF Calm
  <2>7. CalmAt(b)'
    BY <1>2, <1>3, <2>2, <2>4, <2>6 DEF CalmAt
  <2>8. TakenAt(b)'
    BY <1>2, <2>1, <2>2, <2>3, <2>4, <2>6 DEF ServedAt, TakenAt, Compacted
  <2>9. AggregatedAt(b)'
    BY <1>2, <2>1, <2>3, <2>4 DEF ServedAt, AggregatedAt, Compacted
  <2>10. DeletedAt(b)'
    BY <2>1, <2>3 DEF DeletedAt
  <2> QED  BY <2>3, <2>7, <2>8, <2>9, <2>10 DEF ServedAt, WrittenAt
<1>7. CASE CompactInsert
  <2>1. /\ comp' = [comp EXCEPT !.pc = "commit"] /\ comp.pc = "insert"
        /\ rollup'[b] = rollup[b] \union comp.rows[b]
    BY <1>7 DEF CompactInsert
  <2>2. UNCHANGED <<dirty, watermark, overlapped>>
    BY <1>7 DEF CompactInsert, history
  <2>3. comp'.pc = "commit" /\ comp'.dirty = comp.dirty /\ comp'.fresh = comp.fresh /\ comp'.to = comp.to
    BY <1>1, <2>1 DEF Comps
  <2>4. (Calm(b)' <=> Calm(b)) /\ (Quiet(b)' <=> Quiet(b))
    BY <1>2, <2>2 DEF Calm, Quiet
  <2>5. b \notin Compacted => rollup'[b] = rollup[b]
    BY <1>1, <2>1 DEF CompInv
  <2>6. b \in Compacted /\ Quiet(b) => rollup'[b] = Aggregate(b)
    <3> SUFFICES ASSUME b \in Compacted, Quiet(b)  PROVE rollup[b] \union comp.rows[b] = Aggregate(b)
      BY <2>1
    <3>1. comp.rows[b] = Aggregate(b)
      BY <2>1 DEF ServedAt, AggregatedAt
    <3>2. CASE b \in comp.dirty
      <4>1. rollup[b] = {}
        BY <2>1, <3>2 DEF ServedAt, DeletedAt
      <4> QED  BY <3>1, <4>1
    <3>3. CASE b \notin comp.dirty
      <4>1. b \in comp.fresh
        BY <3>3 DEF Compacted
      <4>2. b \notin dirty
        BY <2>1, <3>3, <4>1 DEF ServedAt, TakenAt, Quiet
      <4>3. rollup[b] \subseteq Aggregate(b)
        BY <1>3, <4>2 DEF Calm
      <4> QED  BY <3>1, <4>3
    <3> QED  BY <3>2, <3>3
  <2>7. CalmAt(b)'
    <3> SUFFICES ASSUME Calm(b)
                 PROVE  /\ rollup'[b] \subseteq Aggregate(b)
                        /\ b < watermark => rollup'[b] = Aggregate(b)
      BY <1>2, <2>2, <2>4 DEF CalmAt
    <3>1. CASE b \in Compacted
      <4>1. rollup'[b] = Aggregate(b)
        BY <2>6, <3>1 DEF Calm
      <4> QED  BY <4>1
    <3>2. CASE b \notin Compacted
      BY <1>3, <2>5, <3>2
    <3> QED  BY <3>1, <3>2
  <2>8. TakenAt(b)'
    BY <1>2, <2>1, <2>2, <2>3, <2>4, <2>5 DEF ServedAt, TakenAt, Compacted
  <2>9. WrittenAt(b)'
    BY <1>2, <2>3, <2>4, <2>6 DEF WrittenAt, Compacted
  <2> QED  BY <2>3, <2>7, <2>8, <2>9 DEF ServedAt, AggregatedAt, DeletedAt
<1>8. CASE CompactCommit
  <2>1. /\ comp.pc = "commit" /\ comp' = NoComp /\ watermark' = comp.to /\ dirty' = dirty \ Compacted
        /\ UNCHANGED <<rollup, overlapped>>
    BY <1>8 DEF CompactCommit, history
  <2>2. comp'.pc = "idle"
    BY <2>1 DEF NoComp
  <2>3. CalmAt(b)'
    <3> SUFFICES ASSUME b \notin dirty', Quiet(b)
                 PROVE  /\ rollup[b] \subseteq Aggregate(b)
                        /\ b < comp.to => rollup[b] = Aggregate(b)
      BY <1>2, <2>1 DEF CalmAt, Calm, Quiet
    <3>1. CASE b \in Compacted
      <4>1. rollup[b] = Aggregate(b)
        BY <2>1, <3>1 DEF ServedAt, WrittenAt
      <4> QED  BY <4>1
    <3>2. CASE b \notin Compacted
      <4>1. Calm(b)
        BY <2>1, <3>2 DEF Calm
      <4>2. rollup[b] \subseteq Aggregate(b)
        BY <1>3, <4>1
      <4>3. b < comp.to => rollup[b] = Aggregate(b)
        BY <2>1, <3>2, <4>1 DEF ServedAt, TakenAt
      <4> QED  BY <4>2, <4>3
    <3> QED  BY <3>1, <3>2
  <2> QED  BY <2>2, <2>3 DEF ServedAt, TakenAt, AggregatedAt, DeletedAt, WrittenAt
<1>9. CASE CompactFails
  <2>1. comp'.pc = "idle" /\ UNCHANGED <<rollup, dirty, watermark, overlapped>>
    BY <1>9 DEF CompactFails, NoComp, derived, history
  <2>2. CalmAt(b)'
    BY <1>2, <1>3, <2>1 DEF CalmAt, Calm, Quiet
  <2> QED  BY <2>1, <2>2 DEF ServedAt, TakenAt, AggregatedAt, DeletedAt, WrittenAt
<1> QED  BY <1>4, <1>5, <1>6, <1>7, <1>8, <1>9 DEF Compact

(* A step that leaves no mark of the bucket behind keeps what it has. *)
LEMMA ServedAtNext ==
  ASSUME JobsInv, SentInv, [Next]_vars, NEW b \in Buckets, ServedAt(b), [SteadyAt(b) /\ MarkFits(b)]_vars
  PROVE  ServedAt(b)'
<1>1. TypeInv
  BY DEF JobsInv
<1>2. CASE Compact
  BY <1>2, ServedInvCompact
<1>3. CASE ~Compact
  BY <1>1, <1>3, ServedInvOthers
<1> QED  BY <1>2, <1>3

(* What ServedExact says of one bucket. *)
ServedExactAt(b) == Served(b) /\ b \notin overlapped => rollup[b] = Aggregate(b)

(* A bucket the dashboards read from the 15 minute rollup holds exactly    *)
(* what its raw events add up to, unless it was marked while a compaction  *)
(* had it, a writer was killed before it could mark this bucket, or a      *)
(* compaction had no room for this bucket's mark: what happens to other    *)
(* buckets costs this one nothing (compactUsageRollup,                     *)
(* mark15mRollupDirty, reconcileUsageEvents, repairPricingUsage).          *)
THEOREM EachServedAggregated ==
  ASSUME NEW b \in Buckets
  PROVE  Spec /\ [][SteadyAt(b) /\ MarkFits(b)]_vars => []ServedExactAt(b)
<1>1. Init => SentInv /\ ServedAt(b)
  BY ServedInvInit
<1>2. JobsInv /\ SentInv /\ ServedAt(b) /\ [Next]_vars /\ [SteadyAt(b) /\ MarkFits(b)]_vars
      => SentInv' /\ ServedAt(b)'
  BY ServedAtNext, SentInvNext DEF JobsInv
<1>3. ServedAt(b) => ServedExactAt(b)
  BY DEF ServedAt, CalmAt, ServedExactAt, Served, Calm, Quiet
<1> QED  BY <1>1, <1>2, <1>3, JobsInvAlways, PTL DEF Spec

(* So all served buckets are exact while no writer is killed between its   *)
(* change of a bucket and its mark and every compaction has room for the   *)
(* marks of its new buckets (ServedExact).                                 *)
THEOREM ServedAlwaysAggregated ==
  Spec /\ [][\A b \in Buckets : SteadyAt(b) /\ MarkFits(b)]_vars => []ServedExact
<1> DEFINE Exact == SentInv /\ \A b \in Buckets : ServedAt(b)
           Careful == \A b \in Buckets : SteadyAt(b) /\ MarkFits(b)
<1>1. Init => Exact
  BY ServedInvInit
<1>2. JobsInv /\ Exact /\ [Next]_vars /\ [Careful]_vars => Exact'
  <2> SUFFICES ASSUME JobsInv, Exact, [Next]_vars, [Careful]_vars  PROVE Exact'
    OBVIOUS
  <2>1. SentInv'
    BY SentInvNext DEF JobsInv
  <2>2. ASSUME NEW b \in Buckets  PROVE ServedAt(b)'
    BY ServedAtNext
  <2> QED  BY <2>1, <2>2
<1>3. Exact => ServedExact
  BY DEF ServedAt, CalmAt, ServedExact, Served, Calm, Quiet
<1> QED  BY <1>1, <1>2, <1>3, JobsInvAlways, PTL DEF Spec
=============================================================================
