------------------------- MODULE UsageCollectProofs -------------------------
(***************************************************************************)
(* What a collect run, the journal and the cursor of UsageCollect promise, *)
(* for all collectors, keys, tokens and bounds.                            *)
(*                                                                         *)
(* TypeInv and AccountInv say what every state is made of and whose rows   *)
(* a run may send (RequestsStayWithAccount).                               *)
(*                                                                         *)
(* No row leaves the journal undelivered (RowsLeaveOnlyDelivered): two     *)
(* invariants join TypeInv and AccountInv.                                 *)
(*   - SeqInv: in the journal a collector opened, a sequence number it     *)
(*     leased still names the row it leased, or no row at all; a journal   *)
(*     that was removed and made again is never taken for the old one;     *)
(*   - StoredInv: when a receipt passes durable::acknowledged, every       *)
(*     leased row is stored for the account that journaled it, and stays   *)
(*     so until the row is deleted.                                        *)
(*                                                                         *)
(* The journal keeps to its limit (JournalBounded): BoundInv adds that a   *)
(* key has one row, so that the keys an enqueue counts are its rows.       *)
(*                                                                         *)
(* The read position never runs ahead (CursorCovered): CoverInv says what  *)
(* a run that may still save has read and planned, key by key: safe, or    *)
(* among the records it still has to enqueue.                              *)
(***************************************************************************)
EXTENDS UsageCollect, SequenceTheorems, FiniteSetTheorems, WellFoundedInduction, TLAPS

(* The states a drain starts, goes on and ends with. *)
LEMMA DrainTypes ==
    /\ NoDrain \in Drain
    /\ \A b \in BOOLEAN : NewDrain(b) \in Drain
    /\ \A d \in Drain, rows \in SUBSET Row, n \in 0..DrainBatches : Leased(d, rows, n) \in Drain
BY CollectAssumption
   DEF NoDrain, NewDrain, Leased, Drain, NoReply, Reply, NoCount, CollectAssumption

(* What an iteration of drain may do before its request. *)
PeekAlternatives(c) ==
    \/ NothingLeft(c)
    \/ Finish(c) /\ UNCHANGED disk
    \/ DrainFails(c)
    \/ drain[c].left # 0 /\ Connects(c) /\ LeaseRows(c)

(* An iteration of drain is one of these alternatives. *)
LEMMA PeekCases ==
    ASSUME NEW c \in Collectors, Peek(c)
    PROVE  pc[c] # "idle" /\ PeekAlternatives(c)
BY DEF Peek, PeekAlternatives

(* The end of a run resets what the collector kept in memory. *)
LEMMA FinishType ==
    ASSUME LocalType, NEW c \in Collectors, Finish(c)
    PROVE  LocalType'
<1>1. /\ NoSnap \in [rev : 0..MaxRev, token : Tokens \union {NoOwner}]
      /\ NoHandle \in [dir : 0..(MaxRemovals + 1), owner : Owners \union {NoOwner}]
  BY CollectAssumption DEF NoSnap, NoHandle, CollectAssumption
<1>2. <<>> \in Seq(Keys)
  OBVIOUS
<1>3. /\ NoSeen \in [stamp : 0..MaxStamp, recs : Seq(Keys), err : BOOLEAN]
      /\ NoPlan \in [events : Seq(Keys), update : CursorEntry]
  BY <1>2, CollectAssumption DEF NoSeen, NoPlan, NoCursor, CursorEntry, CollectAssumption
<1> QED
  BY <1>1, <1>3, DrainTypes DEF LocalType, Finish, Goto, Labels

(* The journal and every leased batch are finite. *)
Finite ==
    /\ IsFiniteSet(queue.rows)
    /\ \A c \in Collectors : IsFiniteSet(drain[c].batch)

(* The answer to a batch has natural counters, and it confirms the whole   *)
(* batch only if every accepted key is stored for the token's account      *)
(* once the server has committed.                                          *)
LEMMA ReceiptMeans ==
    ASSUME TypeOK, NEW c \in Collectors, NEW confirms \in BOOLEAN,
           IsFiniteSet(drain[c].batch), snap[c].token \in Tokens
    PROVE  LET r == Receipt(c, confirms)
           IN  /\ r \in Reply
               /\ r.confirmed = NoCount <=> ~confirms
               /\ confirms /\ r.confirmed + r.excluded = Cardinality(drain[c].batch) =>
                      \A k \in Accepted(c) : store[k] \in {NoOwner, TokenOwner[snap[c].token]}
<1> DEFINE B == drain[c].batch
           K == {q.key : q \in B}
           A == Accepted(c)
           F == Fresh(c)
           M == F \union {k \in A : store[k] = TokenOwner[snap[c].token]}
<1>1. IsFiniteSet(K) /\ Cardinality(K) <= Cardinality(B)
  <2> DEFINE f == [q \in B |-> q.key]
  <2>1. f \in Surjection(B, K)
    BY DEF Surjection
  <2> QED
    BY <2>1, FS_Surjection
<1>2. A \in SUBSET K /\ F \in SUBSET A /\ M \in SUBSET A
  BY DEF Accepted, Fresh
<1>3. IsFiniteSet(A) /\ Cardinality(A) <= Cardinality(K)
  BY <1>1, <1>2, FS_Subset
<1>4. /\ IsFiniteSet(F) /\ Cardinality(F) <= Cardinality(A)
      /\ IsFiniteSet(M) /\ Cardinality(M) <= Cardinality(A)
      /\ Cardinality(M) = Cardinality(A) => M = A
  BY <1>2, <1>3, FS_Subset
<1>5. /\ Cardinality(B) \in Nat /\ Cardinality(K) \in Nat /\ Cardinality(A) \in Nat
      /\ Cardinality(F) \in Nat /\ Cardinality(M) \in Nat
  BY <1>1, <1>3, <1>4, FS_CardinalityType
<1> HIDE DEF B, K, A, F, M
<1> DEFINE r == [inserted |-> Cardinality(F), deduped |-> Cardinality(A) - Cardinality(F),
                 excluded |-> Cardinality(B) - Cardinality(A),
                 confirmed |-> IF confirms THEN Cardinality(M) ELSE NoCount]
<1>6. r = Receipt(c, confirms)
  BY DEF Receipt, B, A, F, M
<1>7. r \in Reply /\ (r.confirmed = NoCount <=> ~confirms)
  BY <1>1, <1>3, <1>4, <1>5 DEF Reply, NoCount
<1>8. ASSUME confirms, r.confirmed + r.excluded = Cardinality(B)
      PROVE  M = A
  BY <1>4, <1>5, <1>8
<1>9. M = A => \A k \in A : store[k] \in {NoOwner, TokenOwner[snap[c].token]}
  BY DEF M, F, A, Fresh
<1> QED
  BY <1>6, <1>7, <1>8, <1>9 DEF A, B

-----------------------------------------------------------------------------
(* A run that has started holds a token, and a removed target leaves room   *)
(* for another directory.                                                   *)
Started ==
    /\ \A c \in Collectors : pc[c] # "idle" => snap[c].token \in Tokens
    /\ target.present \/ target.dir <= MaxRemovals

(* The inductive invariant of type correctness. *)
TypeInv == DiskType /\ LocalType /\ Finite /\ Started

(* The end of a run keeps the invariant when what it wrote is well typed. *)
LEMMA FinishInv ==
    ASSUME TypeInv, NEW c \in Collectors, Finish(c), DiskType',
           IsFiniteSet(queue'.rows), UNCHANGED target
    PROVE  TypeInv'
<1>1. LocalType'
  BY FinishType DEF TypeInv
<1>2. Finite'
  BY FS_EmptySet DEF TypeInv, Finite, Finish, LocalType, NoDrain
<1>3. Started'
  BY DEF TypeInv, Started, Finish, Goto, LocalType
<1> QED
  BY <1>1, <1>2, <1>3 DEF TypeInv

(* A run that ends without writing keeps the invariant. *)
LEMMA FinishQuietly ==
    ASSUME TypeInv, NEW c \in Collectors, Finish(c), UNCHANGED disk
    PROVE  TypeInv'
<1>1. DiskType' /\ IsFiniteSet(queue'.rows) /\ UNCHANGED target
  BY DEF TypeInv, DiskType, Finite, disk
<1> QED
  BY <1>1, FinishInv

(* The keys of a log are keys. *)
LEMMA KeysOfType ==
    ASSUME NEW s \in Seq(Keys)
    PROVE  KeysOf(s) \in SUBSET Keys
BY ElementOfSeq DEF KeysOf

(* Dropping a prefix of a sequence of keys leaves a sequence of keys. *)
LEMMA SuffixType ==
    ASSUME NEW s \in Seq(Keys), NEW m \in Nat \ {0}
    PROVE  SubSeq(s, m, Len(s)) \in Seq(Keys)
<1>1. Len(s) \in Nat /\ \A i \in m..Len(s) : s[i] \in Keys
  BY ElementOfSeq
<1> QED
  BY <1>1, SubSeqProperties

(* The writer of the log keeps the invariant. *)
LEMMA WriteLogInv ==
    ASSUME TypeInv, NEW recs \in Seq(Keys), NEW torn \in BOOLEAN, NEW present \in BOOLEAN,
           WriteLog(recs, torn, present)
    PROVE  TypeInv'
<1>1. KeysOf(recs) \in SUBSET Keys
  BY KeysOfType
<1>2. DiskType'
  BY <1>1, CollectAssumption DEF TypeInv, DiskType, WriteLog, CollectAssumption
<1>3. LocalType' /\ Finite' /\ Started'
  BY DEF TypeInv, LocalType, Finite, Started, WriteLog, local
<1> QED
  BY <1>2, <1>3 DEF TypeInv

(* Every write of the session log keeps the invariant. *)
LEMMA LogInv ==
    ASSUME TypeInv, Log
    PROVE  TypeInv'
<1>1. file.recs \in Seq(Keys) /\ file.torn \in BOOLEAN /\ <<>> \in Seq(Keys)
  BY DEF TypeInv, DiskType
<1>2. ASSUME NEW k \in Keys, AppendRecord(k) PROVE TypeInv'
  BY <1>1, <1>2, AppendProperties, WriteLogInv DEF AppendRecord
<1>3. ASSUME AppendPartial PROVE TypeInv'
  BY <1>1, <1>3, WriteLogInv DEF AppendPartial
<1>4. ASSUME RewriteLog PROVE TypeInv'
  BY <1>1, <1>4, HeadTailProperties, WriteLogInv DEF RewriteLog
<1>5. ASSUME DeleteLog PROVE TypeInv'
  BY <1>1, <1>5, WriteLogInv DEF DeleteLog
<1> QED
  BY <1>2, <1>3, <1>4, <1>5 DEF Log

(* Replacing or removing the target keeps the invariant. *)
LEMMA RegistryInv ==
    ASSUME TypeInv, Registry
    PROVE  TypeInv'
<1>1. ASSUME NEW t \in Tokens, Upsert(t) PROVE TypeInv'
  <2>1. /\ target.rev \in 1..MaxRev /\ target.dir \in 1..(MaxRemovals + 1)
        /\ MaxRev \in Nat /\ MaxRemovals \in Nat /\ target.present \in BOOLEAN
        /\ target.present \/ target.dir <= MaxRemovals
    BY CollectAssumption DEF TypeInv, DiskType, Started, CollectAssumption
  <2>2. /\ target.rev < MaxRev
        /\ target' = [present |-> TRUE, rev |-> target.rev + 1, token |-> t,
                      dir |-> IF target.present THEN target.dir ELSE target.dir + 1]
        /\ UNCHANGED <<file, written, queue, cursor, store, local>>
    BY <1>1 DEF Upsert
  <2>3. /\ target.rev + 1 \in 1..MaxRev
        /\ (IF target.present THEN target.dir ELSE target.dir + 1) \in 1..(MaxRemovals + 1)
    BY ONLY <2>1, <2>2
  <2>4. target' \in [present : BOOLEAN, rev : 1..MaxRev, dir : 1..(MaxRemovals + 1), token : Tokens]
        /\ target'.present
    BY ONLY <1>1, <2>2, <2>3
  <2>5. DiskType'
    BY <2>2, <2>4 DEF TypeInv, DiskType
  <2>6. LocalType' /\ Finite' /\ Started'
    BY <2>2, <2>4 DEF TypeInv, LocalType, Finite, Started, local
  <2> QED
    BY <2>5, <2>6 DEF TypeInv
<1>2. ASSUME Remove PROVE TypeInv'
  <2>1. <<>> \in Seq(Keys)
    OBVIOUS
  <2>4. target' \in [present : BOOLEAN, rev : 1..MaxRev, dir : 1..(MaxRemovals + 1), token : Tokens]
    BY <1>2, CollectAssumption DEF TypeInv, DiskType, Remove, CollectAssumption
  <2>5. NoDatabase \in [dir : 0..(MaxRemovals + 1), id : Identity, rows : SUBSET Row, next : Nat]
    BY CollectAssumption DEF NoDatabase, Identity, CollectAssumption
  <2>2. DiskType'
    <3>1. NoCursor \in CursorEntry
      BY <2>1, CollectAssumption DEF NoCursor, CursorEntry, CollectAssumption
    <3>2. queue' = NoDatabase /\ cursor' = NoCursor /\ UNCHANGED <<file, written, store>>
      BY ONLY <1>2 DEF Remove
    <3>3. DiskType
      BY DEF TypeInv
    <3> QED
      BY ONLY <2>4, <2>5, <3>1, <3>2, <3>3 DEF DiskType
  <2>3. LocalType' /\ Finite' /\ Started'
    BY <1>2, FS_EmptySet, CollectAssumption
       DEF TypeInv, DiskType, LocalType, Finite, Started, Remove, local, NoDatabase, CollectAssumption
  <2> QED
    BY <2>2, <2>3 DEF TypeInv
<1> QED
  BY <1>1, <1>2 DEF Registry

(* The server's answer is well typed and its store stays so. *)
LEMMA IngestType ==
    ASSUME TypeInv, NEW c \in Collectors, Ingest(c), snap[c].token \in Tokens
    PROVE  store' \in [Keys -> Owners \union {NoOwner}]
BY CollectAssumption DEF TypeInv, DiskType, Ingest, CollectAssumption

(* Leaving a drain keeps what is in memory well typed. *)
LEMMA DrainedType ==
    ASSUME LocalType, NEW c \in Collectors, Drained(c), down' \in [Collectors -> BOOLEAN],
           UNCHANGED <<snap, seen, handle, plan>>
    PROVE  LocalType'
BY DrainTypes DEF LocalType, Drained, Goto, Labels

(* The return of a drain keeps the invariant. *)
LEMMA DrainedInv ==
    ASSUME TypeInv, NEW c \in Collectors, pc[c] # "idle", Drained(c),
           down' \in [Collectors -> BOOLEAN], UNCHANGED <<snap, seen, handle, plan>>,
           DiskType', UNCHANGED <<target, queue>>
    PROVE  TypeInv'
<1>1. LocalType'
  BY DrainedType DEF TypeInv
<1>2. Finite'
  BY FS_EmptySet DEF TypeInv, Finite, Drained, LocalType, NoDrain
<1>3. Started'
  BY DEF TypeInv, Started, Drained, Goto, LocalType
<1> QED
  BY <1>1, <1>2, <1>3 DEF TypeInv

(* A failed drain keeps the invariant. *)
LEMMA DrainFailsInv ==
    ASSUME TypeInv, NEW c \in Collectors, pc[c] # "idle", DrainFails(c)
    PROVE  TypeInv'
<1>1. DiskType' /\ UNCHANGED <<target, queue>>
  BY DEF TypeInv, DiskType, DrainFails, disk
<1>2. down' \in [Collectors -> BOOLEAN]
  BY DEF TypeInv, LocalType, DrainFails
<1> QED
  BY <1>1, <1>2, DrainedInv DEF DrainFails

(* The rows of one enqueue are rows, and finitely many. *)
LEMMA NewRowsType ==
    ASSUME TypeInv, NEW c \in Collectors, NEW n \in 1..Len(plan[c].events),
           snap[c].token \in Tokens
    PROVE  NewRows(c, n) \in SUBSET Row /\ IsFiniteSet(NewRows(c, n))
<1> DEFINE row(i) == [seq |-> queue.next + i - 1, key |-> plan[c].events[i],
                      by |-> TokenOwner[snap[c].token]]
           J == {j \in 1..n : /\ plan[c].events[j] \notin QueueKeys
                              /\ \A h \in 1..(j - 1) : plan[c].events[h] # plan[c].events[j]}
           f == [i \in J |-> row(i)]
<1>1. plan[c].events \in Seq(Keys) /\ queue.next \in Nat
  BY DEF TypeInv, LocalType, DiskType
<1>2. \A i \in 1..n : plan[c].events[i] \in Keys
  BY <1>1, ElementOfSeq
<1>3. \A i \in 1..n : row(i) \in Row
  BY <1>1, <1>2, CollectAssumption DEF Row, CollectAssumption
<1>4. NewRows(c, n) = {row(i) : i \in J}
  BY DEF NewRows
<1>5. IsFiniteSet(J)
  <2>1. IsFiniteSet(1..n)
    BY FS_Interval
  <2> QED
    BY <2>1, FS_Subset
<1>6. f \in Surjection(J, {row(i) : i \in J})
  BY DEF Surjection
<1>7. IsFiniteSet({row(i) : i \in J})
  <2> HIDE DEF J, f, row
  <2> QED
    BY <1>5, <1>6, FS_Surjection
<1> QED
  BY <1>3, <1>4, <1>7

(* Journaling a chunk keeps the invariant. *)
LEMMA EnqueueInv ==
    ASSUME TypeInv, NEW c \in Collectors, Enqueue(c)
    PROVE  TypeInv'
<1>1. pc[c] = "enqueue" /\ snap[c].token \in Tokens
  BY DEF TypeInv, Started, Enqueue
<1> DEFINE len == Len(plan[c].events)
<1>2. plan[c].events \in Seq(Keys) /\ len \in Nat
  BY DEF TypeInv, LocalType
<1>3. PICK n \in Halves(Smaller(Chunk, len)) :
        /\ queue' = [dir |-> queue.dir, id |-> queue.id,
                     rows |-> queue.rows \union NewRows(c, n), next |-> queue.next + n]
        /\ plan' = [plan EXCEPT ![c].events = SubSeq(plan[c].events, n + 1, len)]
  BY DEF Enqueue
<1>4. n \in 1..len
  BY <1>2, CollectAssumption DEF Halves, Smaller, CollectAssumption
<1>5. NewRows(c, n) \in SUBSET Row /\ IsFiniteSet(NewRows(c, n))
  BY <1>1, <1>4, NewRowsType
<1> HIDE DEF len
<1>6. DiskType'
  <2>1. queue \in [dir : 0..(MaxRemovals + 1), id : Identity, rows : SUBSET Row, next : Nat] /\ DiskType
    BY DEF TypeInv, DiskType
  <2>2. n \in Nat
    BY <1>2, <1>4
  <2>3. queue' \in [dir : 0..(MaxRemovals + 1), id : Identity, rows : SUBSET Row, next : Nat]
    BY ONLY <1>3, <1>5, <2>1, <2>2
  <2>4. UNCHANGED <<file, written, target, cursor, store>>
    BY DEF Enqueue
  <2> QED
    BY ONLY <2>1, <2>3, <2>4 DEF DiskType
<1>7. SubSeq(plan[c].events, n + 1, len) \in Seq(Keys)
  BY <1>2, <1>4, SuffixType DEF len
<1>8. /\ pc' \in [Collectors -> Labels]
      /\ \A d \in Collectors : pc'[d] # "idle" => d = c \/ pc[d] # "idle"
  <2>1. pc \in [Collectors -> Labels] /\ {"enqueue", "peek"} \subseteq Labels
    BY DEF TypeInv, LocalType, Labels
  <2>2. PICK label \in {"enqueue", "peek"} : pc' = [pc EXCEPT ![c] = label]
    BY DEF Enqueue, Goto
  <2> QED
    BY ONLY <2>1, <2>2
<1>9. drain' \in [Collectors -> Drain]
  BY DrainTypes DEF TypeInv, LocalType, Enqueue
<1>10. \A d \in Collectors : drain'[d].batch \in {drain[d].batch, {}}
  <2>1. drain' = drain \/ drain' = [drain EXCEPT ![c] = NewDrain(TRUE)]
    BY DEF Enqueue
  <2>2. NewDrain(TRUE).batch = {}
    BY DEF NewDrain
  <2>3. \A d \in Collectors : drain'[d] \in {drain[d], NewDrain(TRUE)}
    BY <2>1 DEF TypeInv, LocalType
  <2> QED
    BY <2>2, <2>3
<1>11. plan' \in [Collectors -> [events : Seq(Keys), update : CursorEntry]]
  BY <1>3, <1>7 DEF TypeInv, LocalType
<1>12. LocalType'
  BY <1>8, <1>9, <1>11 DEF TypeInv, LocalType, Enqueue
<1>13. Finite'
  BY <1>3, <1>5, <1>10, FS_Union, FS_EmptySet DEF TypeInv, DiskType, Finite
<1>14. Started'
  BY <1>1, <1>8 DEF TypeInv, Started, Enqueue
<1> QED
  BY <1>6, <1>12, <1>13, <1>14 DEF TypeInv

(* Planning what the log still owes keeps the invariant. *)
LEMMA PlanInv ==
    ASSUME TypeInv, NEW c \in Collectors, Plan(c)
    PROVE  TypeInv'
<1>1. ASSUME ~Current(c) PROVE TypeInv'
  BY <1>1, FinishQuietly DEF Plan
<1>2. ASSUME Current(c) PROVE TypeInv'
  <2> DEFINE s == seen[c]
             start == ResumeIndex(cursor.sent, s.recs)
  <2>1. /\ s \in [stamp : 0..MaxStamp, recs : Seq(Keys), err : BOOLEAN]
        /\ cursor \in CursorEntry
        /\ NoCursor \in CursorEntry /\ <<>> \in Seq(Keys)
        /\ NoSeen \in [stamp : 0..MaxStamp, recs : Seq(Keys), err : BOOLEAN]
    BY CollectAssumption DEF TypeInv, LocalType, DiskType, NoCursor, NoSeen, CursorEntry, CollectAssumption
  <2>2. start \in Nat
    BY <2>1 DEF ResumeIndex, CursorEntry
  <2>3. SubSeq(s.recs, start + 1, Len(s.recs)) \in Seq(Keys)
    BY <2>1, <2>2, SuffixType
  <2> HIDE DEF start
  <2>4. PICK p \in [events : Seq(Keys), update : CursorEntry] : plan' = [plan EXCEPT ![c] = p]
    <3> DEFINE update == IF s.err THEN cursor ELSE [stamp |-> s.stamp, sent |-> s.recs]
               same == s.stamp = 0 \/ cursor.stamp = s.stamp
               planned == IF same
                          THEN [events |-> <<>>, update |-> IF s.stamp = 0 THEN NoCursor ELSE cursor]
                          ELSE [update |-> update, events |-> SubSeq(s.recs, start + 1, Len(s.recs))]
    <3>1. plan' = [plan EXCEPT ![c] = planned]
      BY <1>2 DEF Plan, start
    <3>2. update \in CursorEntry
      BY <2>1 DEF CursorEntry
    <3>3. planned \in [events : Seq(Keys), update : CursorEntry]
      BY <2>1, <2>3, <3>2
    <3> QED
      BY <3>1, <3>3
  <2>5. /\ pc' = [pc EXCEPT ![c] = "enqueue"] /\ seen' = [seen EXCEPT ![c] = NoSeen]
        /\ UNCHANGED <<disk, snap, handle, drain, down>>
    BY <1>2 DEF Plan, Goto
  <2>7. LocalType'
    BY <2>1, <2>4, <2>5 DEF TypeInv, LocalType, Labels
  <2>6. pc[c] # "idle"
    BY DEF Plan
  <2>8. DiskType' /\ Finite' /\ Started'
    BY <2>6, <2>5 DEF TypeInv, DiskType, LocalType, Finite, Started, disk
  <2> QED
    BY <2>7, <2>8 DEF TypeInv
<1> QED
  BY <1>1, <1>2

(* A step of a running collector that only moves on keeps the invariant    *)
(* when what it wrote is well typed.                                       *)
LEMMA StepInv ==
    ASSUME TypeInv, NEW c \in Collectors, pc[c] # "idle", NEW label \in Labels, Goto(c, label),
           DiskType', IsFiniteSet(queue'.rows), UNCHANGED <<target, snap>>,
           seen' \in [Collectors -> [stamp : 0..MaxStamp, recs : Seq(Keys), err : BOOLEAN]],
           handle' \in [Collectors -> [dir : 0..(MaxRemovals + 1), owner : Owners \union {NoOwner}]],
           UNCHANGED <<plan, down>>,
           NEW d \in Drain, IsFiniteSet(d.batch),
           drain' = drain \/ drain' = [drain EXCEPT ![c] = d]
    PROVE  TypeInv'
<1>1. pc' \in [Collectors -> Labels] /\ drain' \in [Collectors -> Drain]
  BY DEF TypeInv, LocalType, Goto
<1>2. LocalType'
  BY <1>1 DEF TypeInv, LocalType
<1>3. \A e \in Collectors : drain'[e].batch \in {drain[e].batch, d.batch}
  BY DEF TypeInv, LocalType
<1>4. Finite'
  BY <1>3 DEF TypeInv, Finite
<1>5. Started'
  BY DEF TypeInv, LocalType, Started, Goto
<1> QED
  BY <1>2, <1>4, <1>5 DEF TypeInv

(* Every step of a collector keeps the invariant. *)
LEMMA CollectInv ==
    ASSUME TypeInv, NEW c \in Collectors, Collect(c)
    PROVE  TypeInv'
<1>1. UNCHANGED disk => DiskType' /\ IsFiniteSet(queue'.rows) /\ UNCHANGED target
  BY DEF TypeInv, DiskType, Finite, disk
<1>2. /\ seen \in [Collectors -> [stamp : 0..MaxStamp, recs : Seq(Keys), err : BOOLEAN]]
      /\ handle \in [Collectors -> [dir : 0..(MaxRemovals + 1), owner : Owners \union {NoOwner}]]
      /\ drain \in [Collectors -> Drain] /\ drain[c] \in Drain /\ IsFiniteSet(drain[c].batch)
      /\ snap \in [Collectors -> [rev : 0..MaxRev, token : Tokens \union {NoOwner}]]
      /\ down \in [Collectors -> BOOLEAN]
  BY DEF TypeInv, LocalType, Finite
<1>3. pc[c] # "idle" => snap[c].token \in Tokens /\ TokenOwner[snap[c].token] \in Owners
  BY CollectAssumption DEF TypeInv, Started, CollectAssumption
<1>4. ASSUME Start(c) PROVE TypeInv'
  <2>1. LocalType' /\ Started'
    <3>1. /\ target.rev \in 0..MaxRev /\ target.token \in Tokens
          /\ target.present \in BOOLEAN /\ LocalType /\ Started
      BY CollectAssumption DEF TypeInv, DiskType, CollectAssumption
    <3>2. /\ pc' = [pc EXCEPT ![c] = "stat"] /\ "stat" \in Labels
          /\ snap' = [snap EXCEPT ![c] = [rev |-> target.rev, token |-> target.token]]
          /\ UNCHANGED <<seen, handle, plan, drain, down, target>>
      BY <1>4 DEF Start, Goto, Labels, disk
    <3>3. [rev |-> target.rev, token |-> target.token] \in [rev : 0..MaxRev, token : Tokens \union {NoOwner}]
      BY ONLY <3>1
    <3>4. /\ pc' \in [Collectors -> Labels]
          /\ snap' \in [Collectors -> [rev : 0..MaxRev, token : Tokens \union {NoOwner}]]
      BY <1>2, <3>1, <3>2, <3>3 DEF LocalType
    <3>5. LocalType'
      BY ONLY <3>1, <3>2, <3>4 DEF LocalType
    <3>6. ASSUME NEW e \in Collectors, pc'[e] # "idle"  PROVE snap'[e].token \in Tokens
      <4>1. CASE e = c
        BY <1>2, <3>1, <3>2, <4>1
      <4>2. CASE e # c
        <5>1. pc'[e] = pc[e] /\ snap'[e] = snap[e]
          BY <3>1, <3>2, <4>2 DEF LocalType
        <5> QED  BY <3>1, <3>6, <5>1 DEF Started
      <4> QED  BY <4>1, <4>2
    <3>7. Started'
      BY ONLY <3>1, <3>2, <3>6 DEF Started
    <3> QED
      BY <3>5, <3>7
  <2>2. Finite'
    BY <1>4 DEF TypeInv, Finite, Start, disk
  <2> QED
    BY <1>1, <1>4, <2>1, <2>2 DEF TypeInv, Start
<1>5. ASSUME Stat(c) PROVE TypeInv'
  <2>1. seen' \in [Collectors -> [stamp : 0..MaxStamp, recs : Seq(Keys), err : BOOLEAN]]
    <3>1. PICK stamp \in {0, file.stamp} : seen' = [seen EXCEPT ![c].stamp = stamp]
      BY <1>5 DEF Stat
    <3>2. stamp \in 0..MaxStamp
      BY CollectAssumption DEF TypeInv, DiskType, CollectAssumption
    <3> QED
      BY <1>2, <3>1, <3>2
  <2>2. \E label \in Labels : Goto(c, label)
    BY <1>5 DEF Stat, Labels
  <2>3. pc[c] # "idle" /\ UNCHANGED <<disk, snap, handle, plan, drain, down>>
    BY <1>5 DEF Stat
  <2> QED
    BY <1>1, <1>2, <2>1, <2>2, <2>3, StepInv
<1>6. ASSUME Parse(c) PROVE TypeInv'
  <2>1. seen' \in [Collectors -> [stamp : 0..MaxStamp, recs : Seq(Keys), err : BOOLEAN]]
    <3>1. /\ seen[c].stamp \in 0..MaxStamp /\ file.stamp \in 1..MaxStamp
          /\ file.torn \in BOOLEAN /\ file.recs \in Seq(Keys) /\ <<>> \in Seq(Keys)
      BY DEF TypeInv, DiskType, LocalType
    <3>2. \/ UNCHANGED seen
          \/ \E s \in seen[c].stamp..file.stamp, recs \in {file.recs, <<>>}, err \in {file.torn, TRUE} :
                seen' = [seen EXCEPT ![c] = [stamp |-> s, recs |-> recs, err |-> err]]
      BY <1>6, <3>1 DEF Parse
    <3>3. \A s \in seen[c].stamp..file.stamp : s \in 0..MaxStamp
      BY <3>1, CollectAssumption DEF CollectAssumption
    <3>4. ASSUME NEW s \in 0..MaxStamp, NEW recs \in Seq(Keys), NEW err \in BOOLEAN,
                 seen' = [seen EXCEPT ![c] = [stamp |-> s, recs |-> recs, err |-> err]]
          PROVE  seen' \in [Collectors -> [stamp : 0..MaxStamp, recs : Seq(Keys), err : BOOLEAN]]
      BY <1>2, <3>4
    <3>5. CASE UNCHANGED seen
      BY <1>2, <3>5
    <3> QED
      BY <3>1, <3>2, <3>3, <3>4, <3>5
  <2>2. "hello" \in Labels
    BY DEF Labels
  <2>3. pc[c] # "idle" /\ Goto(c, "hello") /\ UNCHANGED <<disk, snap, handle, plan, drain, down>>
    BY <1>6 DEF Parse
  <2> QED
    BY <1>1, <1>2, <2>1, <2>2, <2>3, StepInv
<1>7. ASSUME Hello(c) PROVE TypeInv'
  <2>1. ASSUME Finish(c) PROVE TypeInv'
    BY <1>7, <2>1, FinishQuietly DEF Hello
  <2>2. ASSUME ~Finish(c) PROVE TypeInv'
    <3>1. PICK owner \in {NoOwner} \union {TokenOwner[snap[c].token]} :
            handle' = [handle EXCEPT ![c].owner = owner]
      BY <1>7, <2>2 DEF Hello
    <3>2. pc[c] # "idle" /\ Goto(c, "open") /\ UNCHANGED <<disk, snap, seen, plan, drain, down>>
      BY <1>7, <2>2 DEF Hello
    <3>3. handle' \in [Collectors -> [dir : 0..(MaxRemovals + 1), owner : Owners \union {NoOwner}]]
      BY <1>2, <1>3, <3>1, <3>2
    <3>4. "open" \in Labels
      BY DEF Labels
    <3> QED
      BY <1>1, <1>2, <3>2, <3>3, <3>4, StepInv
  <2> QED
    BY <2>1, <2>2
<1>8. ASSUME OpenQueue(c) PROVE TypeInv'
  <2>1. ASSUME Finish(c), UNCHANGED disk PROVE TypeInv'
    BY <2>1, FinishQuietly
  <2>2. ASSUME ~(Finish(c) /\ UNCHANGED disk) PROVE TypeInv'
    <3>1. PICK owner \in {handle[c].owner, queue.id.owner} :
            /\ queue' = [dir |-> target.dir, id |-> [owner |-> owner, token |-> snap[c].token],
                         rows |-> queue.rows, next |-> queue.next]
            /\ handle' = [handle EXCEPT ![c] = [dir |-> target.dir, owner |-> owner]]
      BY <1>8, <2>2 DEF OpenQueue
    <3>2. /\ pc[c] # "idle" /\ Goto(c, "peek") /\ drain' = [drain EXCEPT ![c] = NewDrain(FALSE)]
          /\ UNCHANGED <<file, written, target, cursor, store, snap, seen, plan, down>>
      BY <1>8, <2>2 DEF OpenQueue
    <3>3. owner \in Owners \union {NoOwner}
      BY <1>2, <3>1 DEF TypeInv, DiskType, Identity
    <3>4. DiskType' /\ IsFiniteSet(queue'.rows)
      BY <1>3, <3>1, <3>2, <3>3 DEF TypeInv, DiskType, Finite, Identity
    <3>5. handle' \in [Collectors -> [dir : 0..(MaxRemovals + 1), owner : Owners \union {NoOwner}]]
      <4>1. target.dir \in 1..(MaxRemovals + 1) /\ MaxRemovals \in Nat
        BY CollectAssumption DEF TypeInv, DiskType, CollectAssumption
      <4>2. [dir |-> target.dir, owner |-> owner]
               \in [dir : 0..(MaxRemovals + 1), owner : Owners \union {NoOwner}]
        BY ONLY <3>3, <4>1
      <4> QED
        BY ONLY <1>2, <3>1, <4>2
    <3>6. NewDrain(FALSE) \in Drain /\ IsFiniteSet(NewDrain(FALSE).batch) /\ "peek" \in Labels
      BY DrainTypes, FS_EmptySet DEF NewDrain, Labels
    <3> QED
      BY <1>2, <3>2, <3>4, <3>5, <3>6, StepInv
  <2> QED
    BY <2>1, <2>2
<1>9. ASSUME Peek(c) PROVE TypeInv'
  <2>1. pc[c] # "idle" /\ PeekAlternatives(c)
    BY <1>9, PeekCases
  <2>2. ASSUME NothingLeft(c) PROVE TypeInv'
    <3>1. Drained(c) /\ UNCHANGED <<disk, snap, seen, handle, plan, down>>
      BY <2>2 DEF NothingLeft
    <3>2. UNCHANGED <<target, queue>>
      BY <3>1 DEF disk
    <3> QED
      BY <1>1, <1>2, <2>1, <3>1, <3>2, DrainedInv
  <2>3. ASSUME drain[c].left # 0, LeaseRows(c) PROVE TypeInv'
    <3> DEFINE d == Leased(drain[c], FirstRows, drain[c].left - 1)
    <3>1. /\ pc[c] # "idle" /\ Goto(c, "send") /\ drain' = [drain EXCEPT ![c] = d]
          /\ UNCHANGED <<disk, snap, seen, handle, plan, down>>
      BY <2>1, <2>3 DEF LeaseRows
    <3>2. FirstRows \in SUBSET queue.rows /\ queue.rows \in SUBSET Row /\ IsFiniteSet(queue.rows)
      BY DEF FirstRows, TypeInv, DiskType, Finite
    <3>3. IsFiniteSet(FirstRows) /\ FirstRows \in SUBSET Row
      BY <3>2, FS_Subset
    <3>4. drain[c].left - 1 \in 0..DrainBatches
      BY <1>2, <2>3, CollectAssumption DEF Drain, CollectAssumption
    <3>5. d \in Drain /\ IsFiniteSet(d.batch) /\ "send" \in Labels
      BY <1>2, <3>3, <3>4, DrainTypes DEF Leased, Labels
    <3> HIDE DEF d
    <3> QED
      BY <1>1, <1>2, <3>1, <3>5, StepInv
  <2> QED
    BY <2>1, <2>2, <2>3, FinishQuietly, DrainFailsInv DEF PeekAlternatives
<1>10. ASSUME Send(c) PROVE TypeInv'
  <2>1. ASSUME ~Current(c) PROVE TypeInv'
    BY <1>10, <2>1, FinishQuietly DEF Send
  <2>2. ASSUME Current(c) PROVE TypeInv'
    <3>1. /\ pc[c] # "idle" /\ Goto(c, "wire") /\ "wire" \in Labels
          /\ UNCHANGED <<disk, snap, seen, handle, plan, drain, down>>
      BY <1>10, <2>2 DEF Send, Labels
    <3> QED
      BY <1>1, <1>2, <3>1, StepInv
  <2> QED
    BY <2>1, <2>2
<1>11. ASSUME Deliver(c) PROVE TypeInv'
  <2>1. pc[c] # "idle" /\ Ingest(c) /\ Goto(c, "reply") /\ "reply" \in Labels
    BY <1>11 DEF Deliver, Labels
  <2>2. UNCHANGED <<file, written, target, queue, cursor, snap, seen, handle, plan, down>>
    BY <1>11 DEF Deliver
  <2>3. PICK confirms \in Receipts : drain' = [drain EXCEPT ![c].reply = Receipt(c, confirms)]
    BY <1>11 DEF Deliver
  <2>4. confirms \in BOOLEAN
    BY CollectAssumption DEF CollectAssumption
  <2>5. Receipt(c, confirms) \in Reply
    BY <1>2, <1>3, <2>1, <2>4, ReceiptMeans DEF TypeInv, TypeOK
  <2> DEFINE d == [drain[c] EXCEPT !.reply = Receipt(c, confirms)]
  <2>6. d \in Drain /\ IsFiniteSet(d.batch) /\ drain' = [drain EXCEPT ![c] = d]
    BY <1>2, <2>3, <2>5 DEF Drain
  <2>7. DiskType' /\ IsFiniteSet(queue'.rows)
    BY <1>3, <2>1, <2>2, IngestType DEF TypeInv, DiskType, Finite
  <2> HIDE DEF d
  <2> QED
    BY <1>2, <2>1, <2>2, <2>6, <2>7, StepInv
<1>12. ASSUME LoseReply(c) PROVE TypeInv'
  <2>1. /\ pc[c] # "idle" /\ Ingest(c) /\ Drained(c) /\ down' = [down EXCEPT ![c] = TRUE]
        /\ UNCHANGED <<file, written, target, queue, cursor, snap, seen, handle, plan>>
    BY <1>12 DEF LoseReply
  <2>2. DiskType'
    BY <1>3, <2>1, IngestType DEF TypeInv, DiskType
  <2>3. down' \in [Collectors -> BOOLEAN]
    BY <1>2, <2>1
  <2> QED
    BY <2>1, <2>2, <2>3, DrainedInv
<1>13. ASSUME LoseRequest(c) PROVE TypeInv'
  BY <1>13, DrainFailsInv DEF LoseRequest
<1>14. ASSUME CheckReceipt(c) PROVE TypeInv'
  <2>1. pc[c] # "idle"
    BY <1>14 DEF CheckReceipt
  <2>2. \/ DrainFails(c)
        \/ Finish(c) /\ UNCHANGED disk
        \/ Goto(c, "ack") /\ UNCHANGED <<disk, snap, seen, handle, plan, drain, down>>
    BY <1>14 DEF CheckReceipt
  <2>3. ASSUME Goto(c, "ack"), UNCHANGED <<disk, snap, seen, handle, plan, drain, down>>
        PROVE  TypeInv'
    <3>1. "ack" \in Labels
      BY DEF Labels
    <3> QED
      BY <1>1, <1>2, <2>1, <2>3, <3>1, StepInv
  <2> QED
    BY <2>1, <2>2, <2>3, DrainFailsInv, FinishQuietly
<1>15. ASSUME Acknowledge(c) PROVE TypeInv'
  <2>1. ASSUME ~Connects(c) PROVE TypeInv'
    BY <1>15, <2>1, DrainFailsInv DEF Acknowledge
  <2>2. ASSUME Connects(c) PROVE TypeInv'
    <3> DEFINE left == {r \in queue.rows : \A q \in drain[c].batch : q.seq # r.seq}
               d == Leased(drain[c], {}, drain[c].left)
    <3>1. /\ pc[c] # "idle" /\ Goto(c, "peek") /\ "peek" \in Labels
          /\ queue' = [queue EXCEPT !.rows = left] /\ drain' = [drain EXCEPT ![c] = d]
          /\ UNCHANGED <<file, written, target, cursor, store, snap, seen, handle, plan, down>>
      BY <1>15, <2>2 DEF Acknowledge, Labels
    <3>2. left \in SUBSET queue.rows /\ IsFiniteSet(queue.rows)
      BY DEF TypeInv, Finite
    <3>3. IsFiniteSet(left)
      BY <3>2, FS_Subset
    <3>4. drain[c].left \in 0..DrainBatches
      BY <1>2 DEF Drain
    <3>5. d \in Drain /\ IsFiniteSet(d.batch)
      BY <1>2, <3>4, DrainTypes, FS_EmptySet DEF Leased
    <3> HIDE DEF left, d
    <3>6. DiskType' /\ IsFiniteSet(queue'.rows)
      BY <3>1, <3>2, <3>3 DEF TypeInv, DiskType
    <3> QED
      BY <1>2, <3>1, <3>5, <3>6, StepInv
  <2> QED
    BY <2>1, <2>2
<1>16. ASSUME EnqueueFails(c) PROVE TypeInv'
  BY <1>16, FinishQuietly DEF EnqueueFails
<1>17. ASSUME CheckCursor(c) PROVE TypeInv'
  <2>1. ASSUME Current(c) PROVE TypeInv'
    <3>1. /\ pc[c] # "idle" /\ Goto(c, "save") /\ "save" \in Labels
          /\ UNCHANGED <<disk, snap, seen, handle, plan, drain, down>>
      BY <1>17, <2>1 DEF CheckCursor, Labels
    <3> QED
      BY <1>1, <1>2, <3>1, StepInv
  <2>2. ASSUME ~Current(c) PROVE TypeInv'
    BY <1>17, <2>2, FinishQuietly DEF CheckCursor
  <2> QED
    BY <2>1, <2>2
<1>18. ASSUME SaveCursor(c) PROVE TypeInv'
  <2>1. DiskType' /\ IsFiniteSet(queue'.rows) /\ UNCHANGED target
    BY <1>18 DEF TypeInv, DiskType, LocalType, Finite, SaveCursor
  <2> QED
    BY <1>18, <2>1, FinishInv DEF SaveCursor
<1> QED
  BY <1>4, <1>5, <1>6, <1>7, <1>8, <1>9, <1>10, <1>11, <1>12, <1>13, <1>14, <1>15, <1>16, <1>17,
     <1>18, PlanInv, EnqueueInv DEF Collect

(* TypeInv is inductive. *)
LEMMA TypeInvStep == TypeInv /\ [Next]_vars => TypeInv'
<1> SUFFICES ASSUME TypeInv, [Next]_vars PROVE TypeInv'
  OBVIOUS
<1>1. ASSUME UNCHANGED vars PROVE TypeInv'
  BY <1>1 DEF vars, TypeInv, DiskType, LocalType, Finite, Started
<1>2. ASSUME NEW c \in Collectors, Crash(c) PROVE TypeInv'
  BY <1>2, FinishQuietly DEF Crash
<1> QED
  BY <1>1, <1>2, LogInv, RegistryInv, CollectInv DEF Next, NextAlive

(* The initial states satisfy the invariant. *)
LEMMA TypeInvInit == Init => TypeInv
<1> SUFFICES ASSUME Init PROVE TypeInv
  OBVIOUS
<1>1. <<>> \in Seq(Keys) /\ \A k \in Keys : <<k>> \in Seq(Keys)
  OBVIOUS
<1>2. file \in [stamp : 1..MaxStamp, recs : Seq(Keys), torn : BOOLEAN, present : BOOLEAN]
  <2>1. PICK recs \in {<<>>} \union {<<k>> : k \in Keys} :
          file = [stamp |-> 1, recs |-> recs, torn |-> FALSE, present |-> TRUE]
    BY DEF Init
  <2>2. recs \in Seq(Keys)
    BY <1>1
  <2> QED
    BY <2>1, <2>2, CollectAssumption DEF CollectAssumption
<1>3. written \in [0..MaxStamp -> SUBSET Keys]
  BY <1>2, KeysOfType DEF Init
<1>4. queue \in [dir : 0..(MaxRemovals + 1), id : Identity, rows : SUBSET Row, next : Nat]
  BY CollectAssumption DEF Init, NoDatabase, Identity, CollectAssumption
<1>5. PICK t \in Tokens : target = [present |-> TRUE, rev |-> 1, dir |-> 1, token |-> t]
  BY DEF Init
<1>6. target \in [present : BOOLEAN, rev : 1..MaxRev, dir : 1..(MaxRemovals + 1), token : Tokens]
  BY <1>5, CollectAssumption DEF CollectAssumption
<1>7. cursor \in CursorEntry /\ store \in [Keys -> Owners \union {NoOwner}]
  BY <1>1, CollectAssumption DEF Init, NoCursor, CursorEntry, CollectAssumption
<1>8. DiskType
  BY <1>2, <1>3, <1>4, <1>6, <1>7 DEF DiskType
<1>9. /\ NoSnap \in [rev : 0..MaxRev, token : Tokens \union {NoOwner}]
      /\ NoHandle \in [dir : 0..(MaxRemovals + 1), owner : Owners \union {NoOwner}]
      /\ NoSeen \in [stamp : 0..MaxStamp, recs : Seq(Keys), err : BOOLEAN]
      /\ NoPlan \in [events : Seq(Keys), update : CursorEntry]
  BY <1>1, CollectAssumption
     DEF NoSnap, NoHandle, NoSeen, NoPlan, NoCursor, CursorEntry, CollectAssumption
<1>10. LocalType
  BY <1>9, DrainTypes DEF Init, LocalType, Labels
<1>11. Finite /\ Started
  BY <1>5, FS_EmptySet DEF Init, Finite, Started, NoDatabase, NoDrain
<1> QED
  BY <1>8, <1>10, <1>11 DEF TypeInv

(* The journal, the cursor, the registration, the server's store and what  *)
(* every collector keeps in memory (run_target, UsageQueue, drain) are     *)
(* always well formed, for any number of collectors, keys and tokens.      *)
THEOREM TypeCorrect == Spec => []TypeOK
<1>1. TypeInv => TypeOK
  BY DEF TypeInv, TypeOK
<1> QED
  BY <1>1, TypeInvInit, TypeInvStep, PTL DEF Spec

-----------------------------------------------------------------------------
(* Who the journal, a collector's handle and its leased rows belong to. *)

(* The journal's identity is a token and possibly its account; every row   *)
(* was journaled for that account; without a database there is no row.     *)
JournalOwned ==
    /\ queue.dir = 0 => queue.rows = {}
    /\ queue.dir # 0 => /\ queue.id.token \in Tokens
                        /\ queue.id.owner \in {NoOwner, TokenOwner[queue.id.token]}
                        /\ \A r \in queue.rows : r.by = TokenOwner[queue.id.token]

(* A collector that is not running holds no account and no rows. *)
Clean(c) == handle[c].owner = NoOwner /\ drain[c].batch = {}

(* A running collector's handle names the account of its token, or none,   *)
(* and the rows it leased were journaled for that account.                 *)
RunOwned ==
    \A c \in Collectors :
        IF pc[c] = "idle" THEN Clean(c)
        ELSE /\ handle[c].owner \in {NoOwner, TokenOwner[snap[c].token]}
             /\ \A r \in drain[c].batch : r.by = TokenOwner[snap[c].token]

AccountInv == JournalOwned /\ RunOwned

(* Compatible identities belong to the same account. *)
LEMMA CompatibleAccount ==
    ASSUME NEW t \in Tokens, NEW u \in Tokens,
           NEW o \in {NoOwner, TokenOwner[t]}, NEW p \in {NoOwner, TokenOwner[u]},
           \/ Compatible([owner |-> o, token |-> t], [owner |-> p, token |-> u])
           \/ Compatible([owner |-> p, token |-> u], [owner |-> o, token |-> t])
    PROVE  TokenOwner[t] = TokenOwner[u]
BY DEF Compatible

(* A collector that reaches the journal shares its account. *)
LEMMA ConnectsAccount ==
    ASSUME TypeInv, AccountInv, NEW c \in Collectors, pc[c] # "idle", Connects(c)
    PROVE  \A r \in queue.rows : r.by = TokenOwner[snap[c].token]
<1>1. snap[c].token \in Tokens /\ handle[c].owner \in {NoOwner, TokenOwner[snap[c].token]}
  BY DEF TypeInv, Started, AccountInv, RunOwned
<1>2. /\ queue.id.token \in Tokens /\ queue.id.owner \in {NoOwner, TokenOwner[queue.id.token]}
      /\ \A r \in queue.rows : r.by = TokenOwner[queue.id.token]
  BY DEF AccountInv, JournalOwned, Connects
<1>3. queue.id = [owner |-> queue.id.owner, token |-> queue.id.token]
  BY DEF TypeInv, DiskType, Identity
<1>4. TokenOwner[snap[c].token] = TokenOwner[queue.id.token]
  <2>1. Compatible([owner |-> handle[c].owner, token |-> snap[c].token],
                   [owner |-> queue.id.owner, token |-> queue.id.token])
    BY <1>3 DEF Connects
  <2> QED
    BY <1>1, <1>2, <2>1, CompatibleAccount
<1> QED
  BY <1>2, <1>4

(* A step that leaves the journal alone, ends the run or goes on without   *)
(* leasing rows, keeps the invariant.                                      *)
LEMMA QuietOwned ==
    ASSUME AccountInv, UNCHANGED queue,
           \A d \in Collectors :
              \/ pc'[d] = "idle" /\ Clean(d)'
              \/ /\ pc'[d] = "idle" <=> pc[d] = "idle"
                 /\ snap'[d] = snap[d] /\ handle'[d] = handle[d]
                 /\ drain'[d].batch \in SUBSET drain[d].batch
    PROVE  AccountInv'
<1>1. JournalOwned'
  BY DEF AccountInv, JournalOwned
<1>2. ASSUME NEW d \in Collectors
      PROVE  IF pc'[d] = "idle" THEN Clean(d)'
             ELSE /\ handle'[d].owner \in {NoOwner, TokenOwner[snap'[d].token]}
                  /\ \A r \in drain'[d].batch : r.by = TokenOwner[snap'[d].token]
  <2>1. CASE pc'[d] = "idle" /\ Clean(d)'
    BY <2>1
  <2>2. CASE /\ pc'[d] = "idle" <=> pc[d] = "idle"
             /\ snap'[d] = snap[d] /\ handle'[d] = handle[d]
             /\ drain'[d].batch \in SUBSET drain[d].batch
    BY <2>2 DEF AccountInv, RunOwned, Clean
  <2> QED
    BY <2>1, <2>2
<1> QED
  BY <1>1, <1>2 DEF AccountInv, RunOwned

(* The end of a run keeps accounts apart. *)
LEMMA FinishOwned ==
    ASSUME TypeInv, AccountInv, NEW c \in Collectors, Finish(c), UNCHANGED queue
    PROVE  AccountInv'
<1>1. pc'[c] = "idle" /\ Clean(c)'
  BY DEF Finish, Goto, TypeInv, LocalType, Clean, NoHandle, NoDrain
<1>2. \A d \in Collectors : d # c =>
         pc'[d] = pc[d] /\ snap'[d] = snap[d] /\ handle'[d] = handle[d] /\ drain'[d] = drain[d]
  BY DEF Finish, Goto, TypeInv, LocalType
<1> QED
  BY <1>1, <1>2, QuietOwned

(* A step that goes on without leasing rows. *)
LEMMA StepOwned ==
    ASSUME TypeInv, AccountInv, NEW c \in Collectors, pc[c] # "idle", NEW label, label # "idle",
           Goto(c, label), UNCHANGED <<queue, snap, handle>>,
           \A d \in Collectors : drain'[d].batch \in SUBSET drain[d].batch
    PROVE  AccountInv'
<1>1. \A d \in Collectors : pc'[d] = "idle" <=> pc[d] = "idle"
  BY DEF Goto, TypeInv, LocalType
<1> QED
  BY <1>1, QuietOwned

(* The return of a drain keeps accounts apart. *)
LEMMA DrainedOwned ==
    ASSUME TypeInv, AccountInv, NEW c \in Collectors, pc[c] # "idle", Drained(c),
           UNCHANGED <<queue, snap, handle>>
    PROVE  AccountInv'
<1>1. PICK label \in {"enqueue", "plan"} : Goto(c, label)
  BY DEF Drained
<1>2. \A d \in Collectors : drain'[d].batch \in SUBSET drain[d].batch
  <2>1. \A d \in Collectors : drain'[d] \in {drain[d], NoDrain}
    BY DEF Drained, TypeInv, LocalType
  <2> QED
    BY <2>1 DEF NoDrain
<1> QED
  BY <1>1, <1>2, StepOwned

(* Opening the journal rebinds it to the same account, or it was empty. *)
LEMMA OpenQueueOwned ==
    ASSUME TypeInv, AccountInv, NEW c \in Collectors, OpenQueue(c)
    PROVE  AccountInv'
<1> DEFINE token == snap[c].token
           requested == [owner |-> handle[c].owner, token |-> token]
           known == queue.dir # 0 /\ Compatible(queue.id, requested)
           owner == IF requested.owner = NoOwner /\ known THEN queue.id.owner ELSE requested.owner
<1>1. ASSUME ~target.present \/ (queue.rows # {} /\ ~known) PROVE AccountInv'
  <2>1. Finish(c) /\ UNCHANGED queue
    BY <1>1 DEF OpenQueue, disk
  <2> QED
    BY <2>1, FinishOwned
<1>2. ASSUME target.present, queue.rows = {} \/ known PROVE AccountInv'
  <2>1. /\ pc[c] # "idle" /\ Goto(c, "peek") /\ UNCHANGED snap
        /\ queue' = [dir |-> target.dir, id |-> [owner |-> owner, token |-> token],
                     rows |-> queue.rows, next |-> queue.next]
        /\ handle' = [handle EXCEPT ![c] = [dir |-> target.dir, owner |-> owner]]
        /\ drain' = [drain EXCEPT ![c] = NewDrain(FALSE)]
    BY <1>2 DEF OpenQueue
  <2>2. token \in Tokens /\ handle[c].owner \in {NoOwner, TokenOwner[token]}
    BY <2>1 DEF TypeInv, Started, AccountInv, RunOwned
  <2>3. ASSUME known
        PROVE  /\ TokenOwner[queue.id.token] = TokenOwner[token]
               /\ queue.id.owner \in {NoOwner, TokenOwner[token]}
    <3>1. queue.id.token \in Tokens /\ queue.id.owner \in {NoOwner, TokenOwner[queue.id.token]}
      BY <2>3 DEF AccountInv, JournalOwned
    <3>2. queue.id = [owner |-> queue.id.owner, token |-> queue.id.token]
      BY DEF TypeInv, DiskType, Identity
    <3>3. Compatible([owner |-> queue.id.owner, token |-> queue.id.token], requested)
      BY <2>3, <3>2
    <3>4. TokenOwner[queue.id.token] = TokenOwner[token]
      BY <2>2, <3>1, <3>3, CompatibleAccount
    <3> QED
      BY <3>1, <3>4
  <2>4. owner \in {NoOwner, TokenOwner[token]}
    BY <2>2, <2>3
  <2>5. \A r \in queue.rows : r.by = TokenOwner[token]
    <3>1. ASSUME known PROVE \A r \in queue.rows : r.by = TokenOwner[token]
      BY <3>1, <2>3 DEF AccountInv, JournalOwned
    <3> QED
      BY <1>2, <3>1
  <2> HIDE DEF owner, known, requested
  <2>6. JournalOwned'
    <3>1. /\ queue'.dir # 0 /\ queue'.id.token = token /\ queue'.id.owner = owner
          /\ queue'.rows = queue.rows
      BY <2>1 DEF TypeInv, DiskType
    <3> QED
      BY <2>2, <2>4, <2>5, <3>1 DEF JournalOwned
  <2>7. RunOwned'
    <3>1. /\ pc'[c] # "idle" /\ handle'[c].owner = owner /\ drain'[c].batch = {}
          /\ snap'[c].token = token
      BY <2>1 DEF TypeInv, LocalType, NewDrain, Goto
    <3>2. \A d \in Collectors : d # c =>
            pc'[d] = pc[d] /\ handle'[d] = handle[d] /\ drain'[d] = drain[d] /\ snap'[d] = snap[d]
      BY <2>1 DEF TypeInv, LocalType, Goto
    <3> QED
      BY <2>4, <3>1, <3>2 DEF AccountInv, RunOwned, Clean
  <2> QED
    BY <2>6, <2>7 DEF AccountInv
<1> QED
  BY <1>1, <1>2

(* The rows leased for a request belong to the account of the collector. *)
LEMMA PeekOwned ==
    ASSUME TypeInv, AccountInv, NEW c \in Collectors, Peek(c)
    PROVE  AccountInv'
<1>1. pc[c] # "idle" /\ PeekAlternatives(c)
  BY PeekCases
<1>2. ASSUME NothingLeft(c) \/ DrainFails(c) PROVE AccountInv'
  BY <1>1, <1>2, DrainedOwned DEF NothingLeft, DrainFails, disk
<1>3. ASSUME Finish(c), UNCHANGED disk PROVE AccountInv'
  BY <1>3, FinishOwned DEF disk
<1>4. ASSUME Connects(c), LeaseRows(c) PROVE AccountInv'
  <2>1. /\ pc[c] # "idle" /\ Goto(c, "send") /\ UNCHANGED <<queue, snap, handle>>
        /\ drain' = [drain EXCEPT ![c] = Leased(drain[c], FirstRows, drain[c].left - 1)]
    BY <1>1, <1>4 DEF LeaseRows, disk
  <2>2. \A r \in FirstRows : r.by = TokenOwner[snap[c].token]
    BY <1>4, <2>1, ConnectsAccount DEF FirstRows
  <2>3. \A d \in Collectors : drain'[d].batch = IF d = c THEN FirstRows ELSE drain[d].batch
    BY <2>1 DEF TypeInv, LocalType, Leased
  <2>4. \A d \in Collectors : (pc'[d] = "idle" <=> pc[d] = "idle") /\ (d = c => pc[d] # "idle")
    BY <2>1 DEF TypeInv, LocalType, Goto
  <2>5. JournalOwned'
    BY <2>1 DEF AccountInv, JournalOwned
  <2>6. RunOwned'
    BY <2>1, <2>2, <2>3, <2>4 DEF AccountInv, RunOwned, Clean
  <2> QED
    BY <2>5, <2>6 DEF AccountInv
<1> QED
  BY <1>1, <1>2, <1>3, <1>4 DEF PeekAlternatives

(* The journal still belongs to the account of its identity when rows of   *)
(* the collector's account are added and others are deleted.               *)
LEMMA RowsOwned ==
    ASSUME TypeInv, AccountInv, NEW c \in Collectors, pc[c] # "idle", Connects(c),
           queue'.dir = queue.dir, queue'.id = queue.id,
           \A r \in queue'.rows : r \in queue.rows \/ r.by = TokenOwner[snap[c].token],
           NEW label, label # "idle", Goto(c, label), UNCHANGED <<snap, handle>>,
           \A d \in Collectors : drain'[d].batch \in SUBSET drain[d].batch
    PROVE  AccountInv'
<1>1. /\ queue.dir # 0 /\ queue.id.token \in Tokens
      /\ queue.id.owner \in {NoOwner, TokenOwner[queue.id.token]}
      /\ \A r \in queue.rows : r.by = TokenOwner[queue.id.token]
  BY DEF Connects, AccountInv, JournalOwned
<1>2. TokenOwner[snap[c].token] = TokenOwner[queue.id.token]
  <2>1. queue.id = [owner |-> queue.id.owner, token |-> queue.id.token]
    BY DEF TypeInv, DiskType, Identity
  <2>2. Compatible([owner |-> handle[c].owner, token |-> snap[c].token],
                   [owner |-> queue.id.owner, token |-> queue.id.token])
    BY <2>1 DEF Connects
  <2>3. snap[c].token \in Tokens /\ handle[c].owner \in {NoOwner, TokenOwner[snap[c].token]}
    BY DEF TypeInv, Started, AccountInv, RunOwned
  <2> QED
    BY <1>1, <2>2, <2>3, CompatibleAccount
<1>3. JournalOwned'
  BY <1>1, <1>2 DEF JournalOwned
<1>4. \A d \in Collectors : pc'[d] = "idle" <=> pc[d] = "idle"
  BY DEF Goto, TypeInv, LocalType
<1>5. RunOwned'
  BY <1>4 DEF AccountInv, RunOwned, Clean
<1> QED
  BY <1>3, <1>5 DEF AccountInv

(* A chunk is journaled only for the account of the journal. *)
LEMMA EnqueueOwned ==
    ASSUME TypeInv, AccountInv, NEW c \in Collectors, Enqueue(c)
    PROVE  AccountInv'
<1>1. pc[c] # "idle" /\ Connects(c) /\ UNCHANGED <<snap, handle>>
  BY DEF Enqueue
<1>2. PICK n : queue' = [dir |-> queue.dir, id |-> queue.id,
                         rows |-> queue.rows \union NewRows(c, n), next |-> queue.next + n]
  BY DEF Enqueue
<1>3. \A r \in NewRows(c, n) : r.by = TokenOwner[snap[c].token]
  BY DEF NewRows
<1>4. PICK label \in {"enqueue", "peek"} : Goto(c, label)
  BY DEF Enqueue
<1>5. \A d \in Collectors : drain'[d].batch \in SUBSET drain[d].batch
  <2>1. drain' = drain \/ drain' = [drain EXCEPT ![c] = NewDrain(TRUE)]
    BY DEF Enqueue
  <2>2. \A d \in Collectors : drain'[d] \in {drain[d], NewDrain(TRUE)}
    BY <2>1 DEF TypeInv, LocalType
  <2> QED
    BY <2>2 DEF NewDrain
<1> QED
  BY <1>1, <1>2, <1>3, <1>4, <1>5, RowsOwned

(* Deleting acknowledged rows keeps accounts apart. *)
LEMMA AcknowledgeOwned ==
    ASSUME TypeInv, AccountInv, NEW c \in Collectors, Acknowledge(c)
    PROVE  AccountInv'
<1>1. ASSUME ~Connects(c) PROVE AccountInv'
  BY <1>1, DrainedOwned DEF Acknowledge, DrainFails, disk
<1>2. ASSUME Connects(c) PROVE AccountInv'
  <2>1. /\ pc[c] # "idle" /\ Goto(c, "peek") /\ UNCHANGED <<snap, handle>>
        /\ queue' = [queue EXCEPT !.rows = {r \in queue.rows : \A q \in drain[c].batch : q.seq # r.seq}]
        /\ drain' = [drain EXCEPT ![c] = Leased(drain[c], {}, drain[c].left)]
    BY <1>2 DEF Acknowledge
  <2>2. queue'.dir = queue.dir /\ queue'.id = queue.id /\ queue'.rows \in SUBSET queue.rows
    BY <2>1 DEF TypeInv, DiskType
  <2>3. \A d \in Collectors : drain'[d].batch \in SUBSET drain[d].batch
    BY <2>1 DEF TypeInv, LocalType, Leased
  <2> QED
    BY <1>2, <2>1, <2>2, <2>3, RowsOwned
<1> QED
  BY <1>1, <1>2

(* Every step of a collector keeps accounts apart. *)
LEMMA CollectOwned ==
    ASSUME TypeInv, AccountInv, NEW c \in Collectors, Collect(c)
    PROVE  AccountInv'
<1>1. UNCHANGED disk => UNCHANGED queue
  BY DEF disk
<1>2. UNCHANGED drain => \A d \in Collectors : drain'[d].batch \in SUBSET drain[d].batch
  OBVIOUS
<1>3. ASSUME Start(c) PROVE AccountInv'
  <2>1. /\ pc[c] = "idle" /\ UNCHANGED <<queue, handle, drain>>
        /\ \A d \in Collectors : d # c => pc'[d] = pc[d] /\ snap'[d] = snap[d]
    BY <1>3 DEF Start, Goto, disk, TypeInv, LocalType
  <2>2. JournalOwned'
    BY <2>1 DEF AccountInv, JournalOwned
  <2>3. RunOwned'
    BY <2>1 DEF AccountInv, RunOwned, Clean
  <2> QED
    BY <2>2, <2>3 DEF AccountInv
<1>4. ASSUME Stat(c) PROVE AccountInv'
  <2>1. PICK label \in {"parse", "hello"} : Goto(c, label)
    BY <1>4 DEF Stat
  <2> QED
    BY <1>1, <1>2, <1>4, <2>1, StepOwned DEF Stat
<1>5. ASSUME Parse(c) PROVE AccountInv'
  BY <1>1, <1>2, <1>5, StepOwned DEF Parse
<1>6. ASSUME Hello(c) PROVE AccountInv'
  <2>1. ASSUME Finish(c) PROVE AccountInv'
    BY <1>1, <1>6, <2>1, FinishOwned DEF Hello
  <2>2. ASSUME ~Finish(c) PROVE AccountInv'
    <3>1. PICK owner \in {NoOwner} \union {TokenOwner[snap[c].token]} :
            handle' = [handle EXCEPT ![c].owner = owner]
      BY <1>6, <2>2 DEF Hello
    <3>2. pc[c] # "idle" /\ Goto(c, "open") /\ UNCHANGED <<queue, snap, drain>>
      BY <1>1, <1>6, <2>2 DEF Hello
    <3>3. /\ handle'[c].owner = owner
          /\ \A d \in Collectors : d # c => handle'[d] = handle[d]
          /\ \A d \in Collectors : pc'[d] = "idle" <=> pc[d] = "idle"
      BY <3>1, <3>2 DEF TypeInv, LocalType, Goto
    <3>4. JournalOwned'
      BY <3>2 DEF AccountInv, JournalOwned
    <3>5. RunOwned'
      BY <3>2, <3>3 DEF AccountInv, RunOwned, Clean
    <3> QED
      BY <3>4, <3>5 DEF AccountInv
  <2> QED
    BY <2>1, <2>2
<1>7. ASSUME Send(c) PROVE AccountInv'
  BY <1>1, <1>2, <1>7, StepOwned, FinishOwned DEF Send
<1>8. ASSUME Deliver(c) PROVE AccountInv'
  <2>1. PICK confirms \in Receipts : drain' = [drain EXCEPT ![c].reply = Receipt(c, confirms)]
    BY <1>8 DEF Deliver
  <2>2. \A d \in Collectors : drain'[d].batch \in SUBSET drain[d].batch
    BY <2>1 DEF TypeInv, LocalType, Drain
  <2> QED
    BY <1>8, <2>2, StepOwned DEF Deliver
<1>9. ASSUME LoseReply(c) PROVE AccountInv'
  BY <1>9, DrainedOwned DEF LoseReply
<1>10. ASSUME LoseRequest(c) PROVE AccountInv'
  BY <1>1, <1>10, DrainedOwned DEF LoseRequest, DrainFails
<1>11. ASSUME CheckReceipt(c) PROVE AccountInv'
  <2>1. pc[c] # "idle"
    BY <1>11 DEF CheckReceipt
  <2>2. \/ DrainFails(c)
        \/ Finish(c) /\ UNCHANGED disk
        \/ Goto(c, "ack") /\ UNCHANGED <<disk, snap, seen, handle, plan, drain, down>>
    BY <1>11 DEF CheckReceipt
  <2>3. ASSUME DrainFails(c) PROVE AccountInv'
    BY <1>1, <2>1, <2>3, DrainedOwned DEF DrainFails
  <2>4. ASSUME Goto(c, "ack"), UNCHANGED <<disk, snap, seen, handle, plan, drain, down>>
        PROVE  AccountInv'
    BY <1>1, <1>2, <2>1, <2>4, StepOwned
  <2> QED
    BY <1>1, <2>2, <2>3, <2>4, FinishOwned
<1>12. ASSUME Plan(c) PROVE AccountInv'
  BY <1>1, <1>2, <1>12, StepOwned, FinishOwned DEF Plan
<1>13. ASSUME EnqueueFails(c) PROVE AccountInv'
  BY <1>1, <1>13, FinishOwned DEF EnqueueFails
<1>14. ASSUME CheckCursor(c) PROVE AccountInv'
  BY <1>1, <1>2, <1>14, StepOwned, FinishOwned DEF CheckCursor
<1>15. ASSUME SaveCursor(c) PROVE AccountInv'
  BY <1>15, FinishOwned DEF SaveCursor
<1> QED
  BY <1>3, <1>4, <1>5, <1>6, <1>7, <1>8, <1>9, <1>10, <1>11, <1>12, <1>13, <1>14, <1>15,
     OpenQueueOwned, PeekOwned, AcknowledgeOwned, EnqueueOwned DEF Collect

(* AccountInv is inductive relative to TypeInv. *)
LEMMA AccountInvStep == TypeInv /\ AccountInv /\ [Next]_vars => AccountInv'
<1> SUFFICES ASSUME TypeInv, AccountInv, [Next]_vars PROVE AccountInv'
  OBVIOUS
<1>1. ASSUME UNCHANGED vars PROVE AccountInv'
  BY <1>1, QuietOwned DEF vars
<1>2. ASSUME Log PROVE AccountInv'
  <2>1. UNCHANGED <<queue, pc, snap, handle, drain>>
    BY <1>2 DEF Log, AppendRecord, AppendPartial, RewriteLog, DeleteLog, WriteLog, local
  <2> QED
    BY <2>1, QuietOwned
<1>3. ASSUME NEW t \in Tokens, Upsert(t) PROVE AccountInv'
  BY <1>3, QuietOwned DEF Upsert, local
<1>4. ASSUME Remove PROVE AccountInv'
  <2>1. UNCHANGED <<pc, snap, handle, drain>> /\ queue' = NoDatabase
    BY <1>4 DEF Remove, local
  <2>2. JournalOwned'
    BY <2>1 DEF JournalOwned, NoDatabase
  <2>3. RunOwned'
    BY <2>1 DEF AccountInv, RunOwned, Clean
  <2> QED
    BY <2>2, <2>3 DEF AccountInv
<1>5. ASSUME NEW c \in Collectors, Crash(c) PROVE AccountInv'
  BY <1>5, FinishOwned DEF Crash, disk
<1> QED
  BY <1>1, <1>2, <1>3, <1>4, <1>5, CollectOwned DEF Next, NextAlive, Registry

(* UsageQueue::connect, ensure_identity and QueueIdentity::compatible keep *)
(* the rows of one account apart from every other: whatever tokens the     *)
(* target is given and however collectors, registry commands and crashes   *)
(* interleave, a request on its way carries only rows that were journaled  *)
(* for the account its token authenticates.                                *)
THEOREM AccountsKeptApart == Spec => []RequestsStayWithAccount
<1>1. Init => AccountInv
  BY DEF Init, AccountInv, JournalOwned, RunOwned, Clean, NoDatabase, NoHandle, NoDrain
<1>2. AccountInv => RequestsStayWithAccount
  BY DEF AccountInv, RunOwned, RequestsStayWithAccount
<1> QED
  BY <1>1, <1>2, TypeInvInit, TypeInvStep, AccountInvStep, PTL DEF Spec

-----------------------------------------------------------------------------
(* The journal and the cursor together. *)

(* The generations of the target's directory: only the present one can     *)
(* hold a journal, and no handle refers to a journal not made yet.         *)
Generations ==
    /\ queue.dir \in {0, target.dir}
    /\ queue.dir # 0 => target.present
    /\ queue.dir = 0 => queue.rows = {}
    /\ \A c \in Collectors :
          /\ handle[c].dir <= target.dir
          /\ target.present /\ queue.dir = 0 => handle[c].dir # target.dir

(* Sequence numbers name rows. *)
Named ==
    /\ \A r \in queue.rows : r.seq < queue.next
    /\ \A r, q \in queue.rows : r.seq = q.seq => r = q
    /\ \A c \in Collectors : handle[c].dir = queue.dir /\ queue.dir # 0 =>
          \A q \in drain[c].batch :
             /\ q.seq < queue.next
             /\ \A r \in queue.rows : r.seq = q.seq => r = q

SeqInv == Generations /\ Named

(* The receipt of collector c passes durable::acknowledged. *)
Verified(c) ==
    \/ pc[c] = "ack"
    \/ /\ pc[c] = "reply"
       /\ Acknowledged(drain[c].reply, Cardinality(drain[c].batch), handle[c].owner # NoOwner)

StoredInv ==
    \A c \in Collectors : Verified(c) => \A r \in drain[c].batch : StoredFor(r.key, {r.by})

-----------------------------------------------------------------------------
(* A step that leaves the journal and the registration alone, and in which *)
(* a collector keeps its handle or ends its run and leases nothing new.    *)
LEMMA QuietSeq ==
    ASSUME SeqInv, UNCHANGED <<queue, target>>, TypeInv,
           \A d \in Collectors :
              \/ handle'[d].dir = 0 /\ drain'[d].batch = {}
              \/ handle'[d].dir = handle[d].dir /\ drain'[d].batch \in SUBSET drain[d].batch
    PROVE  SeqInv'
<1>1. target.dir \in Nat \ {0}
  BY DEF TypeInv, DiskType
<1>2. Generations'
  <2>1. \A d \in Collectors : handle'[d].dir \in {0, handle[d].dir}
    OBVIOUS
  <2> QED
    BY <1>1, <2>1 DEF SeqInv, Generations
<1>3. Named'
  <2>1. ASSUME NEW d \in Collectors, handle'[d].dir = queue.dir, queue.dir # 0
        PROVE  drain'[d].batch = {} \/ (handle[d].dir = queue.dir /\ drain'[d].batch \in SUBSET drain[d].batch)
    BY <2>1
  <2> QED
    BY <2>1 DEF SeqInv, Named
<1> QED
  BY <1>2, <1>3 DEF SeqInv

(* The end of a run keeps the sequence numbers in order. *)
LEMMA FinishSeq ==
    ASSUME TypeInv, SeqInv, NEW c \in Collectors, Finish(c), UNCHANGED <<queue, target>>
    PROVE  SeqInv'
<1>1. handle'[c].dir = 0 /\ drain'[c].batch = {}
  BY DEF Finish, TypeInv, LocalType, NoHandle, NoDrain
<1>2. \A d \in Collectors : d # c => handle'[d] = handle[d] /\ drain'[d] = drain[d]
  BY DEF Finish, TypeInv, LocalType
<1> QED
  BY <1>1, <1>2, QuietSeq

(* The return of a drain keeps the sequence numbers in order. *)
LEMMA DrainedSeq ==
    ASSUME TypeInv, SeqInv, NEW c \in Collectors, Drained(c), UNCHANGED <<queue, target, handle>>
    PROVE  SeqInv'
<1>1. \A d \in Collectors : drain'[d] \in {drain[d], NoDrain}
  BY DEF Drained, TypeInv, LocalType
<1>2. \A d \in Collectors : drain'[d].batch \in SUBSET drain[d].batch
  BY <1>1 DEF NoDrain
<1> QED
  BY <1>2, QuietSeq

(* A database created by open starts a new generation. *)
LEMMA OpenQueueSeq ==
    ASSUME TypeInv, SeqInv, NEW c \in Collectors, OpenQueue(c)
    PROVE  SeqInv'
<1>1. ASSUME Finish(c), UNCHANGED disk PROVE SeqInv'
  BY <1>1, FinishSeq DEF disk
<1>2. ASSUME ~(Finish(c) /\ UNCHANGED disk) PROVE SeqInv'
  <2>1. PICK owner, id :
          /\ queue' = [dir |-> target.dir, id |-> id, rows |-> queue.rows, next |-> queue.next]
          /\ handle' = [handle EXCEPT ![c] = [dir |-> target.dir, owner |-> owner]]
    BY <1>2 DEF OpenQueue
  <2>2. target.present /\ UNCHANGED target /\ drain' = [drain EXCEPT ![c] = NewDrain(FALSE)]
    BY <1>2 DEF OpenQueue
  <2>3. queue'.dir = target.dir /\ queue'.rows = queue.rows /\ queue'.next = queue.next
    BY <2>1
  <2>4. /\ handle'[c].dir = target.dir /\ drain'[c].batch = {}
        /\ \A d \in Collectors : d # c => handle'[d] = handle[d] /\ drain'[d] = drain[d]
    BY <2>1, <2>2 DEF TypeInv, LocalType, NewDrain
  <2>5. target.dir \in Nat \ {0}
    BY DEF TypeInv, DiskType
  <2>6. Generations'
    BY <2>2, <2>3, <2>4, <2>5 DEF SeqInv, Generations
  <2>7. Named'
    <3>1. ASSUME NEW d \in Collectors, handle'[d].dir = queue'.dir, NEW q \in drain'[d].batch
          PROVE  q.seq < queue.next /\ \A r \in queue.rows : r.seq = q.seq => r = q
      <4>1. d # c /\ handle[d].dir = target.dir /\ q \in drain[d].batch
        BY <2>3, <2>4, <3>1
      <4>2. queue.dir = target.dir
        BY <2>2, <4>1 DEF SeqInv, Generations
      <4> QED
        BY <2>5, <4>1, <4>2 DEF SeqInv, Named
    <3> QED
      BY <2>3, <3>1 DEF SeqInv, Named
  <2> QED
    BY <2>6, <2>7 DEF SeqInv
<1> QED
  BY <1>1, <1>2

(* Leased rows are rows of the journal that was opened. *)
LEMMA PeekSeq ==
    ASSUME TypeInv, SeqInv, NEW c \in Collectors, Peek(c)
    PROVE  SeqInv'
<1>1. PeekAlternatives(c)
  BY PeekCases
<1>2. ASSUME NothingLeft(c) \/ DrainFails(c) PROVE SeqInv'
  BY <1>2, DrainedSeq DEF NothingLeft, DrainFails, disk
<1>3. ASSUME Finish(c), UNCHANGED disk PROVE SeqInv'
  BY <1>3, FinishSeq DEF disk
<1>4. ASSUME LeaseRows(c) PROVE SeqInv'
  <2>1. /\ UNCHANGED <<queue, target, handle>>
        /\ drain' = [drain EXCEPT ![c] = Leased(drain[c], FirstRows, drain[c].left - 1)]
    BY <1>4 DEF LeaseRows, disk
  <2>2. \A d \in Collectors : drain'[d].batch = IF d = c THEN FirstRows ELSE drain[d].batch
    BY <2>1 DEF TypeInv, LocalType, Leased
  <2>3. FirstRows \in SUBSET queue.rows
    BY DEF FirstRows
  <2>4. Generations'
    BY <2>1 DEF SeqInv, Generations
  <2>5. Named'
    BY <2>1, <2>2, <2>3 DEF SeqInv, Named
  <2> QED
    BY <2>4, <2>5 DEF SeqInv
<1> QED
  BY <1>1, <1>2, <1>3, <1>4 DEF PeekAlternatives

(* Deleting rows keeps the sequence numbers in order. *)
LEMMA AcknowledgeSeq ==
    ASSUME TypeInv, SeqInv, NEW c \in Collectors, Acknowledge(c)
    PROVE  SeqInv'
<1>1. ASSUME ~Connects(c) PROVE SeqInv'
  BY <1>1, DrainedSeq DEF Acknowledge, DrainFails, disk
<1>2. ASSUME Connects(c) PROVE SeqInv'
  <2>1. /\ UNCHANGED <<target, handle>>
        /\ queue' = [queue EXCEPT !.rows = {r \in queue.rows : \A q \in drain[c].batch : q.seq # r.seq}]
        /\ drain' = [drain EXCEPT ![c] = Leased(drain[c], {}, drain[c].left)]
    BY <1>2 DEF Acknowledge
  <2>2. queue'.dir = queue.dir /\ queue'.next = queue.next /\ queue'.rows \in SUBSET queue.rows
    BY <2>1 DEF TypeInv, DiskType
  <2>3. \A d \in Collectors : drain'[d].batch \in SUBSET drain[d].batch
    BY <2>1 DEF TypeInv, LocalType, Leased
  <2>4. Generations'
    BY <2>1, <2>2 DEF SeqInv, Generations
  <2>5. Named'
    BY <2>1, <2>2, <2>3 DEF SeqInv, Named
  <2> QED
    BY <2>4, <2>5 DEF SeqInv
<1> QED
  BY <1>1, <1>2

(* A chunk gets sequence numbers no leased row has. *)
LEMMA EnqueueSeq ==
    ASSUME TypeInv, SeqInv, NEW c \in Collectors, Enqueue(c)
    PROVE  SeqInv'
<1> DEFINE len == Len(plan[c].events)
<1>1. Connects(c) /\ UNCHANGED <<target, handle>> /\ len \in Nat /\ queue.next \in Nat
  BY DEF Enqueue, TypeInv, LocalType, DiskType
<1>2. PICK n \in Halves(Smaller(Chunk, len)) :
        queue' = [dir |-> queue.dir, id |-> queue.id,
                  rows |-> queue.rows \union NewRows(c, n), next |-> queue.next + n]
  BY DEF Enqueue
<1>3. n \in 1..len
  BY <1>1, CollectAssumption DEF Halves, Smaller, CollectAssumption
<1>4. /\ queue'.dir = queue.dir /\ queue'.next = queue.next + n
      /\ queue'.rows = queue.rows \union NewRows(c, n)
  BY <1>2
<1>5. \A d \in Collectors : drain'[d].batch \in SUBSET drain[d].batch
  <2>1. drain' = drain \/ drain' = [drain EXCEPT ![c] = NewDrain(TRUE)]
    BY DEF Enqueue
  <2>2. \A d \in Collectors : drain'[d] \in {drain[d], NewDrain(TRUE)}
    BY <2>1 DEF TypeInv, LocalType
  <2> QED
    BY <2>2 DEF NewDrain
<1>6. /\ \A r \in NewRows(c, n) : r.seq \in queue.next..(queue.next + n - 1)
      /\ \A r, q \in NewRows(c, n) : r.seq = q.seq => r = q
  BY <1>1, <1>3 DEF NewRows
<1>7. queue.dir # 0
  BY <1>1 DEF Connects
<1>8. \A r \in queue.rows : r.seq \in Nat
  BY DEF TypeInv, DiskType, Row
<1>9. \A d \in Collectors : \A q \in drain[d].batch : q.seq \in Nat
  BY DEF TypeInv, LocalType, Drain, Row
<1> HIDE DEF len
<1>10. Generations'
  BY <1>1, <1>4, <1>7 DEF SeqInv, Generations
<1>11. Named'
  <2>1. \A r \in queue'.rows : r.seq < queue'.next
    BY <1>1, <1>3, <1>4, <1>6, <1>8 DEF SeqInv, Named
  <2>2. \A r, q \in queue'.rows : r.seq = q.seq => r = q
    BY <1>1, <1>4, <1>6, <1>8 DEF SeqInv, Named
  <2>3. ASSUME NEW d \in Collectors, handle'[d].dir = queue'.dir, NEW q \in drain'[d].batch
        PROVE  q.seq < queue'.next /\ \A r \in queue'.rows : r.seq = q.seq => r = q
    <3>1. /\ q \in drain[d].batch /\ q.seq \in Nat /\ q.seq < queue.next
          /\ \A r \in queue.rows : r.seq = q.seq => r = q
      BY <1>1, <1>4, <1>5, <1>7, <1>9, <2>3 DEF SeqInv, Named
    <3> QED
      BY <1>1, <1>3, <1>4, <1>6, <3>1
  <2> QED
    BY <2>1, <2>2, <2>3 DEF Named
<1> QED
  BY <1>10, <1>11 DEF SeqInv

(* SeqInv is inductive relative to TypeInv. *)
LEMMA SeqInvStep == TypeInv /\ SeqInv /\ [Next]_vars => SeqInv'
<1> SUFFICES ASSUME TypeInv, SeqInv, [Next]_vars PROVE SeqInv'
  OBVIOUS
<1>1. UNCHANGED disk => UNCHANGED <<queue, target>>
  BY DEF disk
<1>2. ASSUME UNCHANGED <<queue, target, handle, drain>> PROVE SeqInv'
  BY <1>2, QuietSeq
<1>3. ASSUME UNCHANGED vars \/ Log PROVE SeqInv'
  BY <1>2, <1>3
     DEF vars, Log, AppendRecord, AppendPartial, RewriteLog, DeleteLog, WriteLog, local
<1>4. ASSUME NEW t \in Tokens, Upsert(t) PROVE SeqInv'
  <2>1. /\ UNCHANGED <<queue, handle, drain>> /\ target'.present
        /\ target'.dir = IF target.present THEN target.dir ELSE target.dir + 1
    BY <1>4 DEF Upsert, local
  <2>2. /\ target.dir \in Nat \ {0} /\ target.present \in BOOLEAN
        /\ \A c \in Collectors : handle[c].dir \in Nat
    BY DEF TypeInv, DiskType, LocalType
  <2>3. Generations'
    BY <2>1, <2>2 DEF SeqInv, Generations
  <2>4. Named'
    BY <2>1 DEF SeqInv, Named
  <2> QED
    BY <2>3, <2>4 DEF SeqInv
<1>5. ASSUME Remove PROVE SeqInv'
  <2>1. UNCHANGED <<handle, drain>> /\ queue' = NoDatabase /\ ~target'.present /\ target'.dir = target.dir
    BY <1>5 DEF Remove, local
  <2>2. queue'.dir = 0 /\ queue'.rows = {}
    BY <2>1 DEF NoDatabase
  <2> QED
    BY <2>1, <2>2 DEF SeqInv, Generations, Named
<1>6. ASSUME NEW c \in Collectors, Finish(c), UNCHANGED disk PROVE SeqInv'
  BY <1>1, <1>6, FinishSeq
<1>7. ASSUME NEW c \in Collectors, Collect(c) PROVE SeqInv'
  <2>1. ASSUME Start(c) \/ Stat(c) \/ Parse(c) PROVE SeqInv'
    BY <1>1, <1>2, <2>1 DEF Start, Stat, Parse
  <2>2. ASSUME Hello(c), ~Finish(c) PROVE SeqInv'
    <3>1. /\ UNCHANGED <<queue, target, drain>>
          /\ \E owner : handle' = [handle EXCEPT ![c].owner = owner]
      BY <1>1, <2>2 DEF Hello
    <3>2. \A d \in Collectors : handle'[d].dir = handle[d].dir
      BY <3>1 DEF TypeInv, LocalType
    <3> QED
      BY <3>1, <3>2, QuietSeq
  <2>3. ASSUME Hello(c), Finish(c) PROVE SeqInv'
    BY <1>6, <2>3 DEF Hello
  <2>4. ASSUME Send(c) \/ CheckCursor(c) PROVE SeqInv'
    BY <1>1, <1>2, <1>6, <2>4 DEF Send, CheckCursor
  <2>5. ASSUME Deliver(c) PROVE SeqInv'
    <3>1. /\ UNCHANGED <<queue, target, handle>>
          /\ \E reply : drain' = [drain EXCEPT ![c].reply = reply]
      BY <2>5 DEF Deliver
    <3>2. \A d \in Collectors : drain'[d].batch = drain[d].batch
      BY <3>1 DEF TypeInv, LocalType, Drain
    <3> QED
      BY <3>1, <3>2, QuietSeq
  <2>6. ASSUME LoseReply(c) \/ DrainFails(c) PROVE SeqInv'
    BY <1>1, <2>6, DrainedSeq DEF LoseReply, DrainFails
  <2>7. ASSUME CheckReceipt(c) PROVE SeqInv'
    <3>1. \/ DrainFails(c)
          \/ Finish(c) /\ UNCHANGED disk
          \/ UNCHANGED <<disk, handle, drain>>
      BY <2>7 DEF CheckReceipt
    <3> QED
      BY <1>1, <1>2, <1>6, <2>6, <3>1
  <2>8. ASSUME Plan(c) PROVE SeqInv'
    BY <1>1, <1>2, <1>6, <2>8 DEF Plan
  <2>9. ASSUME EnqueueFails(c) PROVE SeqInv'
    BY <1>6, <2>9 DEF EnqueueFails
  <2>10. ASSUME SaveCursor(c) PROVE SeqInv'
    BY <2>10, FinishSeq DEF SaveCursor
  <2> QED
    BY <1>7, <2>1, <2>2, <2>3, <2>4, <2>5, <2>6, <2>7, <2>8, <2>9, <2>10,
       OpenQueueSeq, PeekSeq, AcknowledgeSeq, EnqueueSeq DEF Collect, LoseRequest
<1> QED
  BY <1>3, <1>4, <1>5, <1>6, <1>7 DEF Next, NextAlive, Registry, Crash

-----------------------------------------------------------------------------
(* The server never forgets a key nor gives it to another account. *)
LEMMA StoreGrows ==
    ASSUME TypeInv, [Next]_vars, NEW k \in Keys, store[k] # NoOwner
    PROVE  store'[k] = store[k]
<1>1. ASSUME NEW c \in Collectors, Ingest(c) PROVE store'[k] = store[k]
  BY <1>1 DEF Ingest, Fresh
<1>2. ASSUME UNCHANGED store PROVE store'[k] = store[k]
  BY <1>2
<1>3. ASSUME NEW c \in Collectors, Collect(c) PROVE UNCHANGED store \/ Ingest(c)
  <2>1. ASSUME Start(c) \/ Stat(c) \/ Parse(c) \/ Hello(c) \/ OpenQueue(c) PROVE UNCHANGED store
    BY <2>1 DEF Start, Stat, Parse, Hello, OpenQueue, disk
  <2>2. ASSUME Peek(c) \/ Send(c) \/ LoseRequest(c) PROVE UNCHANGED store
    BY <2>2, PeekCases
       DEF PeekAlternatives, NothingLeft, LeaseRows, Send, LoseRequest, DrainFails, disk
  <2>3. ASSUME CheckReceipt(c) PROVE UNCHANGED store
    BY <2>3 DEF CheckReceipt, DrainFails, disk
  <2>4. ASSUME Acknowledge(c) \/ Plan(c) PROVE UNCHANGED store
    BY <2>4 DEF Acknowledge, Plan, DrainFails, disk
  <2>5. ASSUME Enqueue(c) \/ EnqueueFails(c) \/ CheckCursor(c) \/ SaveCursor(c) PROVE UNCHANGED store
    BY <2>5 DEF Enqueue, EnqueueFails, CheckCursor, SaveCursor, disk
  <2>6. ASSUME Deliver(c) \/ LoseReply(c) PROVE Ingest(c)
    BY <2>6 DEF Deliver, LoseReply
  <2> QED
    BY <1>3, <2>1, <2>2, <2>3, <2>4, <2>5, <2>6 DEF Collect
<1>4. ASSUME UNCHANGED vars \/ Log \/ Registry \/ (\E c \in Collectors : Crash(c))
      PROVE  UNCHANGED store
  BY <1>4 DEF vars, Log, AppendRecord, AppendPartial, RewriteLog, DeleteLog, WriteLog,
              Registry, Upsert, Remove, Crash, disk
<1> QED
  BY <1>1, <1>2, <1>3, <1>4 DEF Next, NextAlive

(* What is stored for an account stays stored for it. *)
LEMMA StoredForStable ==
    ASSUME TypeInv, [Next]_vars, NEW k \in Keys, NEW o \in Owners, StoredFor(k, {o})
    PROVE  StoredFor(k, {o})'
BY StoreGrows, CollectAssumption DEF StoredFor, CollectAssumption

(* A step of one collector leaves what the others keep in memory alone. *)
LEMMA OthersStay ==
    ASSUME TypeInv, NEW c \in Collectors, Collect(c) \/ Crash(c),
           NEW d \in Collectors, d # c
    PROVE  pc'[d] = pc[d] /\ handle'[d] = handle[d] /\ drain'[d] = drain[d]
<1> DEFINE Stay == pc'[d] = pc[d] /\ handle'[d] = handle[d] /\ drain'[d] = drain[d]
<1>1. ASSUME Finish(c) PROVE Stay
  BY <1>1 DEF Finish, Goto, TypeInv, LocalType
<1>2. ASSUME NEW label, Goto(c, label), NEW h, NEW e,
             handle' = handle \/ handle' = [handle EXCEPT ![c] = h],
             drain' = drain \/ drain' = [drain EXCEPT ![c] = e]
      PROVE  Stay
  BY <1>2 DEF Goto, TypeInv, LocalType
<1>3. ASSUME Drained(c), UNCHANGED handle PROVE Stay
  BY <1>2, <1>3 DEF Drained
<1>4. ASSUME Start(c) \/ Stat(c) \/ Parse(c) PROVE Stay
  BY <1>2, <1>4 DEF Start, Stat, Parse
<1>5. ASSUME Hello(c) PROVE Stay
  <2>1. Finish(c) \/ (Goto(c, "open") /\ UNCHANGED drain
                     /\ \E owner : handle' = [handle EXCEPT ![c].owner = owner])
    BY <1>5 DEF Hello
  <2> QED
    BY <1>1, <1>2, <2>1
<1>6. ASSUME OpenQueue(c) PROVE Stay
  <2>1. Finish(c) \/ (Goto(c, "peek") /\ drain' = [drain EXCEPT ![c] = NewDrain(FALSE)]
                     /\ \E h : handle' = [handle EXCEPT ![c] = h])
    BY <1>6 DEF OpenQueue
  <2> QED
    BY <1>1, <1>2, <2>1
<1>7. ASSUME Peek(c) PROVE Stay
  <2>1. \/ Finish(c)
        \/ Drained(c) /\ UNCHANGED handle
        \/ Goto(c, "send") /\ UNCHANGED handle /\ \E e : drain' = [drain EXCEPT ![c] = e]
    BY <1>7, PeekCases DEF PeekAlternatives, NothingLeft, LeaseRows, DrainFails
  <2> QED
    BY <1>1, <1>2, <1>3, <2>1
<1>8. ASSUME Send(c) \/ Plan(c) \/ EnqueueFails(c) \/ CheckCursor(c) \/ SaveCursor(c) \/ Crash(c)
      PROVE  Stay
  BY <1>1, <1>2, <1>8 DEF Send, Plan, EnqueueFails, CheckCursor, SaveCursor, Crash
<1>9. ASSUME Deliver(c) PROVE Stay
  <2>1. Goto(c, "reply") /\ UNCHANGED handle /\ \E reply : drain' = [drain EXCEPT ![c].reply = reply]
    BY <1>9 DEF Deliver
  <2> QED
    BY <1>2, <2>1
<1>10. ASSUME LoseReply(c) \/ LoseRequest(c) PROVE Stay
  BY <1>3, <1>10 DEF LoseReply, LoseRequest, DrainFails
<1>11. ASSUME CheckReceipt(c) PROVE Stay
  <2>1. \/ Finish(c)
        \/ Drained(c) /\ UNCHANGED handle
        \/ Goto(c, "ack") /\ UNCHANGED <<handle, drain>>
    BY <1>11 DEF CheckReceipt, DrainFails
  <2> QED
    BY <1>1, <1>2, <1>3, <2>1
<1>12. ASSUME Acknowledge(c) PROVE Stay
  <2>1. \/ Drained(c) /\ UNCHANGED handle
        \/ Goto(c, "peek") /\ UNCHANGED handle /\ \E e : drain' = [drain EXCEPT ![c] = e]
    BY <1>12 DEF Acknowledge, DrainFails
  <2> QED
    BY <1>2, <1>3, <2>1
<1>13. ASSUME Enqueue(c) PROVE Stay
  <2>1. /\ \E label : Goto(c, label)
        /\ UNCHANGED handle
        /\ drain' = drain \/ drain' = [drain EXCEPT ![c] = NewDrain(TRUE)]
    BY <1>13 DEF Enqueue
  <2> QED
    BY <1>2, <2>1
<1> QED
  BY <1>4, <1>5, <1>6, <1>7, <1>8, <1>9, <1>10, <1>11, <1>12, <1>13 DEF Collect

(* Only the server's answer and its check make a receipt verified. *)
LEMMA WhoVerifies ==
    ASSUME TypeInv, NEW c \in Collectors, Collect(c) \/ Crash(c), Verified(c)'
    PROVE  Deliver(c) \/ (Verified(c) /\ UNCHANGED drain)
<1>1. pc'[c] \in {"reply", "ack"}
  BY DEF Verified
<1>2. ASSUME NEW label, Goto(c, label) PROVE pc'[c] = label
  BY <1>2 DEF Goto, TypeInv, LocalType
<1>3. ~Finish(c)
  BY <1>1, <1>2 DEF Finish
<1>4. ~Drained(c)
  BY <1>1, <1>2 DEF Drained
<1>5. ~(Start(c) \/ Stat(c) \/ Parse(c) \/ Hello(c) \/ OpenQueue(c))
  BY <1>1, <1>2, <1>3 DEF Start, Stat, Parse, Hello, OpenQueue
<1>6. ~(Peek(c) \/ Send(c) \/ LoseReply(c) \/ LoseRequest(c) \/ Acknowledge(c))
  BY <1>1, <1>2, <1>3, <1>4, PeekCases
     DEF PeekAlternatives, NothingLeft, LeaseRows, Send, LoseReply, LoseRequest, Acknowledge, DrainFails
<1>7. ~(Plan(c) \/ Enqueue(c) \/ EnqueueFails(c) \/ CheckCursor(c) \/ SaveCursor(c) \/ Crash(c))
  BY <1>1, <1>2, <1>3 DEF Plan, Enqueue, EnqueueFails, CheckCursor, SaveCursor, Crash
<1>8. ASSUME CheckReceipt(c) PROVE Verified(c) /\ UNCHANGED drain
  BY <1>3, <1>4, <1>8 DEF CheckReceipt, DrainFails, Verified
<1> QED
  BY <1>5, <1>6, <1>7, <1>8 DEF Collect

(* The server's answer passes the check only if it stored every key. *)
LEMMA DeliverStores ==
    ASSUME TypeInv, AccountInv, NEW c \in Collectors, Deliver(c), Verified(c)',
           NEW r \in drain'[c].batch
    PROVE  StoredFor(r.key, {r.by})'
<1> DEFINE token == snap[c].token
           B == drain[c].batch
           A == Accepted(c)
<1>1. PICK confirms \in Receipts : drain' = [drain EXCEPT ![c].reply = Receipt(c, confirms)]
  BY DEF Deliver
<1>2. /\ pc[c] = "wire" /\ pc'[c] = "reply" /\ UNCHANGED <<snap, handle>>
      /\ confirms \in BOOLEAN /\ token \in Tokens /\ IsFiniteSet(B)
  BY CollectAssumption
     DEF Deliver, Goto, TypeInv, LocalType, Started, Finite, CollectAssumption
<1>3. drain'[c].batch = B /\ drain'[c].reply = Receipt(c, confirms)
  BY <1>1 DEF TypeInv, LocalType, Drain
<1>4. r \in B /\ r.key \in Keys /\ r.by = TokenOwner[token]
  <2>1. r \in B /\ B \in SUBSET Row
    BY <1>3 DEF TypeInv, LocalType, Drain
  <2>2. \A q \in B : q.by = TokenOwner[token]
    BY <1>2 DEF AccountInv, RunOwned
  <2> QED
    BY <2>1, <2>2 DEF Row
<1>5. Acknowledged(Receipt(c, confirms), Cardinality(B), handle[c].owner # NoOwner)
  BY <1>2, <1>3 DEF Verified
<1>6. CASE r.key \in Excluded
  BY <1>6 DEF StoredFor
<1>7. CASE r.key \notin Excluded
  <2>1. r.key \in A
    BY <1>4, <1>7 DEF Accepted
  <2>2. store'[r.key] = IF store[r.key] = NoOwner THEN TokenOwner[token] ELSE store[r.key]
    BY <1>4, <2>1 DEF Deliver, Ingest, Fresh
  <2>3. CASE confirms
    <3>1. Receipt(c, confirms).confirmed + Receipt(c, confirms).excluded = Cardinality(B)
      BY <1>2, <1>5, <2>3, ReceiptMeans DEF Acknowledged, TypeInv, TypeOK
    <3>2. store[r.key] \in {NoOwner, TokenOwner[token]}
      BY <1>2, <2>1, <2>3, <3>1, ReceiptMeans DEF TypeInv, TypeOK
    <3> QED
      BY <1>4, <2>2, <3>2 DEF StoredFor
  <2>4. CASE ~confirms
    <3>1. store'[r.key] # NoOwner
      BY <1>2, <2>2, CollectAssumption DEF CollectAssumption
    <3>2. FALSE \in Receipts
      BY <1>2, <2>4
    <3> QED
      BY <3>1, <3>2 DEF StoredFor
  <2> QED
    BY <2>3, <2>4
<1> QED
  BY <1>6, <1>7

(* StoredInv is inductive relative to TypeInv and AccountInv. *)
LEMMA StoredInvStep == TypeInv /\ AccountInv /\ StoredInv /\ [Next]_vars => StoredInv'
<1> SUFFICES ASSUME TypeInv, AccountInv, StoredInv, [Next]_vars,
                    NEW d \in Collectors, Verified(d)', NEW r \in drain'[d].batch
             PROVE  StoredFor(r.key, {r.by})'
  BY DEF StoredInv
<1>1. ASSUME Verified(d), drain'[d] = drain[d] PROVE StoredFor(r.key, {r.by})'
  <2>1. r \in drain[d].batch /\ r.key \in Keys /\ r.by \in Owners
    BY <1>1 DEF TypeInv, LocalType, Drain, Row
  <2>2. StoredFor(r.key, {r.by})
    BY <1>1, <2>1 DEF StoredInv
  <2> QED
    BY <2>1, <2>2, StoredForStable
<1>2. ASSUME pc'[d] = pc[d], handle'[d] = handle[d], drain'[d] = drain[d]
      PROVE  StoredFor(r.key, {r.by})'
  <2>1. Verified(d)
    BY <1>2 DEF Verified
  <2> QED
    BY <1>1, <1>2, <2>1
<1>3. ASSUME UNCHANGED vars \/ Log \/ Registry PROVE StoredFor(r.key, {r.by})'
  <2>1. UNCHANGED <<pc, handle, drain>>
    BY <1>3 DEF vars, Log, AppendRecord, AppendPartial, RewriteLog, DeleteLog, WriteLog,
                Registry, Upsert, Remove, local
  <2> QED
    BY <1>2, <2>1
<1>4. ASSUME NEW c \in Collectors, Collect(c) \/ Crash(c) PROVE StoredFor(r.key, {r.by})'
  <2>1. CASE d # c
    BY <1>2, <1>4, <2>1, OthersStay
  <2>2. CASE d = c
    BY <1>1, <1>4, <2>2, WhoVerifies, DeliverStores
  <2> QED
    BY <2>1, <2>2
<1> QED
  BY <1>3, <1>4 DEF Next, NextAlive

-----------------------------------------------------------------------------
(* A row that leaves a live journal is the row a verified receipt covers. *)
LEMMA RowsLeaveStep ==
    ASSUME TypeInv, AccountInv, SeqInv, StoredInv, [Next]_vars,
           queue'.dir = queue.dir, NEW r \in queue.rows \ queue'.rows
    PROVE  StoredFor(r.key, {r.by})
<1>1. ~UNCHANGED queue
  OBVIOUS
<1>2. ~(UNCHANGED vars \/ Log \/ \E t \in Tokens : Upsert(t))
  BY <1>1 DEF vars, Log, AppendRecord, AppendPartial, RewriteLog, DeleteLog, WriteLog, Upsert
<1>3. ~Remove
  <2>1. ASSUME Remove PROVE queue.rows = {}
    BY <2>1 DEF Remove, NoDatabase, SeqInv, Generations
  <2> QED
    BY <2>1
<1>4. PICK c \in Collectors : Collect(c) \/ Crash(c)
  BY <1>2, <1>3 DEF Next, NextAlive, Registry
<1>5. ~(Start(c) \/ Stat(c) \/ Parse(c) \/ Hello(c) \/ Crash(c))
  BY <1>1 DEF Start, Stat, Parse, Hello, Crash, disk
<1>6. ~OpenQueue(c)
  <2>1. ASSUME OpenQueue(c) PROVE queue'.rows = queue.rows
    <3>1. UNCHANGED disk \/ \E id : queue' = [dir |-> target.dir, id |-> id,
                                             rows |-> queue.rows, next |-> queue.next]
      BY <2>1 DEF OpenQueue
    <3> QED
      BY <3>1 DEF disk
  <2> QED
    BY <2>1
<1>7. ~(Peek(c) \/ Send(c) \/ Deliver(c) \/ LoseReply(c) \/ LoseRequest(c) \/ CheckReceipt(c))
  <2>1. ~(Peek(c) \/ Send(c))
    BY <1>1, PeekCases DEF PeekAlternatives, NothingLeft, LeaseRows, Send, DrainFails, disk
  <2>2. ~(Deliver(c) \/ LoseReply(c) \/ LoseRequest(c))
    BY <1>1 DEF Deliver, LoseReply, LoseRequest, DrainFails, disk
  <2>3. ~CheckReceipt(c)
    BY <1>1 DEF CheckReceipt, DrainFails, disk
  <2> QED
    BY <2>1, <2>2, <2>3
<1>8. ~(Plan(c) \/ EnqueueFails(c) \/ CheckCursor(c) \/ SaveCursor(c))
  BY <1>1 DEF Plan, EnqueueFails, CheckCursor, SaveCursor, disk
<1>9. ~Enqueue(c)
  <2>1. ASSUME Enqueue(c) PROVE queue.rows \in SUBSET queue'.rows
    <3>1. \E n : queue' = [dir |-> queue.dir, id |-> queue.id,
                           rows |-> queue.rows \union NewRows(c, n), next |-> queue.next + n]
      BY <2>1 DEF Enqueue
    <3> QED
      BY <3>1
  <2> QED
    BY <2>1
<1>10. Acknowledge(c)
  BY <1>4, <1>5, <1>6, <1>7, <1>8, <1>9 DEF Collect
<1>11. /\ Connects(c) /\ Verified(c)
       /\ queue' = [queue EXCEPT !.rows = {q \in queue.rows : \A b \in drain[c].batch : b.seq # q.seq}]
  BY <1>1, <1>10 DEF Acknowledge, DrainFails, Verified, disk
<1>12. PICK q \in drain[c].batch : q.seq = r.seq
  BY <1>11 DEF TypeInv, DiskType
<1>13. r = q
  BY <1>11, <1>12 DEF Connects, SeqInv, Named
<1> QED
  BY <1>11, <1>12, <1>13 DEF StoredInv

(* UsageQueue::acknowledge never loses usage: for any number of            *)
(* collectors, any interleaving with removals, new tokens and crashes, and *)
(* however late a receipt is applied, a row leaves a live journal only     *)
(* when the server holds its key for the account that journaled it (or     *)
(* declared the key excluded, or is an old server that holds the key).     *)
THEOREM NoRowLost == Spec => RowsLeaveOnlyDelivered
<1>1. Init => AccountInv /\ SeqInv /\ StoredInv
  <2>1. Init => AccountInv
    BY DEF Init, AccountInv, JournalOwned, RunOwned, Clean, NoDatabase, NoHandle, NoDrain
  <2>2. Init => SeqInv
    BY DEF Init, SeqInv, Generations, Named, NoDatabase, NoHandle, NoDrain
  <2>3. Init => StoredInv
    BY DEF Init, StoredInv, Verified
  <2> QED
    BY <2>1, <2>2, <2>3
<1> DEFINE Inv == TypeInv /\ AccountInv /\ SeqInv /\ StoredInv
           Leaves == queue'.dir = queue.dir =>
                        \A r \in queue.rows \ queue'.rows : StoredFor(r.key, {r.by})
<1>2. Init => Inv
  BY <1>1, TypeInvInit
<1>3. Inv /\ [Next]_vars => Inv'
  BY TypeInvStep, AccountInvStep, SeqInvStep, StoredInvStep
<1>4. Inv /\ [Next]_vars => [Leaves]_vars
  BY RowsLeaveStep
<1> HIDE DEF Inv
<1>5. Spec => []Inv
  BY <1>2, <1>3, PTL DEF Spec
<1>6. []Inv /\ [][Next]_vars => [][Leaves]_vars
  BY <1>4, PTL
<1> QED
  BY <1>5, <1>6, PTL DEF Spec, RowsLeaveOnlyDelivered

-----------------------------------------------------------------------------
(* What the journal holds changes by an enqueue, by an acknowledgement and *)
(* by the removal of the target only, and only an enqueue adds to it.      *)
LEMMA OnlyEnqueueAdds ==
    ASSUME TypeInv, [Next]_vars, ~\E c \in Collectors : Enqueue(c)
    PROVE  queue'.rows \subseteq queue.rows
<1>1. ASSUME UNCHANGED queue  PROVE queue'.rows \subseteq queue.rows
  BY <1>1
<1>2. ASSUME UNCHANGED vars \/ Log \/ \E t \in Tokens : Upsert(t)  PROVE UNCHANGED queue
  BY <1>2 DEF vars, Log, AppendRecord, AppendPartial, RewriteLog, DeleteLog, WriteLog, Upsert
<1>3. ASSUME Remove  PROVE queue'.rows = {}
  BY <1>3 DEF Remove, NoDatabase
<1>4. ASSUME NEW c \in Collectors, Crash(c)  PROVE UNCHANGED queue
  BY <1>4 DEF Crash, disk
<1>5. ASSUME NEW c \in Collectors, Collect(c)  PROVE queue'.rows \subseteq queue.rows
  <2>1. CASE Start(c) \/ Stat(c) \/ Parse(c) \/ Hello(c)
    BY <2>1, <1>1 DEF Start, Stat, Parse, Hello, disk
  <2>2. CASE OpenQueue(c)
    <3>1. UNCHANGED disk \/ \E id : queue' = [dir |-> target.dir, id |-> id,
                                             rows |-> queue.rows, next |-> queue.next]
      BY <2>2 DEF OpenQueue
    <3> QED  BY <3>1 DEF disk
  <2>3. CASE Peek(c) \/ Send(c)
    BY <2>3, <1>1, PeekCases DEF PeekAlternatives, NothingLeft, LeaseRows, Send, DrainFails, disk
  <2>4. CASE Deliver(c) \/ LoseReply(c) \/ LoseRequest(c)
    BY <2>4, <1>1 DEF Deliver, LoseReply, LoseRequest, DrainFails, disk
  <2>5. CASE CheckReceipt(c)
    BY <2>5, <1>1 DEF CheckReceipt, DrainFails, disk
  <2>6. CASE Acknowledge(c)
    <3>1. \/ UNCHANGED queue
          \/ queue' = [queue EXCEPT !.rows = {r \in @ : \A q \in drain[c].batch : q.seq # r.seq}]
      BY <2>6 DEF Acknowledge, DrainFails, disk
    <3>2. queue \in [dir : 0..(MaxRemovals + 1), id : Identity, rows : SUBSET Row, next : Nat]
      BY DEF TypeInv, DiskType
    <3> QED  BY <3>1, <3>2
  <2>7. CASE Plan(c) \/ EnqueueFails(c) \/ CheckCursor(c) \/ SaveCursor(c)
    BY <2>7, <1>1 DEF Plan, EnqueueFails, CheckCursor, SaveCursor, disk
  <2> QED  BY <1>5, <2>1, <2>2, <2>3, <2>4, <2>5, <2>6, <2>7 DEF Collect
<1> QED  BY <1>1, <1>2, <1>3, <1>4, <1>5 DEF Next, NextAlive, Registry

(* The journal has one row per key, and within its limit.                  *)
OnePerKey == \A r, q \in queue.rows : r.key = q.key => r = q
BoundInv == OnePerKey /\ JournalBounded

(* The rows of one enqueue have keys of the chunk that are not pending,    *)
(* each once.                                                              *)
LEMMA NewRowsKeys ==
    ASSUME TypeInv, NEW c \in Collectors, NEW n \in 1..Len(plan[c].events)
    PROVE  /\ \A r \in NewRows(c, n) : /\ r.key \notin QueueKeys
                                       /\ r.key \in KeysOf(SubSeq(plan[c].events, 1, n))
                                       /\ r.by = TokenOwner[snap[c].token]
           /\ \A r, q \in NewRows(c, n) : r.key = q.key => r = q

<1> DEFINE ev == plan[c].events
           row(i) == [seq |-> queue.next + i - 1, key |-> ev[i], by |-> TokenOwner[snap[c].token]]
           J == {j \in 1..n : ev[j] \notin QueueKeys /\ \A h \in 1..(j - 1) : ev[h] # ev[j]}
<1>1. ev \in Seq(Keys) /\ Len(ev) \in Nat /\ n \in Nat /\ n <= Len(ev)
  BY DEF TypeInv, LocalType
<1>2. \A i \in 1..n : ev[i] \in Keys
  BY <1>1, ElementOfSeq
<1>3. SubSeq(ev, 1, n) \in Seq(Keys) /\ Len(SubSeq(ev, 1, n)) = n /\ \A i \in 1..n : SubSeq(ev, 1, n)[i] = ev[i]
  <2> HIDE DEF ev
  <2>1. 1 \in Int /\ n \in Int /\ 1 <= n /\ n - 1 + 1 = n
    BY <1>1
  <2>2. \A i \in 1..n : 1 + i - 1 = i
    OBVIOUS
  <2> QED  BY <1>2, <2>1, <2>2, SubSeqProperties
<1> HIDE DEF ev
<1>4. KeysOf(SubSeq(ev, 1, n)) = {ev[i] : i \in 1..n}
  BY <1>3 DEF KeysOf
<1>5. NewRows(c, n) = {row(i) : i \in J}
  BY DEF NewRows, ev
<1>6. \A i \in 1..n : \A j \in 1..n : i < j => i \in 1..(j - 1)
  BY <1>1
<1>7. \A i, j \in J : ev[i] = ev[j] => i = j
  <2>1. \A i, j \in J : ~(i < j /\ ev[i] = ev[j])
    BY <1>6
  <2> QED  BY <1>1, <2>1
<1>8. \A r, q \in NewRows(c, n) : r.key = q.key => r = q
  <2> SUFFICES ASSUME NEW i \in J, NEW j \in J, row(i).key = row(j).key  PROVE row(i) = row(j)
    BY <1>5
  <2> QED  BY <1>7
<1>9. \A r \in NewRows(c, n) : /\ r.key \notin QueueKeys /\ r.key \in KeysOf(SubSeq(ev, 1, n))
                               /\ r.by = TokenOwner[snap[c].token]
  BY <1>4, <1>5
<1> QED  BY <1>8, <1>9 DEF ev

(* An enqueue that fits leaves the journal within its limit.               *)
LEMMA EnqueueBounded ==
    ASSUME TypeInv, OnePerKey, NEW c \in Collectors, Enqueue(c)
    PROVE  BoundInv'
<1> DEFINE len == Len(plan[c].events)
<1>1. PICK n \in Halves(Smaller(Chunk, len)) :
        /\ Fits(c, n)
        /\ queue' = [dir |-> queue.dir, id |-> queue.id,
                     rows |-> queue.rows \union NewRows(c, n), next |-> queue.next + n]
  BY DEF Enqueue
<1>2. n \in 1..len
  BY CollectAssumption DEF Halves, Smaller, TypeInv, LocalType
<1> DEFINE chunk == SubSeq(plan[c].events, 1, n)
           T == QueueKeys \union KeysOf(chunk)
           S == queue.rows \union NewRows(c, n)
           f == [r \in S |-> r.key]
<1>3. /\ \A r \in NewRows(c, n) : r.key \notin QueueKeys /\ r.key \in KeysOf(chunk)
      /\ \A r, q \in NewRows(c, n) : r.key = q.key => r = q
  BY <1>2, NewRowsKeys
<1>4. \A r \in queue.rows : r.key \in QueueKeys
  BY DEF QueueKeys
<1>5. \A r, q \in S : r.key = q.key => r = q
  BY <1>3, <1>4 DEF OnePerKey
<1>6. f \in Injection(S, T)
  <2>1. \A r \in S : r.key \in T
    BY <1>3, <1>4
  <2> HIDE DEF S, T
  <2> QED  BY <1>5, <2>1 DEF Injection, IsInjective
<1>7. IsFiniteSet(T)
  <2>1. IsFiniteSet(QueueKeys)
    <3> DEFINE g == [r \in queue.rows |-> r.key]
    <3>1. g \in Surjection(queue.rows, QueueKeys)
      BY DEF Surjection, QueueKeys
    <3> HIDE DEF g
    <3> QED  BY <3>1, FS_Surjection DEF TypeInv, Finite
  <2>2. IsFiniteSet(KeysOf(chunk))
    <3>1. Len(chunk) \in Nat
      <4>1. \A i \in 1..n : plan[c].events[i] \in Keys
        BY <1>2, ElementOfSeq DEF TypeInv, LocalType
      <4> QED  BY <1>2, <4>1, SubSeqProperties
    <3> HIDE DEF chunk
    <3> DEFINE g == [i \in 1..Len(chunk) |-> chunk[i]]
    <3>2. g \in Surjection(1..Len(chunk), KeysOf(chunk))
      BY DEF Surjection, KeysOf
    <3>3. IsFiniteSet(1..Len(chunk))
      BY <3>1, FS_Interval
    <3> HIDE DEF g
    <3> QED  BY <3>2, <3>3, FS_Surjection
  <2> QED  BY <2>1, <2>2, FS_Union
<1> HIDE DEF f, T, S
<1>8. IsFiniteSet(S) /\ Cardinality(S) <= Cardinality(T)
  BY <1>6, <1>7, FS_Injection
<1>9. Cardinality(T) <= MaxBytes
  BY <1>1 DEF Fits, T, chunk
<1>10. Cardinality(S) \in Nat /\ Cardinality(T) \in Nat /\ MaxBytes \in Nat
  BY <1>7, <1>8, FS_CardinalityType, CollectAssumption
<1>11. queue'.rows = S
  BY <1>1 DEF S
<1> QED  BY <1>5, <1>8, <1>9, <1>10, <1>11 DEF BoundInv, OnePerKey, JournalBounded

(* The journal never holds more than its limit, however many collectors    *)
(* enqueue into it (UsageQueue::enqueue compares before it inserts, in one *)
(* transaction, and a key has one row).                                    *)
THEOREM JournalNeverOverfull == Spec => []JournalBounded
<1>1. Init => BoundInv
  BY FS_EmptySet, CollectAssumption DEF Init, NoDatabase, BoundInv, OnePerKey, JournalBounded
<1>2. TypeInv /\ BoundInv /\ [Next]_vars => BoundInv'
  <2> SUFFICES ASSUME TypeInv, BoundInv, [Next]_vars  PROVE BoundInv'
    OBVIOUS
  <2>1. CASE \E c \in Collectors : Enqueue(c)
    BY <2>1, EnqueueBounded DEF BoundInv
  <2>2. CASE ~\E c \in Collectors : Enqueue(c)
    <3>1. queue'.rows \subseteq queue.rows
      BY <2>2, OnlyEnqueueAdds
    <3>2. /\ Cardinality(queue'.rows) <= Cardinality(queue.rows)
          /\ Cardinality(queue'.rows) \in Nat /\ Cardinality(queue.rows) \in Nat /\ MaxBytes \in Nat
      BY <3>1, FS_Subset, FS_CardinalityType, CollectAssumption DEF TypeInv, Finite
    <3> QED  BY <3>1, <3>2 DEF BoundInv, OnePerKey, JournalBounded
  <2> QED  BY <2>1, <2>2
<1>3. BoundInv => JournalBounded
  BY DEF BoundInv
<1> QED  BY <1>1, <1>2, <1>3, TypeInvInit, TypeInvStep, PTL DEF Spec

-----------------------------------------------------------------------------
(* The read position never runs ahead of what is committed.                *)

(* The key is in the journal, or stored. *)
Safe(k) == k \in QueueKeys \/ StoredFor(k, TargetAccounts)

(* The records of one version of the log that the log still holds. *)
Kept(s) == written[s] \intersect KeysOf(file.recs)

(* The log: a version 0 holds nothing, and so does a deleted log. *)
LogClean == written[0] = {} /\ (~file.present => file.recs = <<>>)

(* The cursor: what its version holds, and the prefix it says was sent.    *)
CursorSafe ==
    /\ cursor.stamp <= file.stamp
    /\ \A k \in Kept(cursor.stamp) \union KeysOf(cursor.sent) : Safe(k)

(* What a run remembers is of the past, and nothing before it starts. *)
Remembers(c) ==
    /\ snap[c].rev <= target.rev
    /\ seen[c].stamp <= file.stamp
    /\ plan[c].update.stamp <= file.stamp
    /\ pc[c] = "idle" => seen[c] = NoSeen /\ plan[c] = NoPlan
    /\ pc[c] = "save" => plan[c].events = <<>>

(* A run that may still save: its registration is the present one, or it   *)
(* compared it for the last time.                                          *)
MaySave(c) == Current(c) \/ pc[c] = "save"

(* What it has parsed covers the version it will name ... *)
SeenCovers(c) ==
    pc[c] # "parse" => \A k \in Kept(seen[c].stamp) : Safe(k) \/ k \in KeysOf(seen[c].recs)

(* ... and what it plans to save is safe but for the records it still has  *)
(* to enqueue.                                                             *)
PlanCovers(c) ==
    \A k \in Kept(plan[c].update.stamp) \union KeysOf(plan[c].update.sent) :
        Safe(k) \/ k \in KeysOf(plan[c].events)

RunCovers(c) == Remembers(c) /\ (MaySave(c) => SeenCovers(c) /\ PlanCovers(c))

CoverInv == LogClean /\ CursorSafe /\ \A c \in Collectors : RunCovers(c)

(* The hypothesis: no target is removed while a collector is between its   *)
(* last comparison of the registration and cursor::save.                   *)
RemovalWaits == [][target.present /\ ~target'.present => \A c \in Collectors : pc[c] # "save"]_vars

-----------------------------------------------------------------------------
(* Less-than as a relation. *)
Before == {p \in Nat \X Nat : p[1] < p[2]}

(* A nonempty set of natural numbers has a least one. *)
LEMMA LeastOf ==
    ASSUME NEW D \in SUBSET Nat, D # {}
    PROVE  \E i \in D : \A j \in D : i <= j
<1>1. OpToRel(<, Nat) = Before
  BY DEF OpToRel, Before
<1>2. IsWellFoundedOn(Before, Nat)
  BY <1>1, NatLessThanWellFounded
<1>3. PICK i \in D : \A j \in D : <<j, i>> \notin Before
  BY <1>2, WFMin
<1>4. \A j \in D : j < i => <<j, i>> \in Before
  BY DEF Before
<1>5. \A j \in D : ~(j < i)
  BY <1>3, <1>4
<1>6. \A j \in D : i <= j
  BY <1>5
<1> QED  BY <1>6

(* After an enqueue every record of the chunk is in the journal, and the   *)
(* others are still to come.                                               *)
LEMMA ChunkJournaled ==
    ASSUME TypeInv, NEW c \in Collectors, Enqueue(c), NEW k \in KeysOf(plan[c].events)
    PROVE  k \in QueueKeys' \/ k \in KeysOf(plan[c].events)'
<1> DEFINE ev == plan[c].events
           len == Len(ev)
<1>1. PICK n \in Halves(Smaller(Chunk, len)) :
        /\ queue' = [dir |-> queue.dir, id |-> queue.id,
                     rows |-> queue.rows \union NewRows(c, n), next |-> queue.next + n]
        /\ plan' = [plan EXCEPT ![c].events = SubSeq(ev, n + 1, len)]
  BY DEF Enqueue
<1>2. ev \in Seq(Keys) /\ len \in Nat /\ n \in 1..len
  BY CollectAssumption DEF Halves, Smaller, TypeInv, LocalType
<1>3. plan'[c].events = SubSeq(ev, n + 1, len) /\ queue'.rows = queue.rows \union NewRows(c, n)
  BY <1>1 DEF TypeInv, LocalType
<1>4. PICK i \in 1..len : ev[i] = k
  BY DEF KeysOf
<1> HIDE DEF len
<1>5. CASE i > n
  <2>1. \A j \in (n + 1)..len : ev[j] \in Keys
    BY <1>2, ElementOfSeq DEF len
  <2>2. /\ Len(SubSeq(ev, n + 1, len)) = len - n
        /\ SubSeq(ev, n + 1, len)[i - n] = ev[i]
    <3> HIDE DEF ev
    <3>1. n + 1 \in Int /\ len \in Int /\ i - n \in 1..(len - (n + 1) + 1) /\ n + 1 + (i - n) - 1 = i
      BY <1>2, <1>5
    <3>2. IF n + 1 <= len THEN len - (n + 1) + 1 = len - n ELSE FALSE
      BY <1>2, <1>5
    <3> QED  BY <2>1, <3>1, <3>2, SubSeqProperties
  <2>3. i - n \in 1..(len - n)
    BY <1>2, <1>5
  <2> QED  BY <1>3, <1>4, <2>2, <2>3 DEF KeysOf
<1>6. CASE i <= n
  <2> DEFINE D == {j \in 1..n : ev[j] = k}
  <2>1. D \in SUBSET Nat /\ D # {}
    BY <1>2, <1>4, <1>6
  <2> HIDE DEF D
  <2>2. PICK m \in D : \A j \in D : m <= j
    BY <2>1, LeastOf
  <2>3. m \in 1..n /\ ev[m] = k
    BY DEF D
  <2>4. \A h \in 1..(m - 1) : ev[h] # k
    <3> SUFFICES ASSUME NEW h \in 1..(m - 1), ev[h] = k  PROVE FALSE
      OBVIOUS
    <3>1. h \in D
      BY <1>2, <2>3 DEF D
    <3> QED  BY <2>2, <2>3, <3>1
  <2>5. CASE k \in QueueKeys
    BY <1>3, <2>5 DEF QueueKeys
  <2>6. CASE k \notin QueueKeys
    <3>1. [seq |-> queue.next + m - 1, key |-> ev[m], by |-> TokenOwner[snap[c].token]] \in NewRows(c, n)
      BY <2>3, <2>4, <2>6 DEF NewRows
    <3> QED  BY <1>3, <2>3, <3>1 DEF QueueKeys
  <2> QED  BY <2>5, <2>6
<1> QED  BY <1>2, <1>4, <1>5, <1>6

(* What one collector's step leaves alone. *)
LEMMA RunFrame ==
    ASSUME NEW c \in Collectors, Collect(c) \/ Crash(c)
    PROVE  UNCHANGED <<file, written, target>> /\ (UNCHANGED cursor \/ SaveCursor(c))
<1>1. CASE Start(c) \/ Stat(c) \/ Parse(c) \/ Hello(c) \/ Crash(c)
  BY <1>1 DEF Start, Stat, Parse, Hello, Crash, disk
<1>2. CASE OpenQueue(c)
  BY <1>2 DEF OpenQueue, disk
<1>3. CASE Peek(c) \/ Send(c)
  BY <1>3, PeekCases DEF PeekAlternatives, NothingLeft, LeaseRows, Send, DrainFails, disk
<1>4. CASE Deliver(c) \/ LoseReply(c) \/ LoseRequest(c)
  BY <1>4 DEF Deliver, LoseReply, LoseRequest, DrainFails, disk
<1>5. CASE CheckReceipt(c) \/ Acknowledge(c)
  BY <1>5 DEF CheckReceipt, Acknowledge, DrainFails, disk
<1>6. CASE Plan(c) \/ Enqueue(c) \/ EnqueueFails(c) \/ CheckCursor(c) \/ SaveCursor(c)
  BY <1>6 DEF Plan, Enqueue, EnqueueFails, CheckCursor, SaveCursor, disk
<1> QED  BY <1>1, <1>2, <1>3, <1>4, <1>5, <1>6 DEF Collect

(* The registration changes by the registry commands only, and then has a  *)
(* new revision.                                                           *)
LEMMA NewRevision ==
    ASSUME TypeInv, [Next]_vars
    PROVE  /\ target'.rev \in {target.rev, target.rev + 1}
           /\ \A c \in Collectors : pc'[c] = "save" /\ pc[c] # "save" => Current(c)
<1>1. ASSUME UNCHANGED vars \/ Log  PROVE UNCHANGED <<target, pc>>
  BY <1>1 DEF vars, Log, AppendRecord, AppendPartial, RewriteLog, DeleteLog, WriteLog, local
<1>2. ASSUME Registry  PROVE target'.rev = target.rev + 1 /\ UNCHANGED pc
  BY <1>2 DEF Registry, Upsert, Remove, local
<1>3. ASSUME NEW c \in Collectors, Collect(c) \/ Crash(c)  PROVE UNCHANGED target
  BY <1>3, RunFrame
<1>4. ASSUME NEW c \in Collectors, Collect(c) \/ Crash(c), NEW d \in Collectors,
             pc'[d] = "save", pc[d] # "save"
      PROVE  Current(d)
  <2>1. d = c
    BY <1>4, OthersStay
  <2>2. ASSUME NEW label, label # "save", Goto(c, label)  PROVE FALSE
    BY <1>4, <2>1, <2>2 DEF Goto, TypeInv, LocalType
  <2>3. ~Finish(c)
    BY <2>2 DEF Finish
  <2>4. ~Drained(c)
    BY <2>2 DEF Drained
  <2>5. ~(Start(c) \/ Stat(c) \/ Parse(c) \/ Hello(c) \/ OpenQueue(c) \/ Crash(c))
    BY <2>2, <2>3 DEF Start, Stat, Parse, Hello, OpenQueue, Crash
  <2>6. ~(Peek(c) \/ Send(c) \/ Deliver(c) \/ LoseReply(c) \/ LoseRequest(c))
    BY <2>2, <2>3, <2>4, PeekCases
       DEF PeekAlternatives, NothingLeft, LeaseRows, DrainFails, Send, Deliver, LoseReply, LoseRequest
  <2>7. ~(CheckReceipt(c) \/ Acknowledge(c))
    BY <2>2, <2>3, <2>4 DEF CheckReceipt, Acknowledge, DrainFails
  <2>8. ~(Plan(c) \/ Enqueue(c) \/ EnqueueFails(c) \/ SaveCursor(c))
    BY <2>2, <2>3 DEF Plan, Enqueue, EnqueueFails, SaveCursor
  <2>9. CheckCursor(c)
    BY <1>4, <2>5, <2>6, <2>7, <2>8 DEF Collect
  <2> QED  BY <2>1, <2>3, <2>9 DEF CheckCursor
<1> QED  BY <1>1, <1>2, <1>3, <1>4 DEF Next, NextAlive

(* A run that may save after a step could do so before it. *)
LEMMA MaySaveBefore ==
    ASSUME TypeInv, [Next]_vars, NEW c \in Collectors, Remembers(c), MaySave(c)', snap'[c] = snap[c]
    PROVE  MaySave(c)
<1>1. target.rev \in Nat /\ snap[c].rev \in Nat /\ snap[c].rev <= target.rev
  BY DEF TypeInv, DiskType, LocalType, Remembers
<1>2. Current(c)' => Current(c)
  BY <1>1, NewRevision DEF Current
<1> QED  BY <1>2, NewRevision DEF MaySave

(* A key that is safe stays so, unless the target is removed. *)
LEMMA SafeStays ==
    ASSUME TypeInv, AccountInv, SeqInv, StoredInv, [Next]_vars, ~Remove, NEW k \in Keys, Safe(k)
    PROVE  Safe(k)'
<1>1. TargetAccounts \subseteq Owners
  BY CollectAssumption DEF TargetAccounts
<1>2. ASSUME StoredFor(k, TargetAccounts)  PROVE Safe(k)'
  <2>1. store[k] # NoOwner => store'[k] = store[k]
    BY StoreGrows
  <2>2. store[k] \in TargetAccounts => store[k] # NoOwner
    BY <1>1, CollectAssumption
  <2> QED  BY <1>2, <2>1, <2>2 DEF Safe, StoredFor
<1>3. ASSUME NEW r \in queue.rows, r.key = k, r \notin queue'.rows, queue'.dir = queue.dir
      PROVE  StoredFor(k, TargetAccounts)
  <2>1. StoredFor(k, {r.by})
    BY <1>3, RowsLeaveStep
  <2>2. r.by \in TargetAccounts
    <3>1. queue.dir # 0 /\ queue.id.token \in Tokens /\ r.by = TokenOwner[queue.id.token]
      BY DEF AccountInv, JournalOwned
    <3> QED  BY <3>1 DEF TargetAccounts
  <2> QED  BY <2>1, <2>2 DEF StoredFor
<1>4. queue'.dir = queue.dir \/ queue'.rows = queue.rows
  <2>1. ASSUME UNCHANGED vars \/ Log \/ \E t \in Tokens : Upsert(t)  PROVE UNCHANGED queue
    BY <2>1 DEF vars, Log, AppendRecord, AppendPartial, RewriteLog, DeleteLog, WriteLog, Upsert
  <2>2. ASSUME NEW c \in Collectors, Collect(c) \/ Crash(c)
        PROVE  queue'.dir = queue.dir \/ queue'.rows = queue.rows
    <3>1. CASE Start(c) \/ Stat(c) \/ Parse(c) \/ Hello(c) \/ Crash(c)
      BY <3>1 DEF Start, Stat, Parse, Hello, Crash, disk
    <3>2. CASE OpenQueue(c)
      <4>1. UNCHANGED disk \/ \E id : queue' = [dir |-> target.dir, id |-> id,
                                               rows |-> queue.rows, next |-> queue.next]
        BY <3>2 DEF OpenQueue
      <4> QED  BY <4>1 DEF disk
    <3>3. CASE Peek(c) \/ Send(c)
      BY <3>3, PeekCases DEF PeekAlternatives, NothingLeft, LeaseRows, Send, DrainFails, disk
    <3>4. CASE Deliver(c) \/ LoseReply(c) \/ LoseRequest(c) \/ CheckReceipt(c)
      BY <3>4 DEF Deliver, LoseReply, LoseRequest, CheckReceipt, DrainFails, disk
    <3>5. CASE Acknowledge(c)
      <4>1. UNCHANGED queue \/ \E rows : queue' = [queue EXCEPT !.rows = rows]
        BY <3>5 DEF Acknowledge, DrainFails, disk
      <4> QED  BY <4>1 DEF TypeInv, DiskType
    <3>6. CASE Enqueue(c)
      <4>1. \E rows, next : queue' = [dir |-> queue.dir, id |-> queue.id, rows |-> rows, next |-> next]
        BY <3>6 DEF Enqueue
      <4> QED  BY <4>1
    <3>7. CASE Plan(c) \/ EnqueueFails(c) \/ CheckCursor(c) \/ SaveCursor(c)
      BY <3>7 DEF Plan, EnqueueFails, CheckCursor, SaveCursor, disk
    <3> QED  BY <2>2, <3>1, <3>2, <3>3, <3>4, <3>5, <3>6, <3>7 DEF Collect
  <2> QED  BY <2>1, <2>2 DEF Next, NextAlive, Registry
<1>5. ASSUME k \in QueueKeys  PROVE Safe(k)'
  <2>1. PICK r \in queue.rows : r.key = k
    BY <1>5 DEF QueueKeys
  <2>2. CASE r \in queue'.rows
    BY <2>1, <2>2 DEF Safe, QueueKeys
  <2>3. CASE r \notin queue'.rows
    BY <1>2, <1>3, <1>4, <2>1, <2>3
  <2> QED  BY <2>2, <2>3
<1> QED  BY <1>2, <1>5 DEF Safe

(* Of an old version of the log, a step never adds what the log holds; the *)
(* log's clean state is kept.                                              *)
LEMMA KeptShrinks ==
    ASSUME TypeInv, [Next]_vars, LogClean
    PROVE  /\ LogClean' /\ file'.stamp >= file.stamp
           /\ \A s \in 0..MaxStamp : s <= file.stamp => Kept(s)' \subseteq Kept(s)
<1> DEFINE Goal == /\ LogClean' /\ file'.stamp >= file.stamp
                   /\ \A s \in 0..MaxStamp : s <= file.stamp => Kept(s)' \subseteq Kept(s)
<1>1. file.stamp \in 1..MaxStamp /\ file.recs \in Seq(Keys) /\ MaxStamp \in Nat
  BY CollectAssumption DEF TypeInv, DiskType
<1>2. ASSUME UNCHANGED <<file, written>>  PROVE Goal
  BY <1>1, <1>2 DEF LogClean, Kept
<1>3. ASSUME NEW recs, NEW torn, NEW present, WriteLog(recs, torn, present),
             ~present => recs = <<>>,
             \A s \in 0..MaxStamp : \A k \in KeysOf(recs) \ KeysOf(file.recs) : k \notin written[s]
      PROVE  Goal
  <2>1. /\ file'.stamp = file.stamp + 1 /\ file'.recs = recs /\ file'.present = present
        /\ \A s \in 0..MaxStamp : s <= file.stamp => written'[s] = written[s]
    BY <1>1, <1>3 DEF WriteLog, TypeInv, DiskType
  <2>2. \A s \in 0..MaxStamp : s <= file.stamp => Kept(s)' \subseteq Kept(s)
    BY <1>3, <2>1 DEF Kept
  <2> QED  BY <1>1, <1>3, <2>1, <2>2 DEF LogClean
<1>4. ASSUME NEW k \in Keys, AppendRecord(k)  PROVE Goal
  <2>1. KeysOf(Append(file.recs, k)) \subseteq KeysOf(file.recs) \union {k}
    BY <1>1, AppendProperties DEF KeysOf
  <2> QED  BY <1>3, <1>4, <2>1 DEF AppendRecord
<1>5. ASSUME AppendPartial  PROVE Goal
  BY <1>3, <1>5 DEF AppendPartial
<1>6. ASSUME RewriteLog  PROVE Goal
  <2>1. KeysOf(Tail(file.recs)) \subseteq KeysOf(file.recs)
    BY <1>1, <1>6, HeadTailProperties DEF RewriteLog, KeysOf
  <2> QED  BY <1>3, <1>6, <2>1 DEF RewriteLog
<1>7. ASSUME DeleteLog  PROVE Goal
  <2>1. KeysOf(<<>>) = {}
    BY DEF KeysOf
  <2> QED  BY <1>3, <1>7, <2>1 DEF DeleteLog
<1>8. ASSUME UNCHANGED vars \/ Registry \/ \E c \in Collectors : Collect(c) \/ Crash(c)
      PROVE  UNCHANGED <<file, written>>
  BY <1>8, RunFrame DEF vars, Registry, Upsert, Remove
<1> QED  BY <1>2, <1>4, <1>5, <1>6, <1>7, <1>8 DEF Next, NextAlive, Log

(* What the steps of one collector do to what it has read and planned.     *)
RunAlternatives(c) ==
    \/ Finish(c)
    \/ Start(c) \/ Stat(c) \/ Parse(c) \/ Enqueue(c)
    \/ Plan(c) /\ Current(c)
    \/ CheckCursor(c) /\ Current(c)
    \/ /\ pc[c] \notin {"idle", "parse"} /\ pc'[c] \notin {"idle", "save", "parse"}
       /\ UNCHANGED <<snap, seen, plan>>

(* Every step of a collector is one of these. *)
LEMMA RunCases ==
    ASSUME TypeInv, NEW c \in Collectors, Collect(c) \/ Crash(c)
    PROVE  RunAlternatives(c)
<1> DEFINE Quiet == /\ pc[c] \notin {"idle", "parse"} /\ pc'[c] \notin {"idle", "save", "parse"}
                    /\ UNCHANGED <<snap, seen, plan>>
<1>1. ASSUME NEW label \in {"enqueue", "plan", "peek", "open", "send", "wire", "reply", "ack"},
             Goto(c, label), pc[c] \notin {"idle", "parse"}, UNCHANGED <<snap, seen, plan>>
      PROVE  Quiet
  BY <1>1 DEF Goto, TypeInv, LocalType
<1>2. ASSUME Drained(c), pc[c] \notin {"idle", "parse"}, UNCHANGED <<snap, seen, plan>>  PROVE Quiet
  BY <1>1, <1>2 DEF Drained
<1>3. CASE Start(c) \/ Stat(c) \/ Parse(c) \/ Enqueue(c) \/ EnqueueFails(c) \/ SaveCursor(c) \/ Crash(c)
  BY <1>3 DEF RunAlternatives, EnqueueFails, SaveCursor, Crash
<1>4. CASE Hello(c)
  BY <1>1, <1>4 DEF RunAlternatives, Hello
<1>5. CASE OpenQueue(c)
  BY <1>1, <1>5 DEF RunAlternatives, OpenQueue
<1>6. CASE Peek(c)
  <2>1. pc[c] = "peek" /\ PeekAlternatives(c)
    BY <1>6, PeekCases DEF Peek
  <2> QED  BY <1>1, <1>2, <2>1 DEF PeekAlternatives, NothingLeft, DrainFails, LeaseRows, RunAlternatives
<1>7. CASE Send(c) \/ Deliver(c)
  BY <1>1, <1>7 DEF Send, Deliver, RunAlternatives
<1>8. CASE LoseReply(c) \/ LoseRequest(c)
  BY <1>2, <1>8 DEF LoseReply, LoseRequest, DrainFails, RunAlternatives
<1>9. CASE CheckReceipt(c)
  <2>1. pc[c] = "reply"
    BY <1>9 DEF CheckReceipt
  <2>2. DrainFails(c) \/ Finish(c) \/ (Goto(c, "ack") /\ UNCHANGED <<snap, seen, plan>>)
    BY <1>9 DEF CheckReceipt
  <2> QED  BY <1>1, <1>2, <2>1, <2>2 DEF DrainFails, RunAlternatives
<1>10. CASE Acknowledge(c)
  <2>1. pc[c] = "ack"
    BY <1>10 DEF Acknowledge
  <2>2. DrainFails(c) \/ (Goto(c, "peek") /\ UNCHANGED <<snap, seen, plan>>)
    BY <1>10 DEF Acknowledge
  <2> QED  BY <1>1, <1>2, <2>1, <2>2 DEF DrainFails, RunAlternatives
<1>11. CASE Plan(c) \/ CheckCursor(c)
  BY <1>11 DEF Plan, CheckCursor, RunAlternatives
<1> QED  BY <1>3, <1>4, <1>5, <1>6, <1>7, <1>8, <1>9, <1>10, <1>11 DEF Collect

(* A step of another collector leaves what this one has read and planned. *)
LEMMA OthersRecall ==
    ASSUME TypeInv, NEW c \in Collectors, Collect(c) \/ Crash(c), NEW d \in Collectors, d # c
    PROVE  snap'[d] = snap[d] /\ seen'[d] = seen[d] /\ plan'[d] = plan[d] /\ pc'[d] = pc[d]
<1>1. pc'[d] = pc[d]
  BY OthersStay
<1> DEFINE Stay == snap'[d] = snap[d] /\ seen'[d] = seen[d] /\ plan'[d] = plan[d]
<1>2. CASE Finish(c)
  BY <1>1, <1>2 DEF Finish, TypeInv, LocalType
<1>3. CASE Start(c)
  BY <1>1, <1>3 DEF Start, TypeInv, LocalType
<1>4. CASE Stat(c)
  BY <1>1, <1>4 DEF Stat, TypeInv, LocalType
<1>5. CASE Parse(c)
  <2>1. UNCHANGED <<snap, plan>> /\ (UNCHANGED seen \/ \E s : seen' = [seen EXCEPT ![c] = s])
    BY <1>5 DEF Parse
  <2> QED  BY <1>1, <2>1 DEF TypeInv, LocalType
<1>6. CASE Enqueue(c)
  <2>1. UNCHANGED <<snap, seen>> /\ \E e : plan' = [plan EXCEPT ![c].events = e]
    BY <1>6 DEF Enqueue
  <2> QED  BY <1>1, <2>1 DEF TypeInv, LocalType
<1>7. CASE Plan(c) /\ Current(c)
  <2>1. UNCHANGED snap /\ seen' = [seen EXCEPT ![c] = NoSeen] /\ \E p : plan' = [plan EXCEPT ![c] = p]
    BY <1>7 DEF Plan
  <2> QED  BY <1>1, <2>1 DEF TypeInv, LocalType
<1>8. CASE CheckCursor(c) /\ Current(c)
  <2>1. Finish(c) \/ UNCHANGED <<snap, seen, plan>>
    BY <1>8 DEF CheckCursor
  <2> QED  BY <1>1, <1>2, <2>1
<1> QED  BY <1>1, <1>2, <1>3, <1>4, <1>5, <1>6, <1>7, <1>8, RunCases DEF RunAlternatives

-----------------------------------------------------------------------------
(* The invariants the read position rests on. *)
DeliveryInv == TypeInv /\ AccountInv /\ SeqInv /\ StoredInv

(* What one step other than a removal does to what is safe: keys stay so,  *)
(* and an old version of the log holds nothing new.                        *)
LEMMA CoverKept ==
    ASSUME DeliveryInv, LogClean, [Next]_vars, ~Remove
    PROVE  /\ LogClean' /\ file'.stamp >= file.stamp
           /\ \A k \in Keys : Safe(k) => Safe(k)'
           /\ \A s \in 0..MaxStamp : s <= file.stamp => Kept(s)' \subseteq Kept(s) /\ Kept(s) \subseteq Keys
<1>1. \A k \in Keys : Safe(k) => Safe(k)'
  BY SafeStays DEF DeliveryInv
<1>2. \A s \in 0..MaxStamp : Kept(s) \subseteq Keys
  BY DEF Kept, DeliveryInv, TypeInv, DiskType
<1> QED  BY <1>1, <1>2, KeptShrinks DEF DeliveryInv

(* A run that starts or has ended remembers nothing. *)
LEMMA BlankCovers ==
    ASSUME LogClean', TypeInv', NEW c \in Collectors, seen'[c] = NoSeen, plan'[c] = NoPlan,
           pc'[c] # "save", snap'[c].rev <= target'.rev
    PROVE  RunCovers(c)'
<1>1. KeysOf(<<>>) = {} /\ file'.stamp \in Nat
  BY CollectAssumption DEF KeysOf, TypeInv, DiskType
<1>2. Kept(0)' = {}
  BY DEF Kept, LogClean
<1> QED  BY <1>1, <1>2 DEF RunCovers, Remembers, SeenCovers, PlanCovers, NoSeen, NoPlan, NoCursor

(* A step that leaves what the run has read and planned leaves it covered. *)
LEMMA RunStays ==
    ASSUME DeliveryInv, LogClean, [Next]_vars, ~Remove, NEW c \in Collectors, RunCovers(c),
           snap'[c] = snap[c], seen'[c] = seen[c], plan'[c] = plan[c],
           pc'[c] = "idle" => pc[c] = "idle", pc[c] = "parse" => pc'[c] = "parse",
           pc'[c] = "save" => plan[c].events = <<>>
    PROVE  RunCovers(c)'
<1>1. /\ seen[c].stamp \in 0..MaxStamp /\ plan[c].update.stamp \in 0..MaxStamp
      /\ KeysOf(plan[c].update.sent) \subseteq Keys /\ file.stamp \in Nat /\ file'.stamp \in Nat
      /\ target.rev \in Nat /\ target'.rev \in Nat /\ snap[c].rev \in Nat
  <2>1. TypeInv'
    BY TypeInvStep DEF DeliveryInv
  <2>2. /\ file.stamp \in Nat /\ target.rev \in Nat /\ snap[c].rev \in Nat
        /\ seen[c].stamp \in 0..MaxStamp /\ plan[c].update \in CursorEntry
    <3>1. DiskType /\ LocalType /\ MaxStamp \in Nat /\ MaxRev \in Nat
      BY CollectAssumption DEF DeliveryInv, TypeInv, CollectAssumption
    <3>2. file.stamp \in Nat /\ target.rev \in Nat
      BY ONLY <3>1 DEF DiskType
    <3>3. snap[c].rev \in Nat /\ seen[c].stamp \in 0..MaxStamp /\ plan[c].update \in CursorEntry
      BY ONLY <3>1, c \in Collectors DEF LocalType
    <3> QED
      BY ONLY <3>2, <3>3
  <2>3. file'.stamp \in Nat /\ target'.rev \in Nat
    BY <2>1, CollectAssumption DEF TypeInv, DiskType
  <2>4. plan[c].update.stamp \in 0..MaxStamp /\ plan[c].update.sent \in Seq(Keys)
    BY <2>2 DEF CursorEntry
  <2> QED  BY <2>2, <2>3, <2>4, KeysOfType
<1>2. target'.rev >= target.rev
  BY <1>1, NewRevision DEF DeliveryInv
<1>3. Remembers(c)
  BY DEF RunCovers
<1>4. Remembers(c)'
  BY <1>1, <1>2, <1>3, CoverKept DEF Remembers
<1>5. ASSUME MaySave(c)'  PROVE SeenCovers(c)' /\ PlanCovers(c)'
  <2>1. SeenCovers(c) /\ PlanCovers(c)
    BY <1>3, <1>5, MaySaveBefore DEF RunCovers, DeliveryInv
  <2>2. SeenCovers(c)'
    <3> SUFFICES ASSUME pc'[c] # "parse", NEW k \in Kept(seen[c].stamp)'
                 PROVE  Safe(k)' \/ k \in KeysOf(seen[c].recs)
      BY DEF SeenCovers
    <3>1. k \in Kept(seen[c].stamp) /\ k \in Keys
      BY <1>1, <1>3, CoverKept DEF Remembers, Kept
    <3> QED  BY <2>1, <3>1, CoverKept DEF SeenCovers
  <2>3. PlanCovers(c)'
    <3> SUFFICES ASSUME NEW k \in Kept(plan[c].update.stamp)' \union KeysOf(plan[c].update.sent)
                 PROVE  Safe(k)' \/ k \in KeysOf(plan[c].events)
      BY DEF PlanCovers
    <3>1. k \in Kept(plan[c].update.stamp) \union KeysOf(plan[c].update.sent) /\ k \in Keys
      BY <1>1, <1>3, CoverKept DEF Remembers, Kept
    <3> QED  BY <2>1, <3>1, CoverKept DEF PlanCovers
  <2> QED  BY <2>2, <2>3
<1> QED  BY <1>4, <1>5 DEF RunCovers

(* The first look at the log: a version the cursor already names is safe. *)
LEMMA StatCovers ==
    ASSUME DeliveryInv, CoverInv, [Next]_vars, ~Remove, NEW c \in Collectors, Stat(c)
    PROVE  RunCovers(c)'
<1>1. /\ pc[c] = "stat" /\ UNCHANGED <<disk, snap, plan>>
      /\ pc' = [pc EXCEPT ![c] = IF file.present /\ cursor.stamp # file.stamp THEN "parse" ELSE "hello"]
      /\ seen' = [seen EXCEPT ![c].stamp = IF file.present THEN file.stamp ELSE 0]
  BY DEF Stat, Goto
<1>2. UNCHANGED <<file, written, target, queue, cursor, store>>
  BY <1>1 DEF disk
<1>3. /\ pc'[c] = IF file.present /\ cursor.stamp # file.stamp THEN "parse" ELSE "hello"
      /\ seen'[c].stamp = IF file.present THEN file.stamp ELSE 0
      /\ file.stamp \in Nat
  BY <1>1, CollectAssumption DEF DeliveryInv, TypeInv, LocalType, DiskType
<1>4. RunCovers(c) /\ LogClean /\ CursorSafe
  BY DEF CoverInv
<1>5. Remembers(c)'
  BY <1>1, <1>2, <1>3, <1>4 DEF RunCovers, Remembers
<1>6. ASSUME MaySave(c)'  PROVE PlanCovers(c)'
  <2>1. MaySave(c)
    BY <1>1, <1>4, <1>6, MaySaveBefore DEF RunCovers, DeliveryInv
  <2> QED  BY <1>1, <1>2, <1>4, <2>1 DEF RunCovers, PlanCovers, Safe, Kept, QueueKeys, StoredFor
<1>7. SeenCovers(c)'
  <2> SUFFICES ASSUME pc'[c] # "parse", NEW k \in Kept(seen[c].stamp)'
               PROVE  Safe(k)'
    BY DEF SeenCovers
  <2>1. seen'[c].stamp = 0 \/ seen'[c].stamp = cursor.stamp
    BY <1>3
  <2>2. k \in written[seen'[c].stamp] \intersect KeysOf(file.recs)
    BY <1>2 DEF Kept
  <2>3. k \in Kept(cursor.stamp)
    BY <1>4, <2>1, <2>2 DEF LogClean, Kept
  <2>4. Safe(k)
    BY <1>4, <2>3 DEF CursorSafe
  <2> QED  BY <1>2, <2>4 DEF Safe, QueueKeys, StoredFor
<1> QED  BY <1>5, <1>6, <1>7 DEF RunCovers

(* The parse: the records read cover every version up to the present one.  *)
LEMMA ParseCovers ==
    ASSUME DeliveryInv, CoverInv, [Next]_vars, ~Remove, NEW c \in Collectors, Parse(c)
    PROVE  RunCovers(c)'
<1>1. /\ pc[c] = "parse" /\ UNCHANGED <<disk, snap, plan>> /\ pc'[c] = "hello"
      /\ file.stamp \in Nat /\ seen[c].stamp \in Nat
  <2>1. DiskType /\ LocalType /\ MaxStamp \in Nat
    BY CollectAssumption DEF DeliveryInv, TypeInv, CollectAssumption
  <2>2. file.stamp \in Nat
    BY ONLY <2>1 DEF DiskType
  <2>3. seen[c].stamp \in Nat /\ pc \in [Collectors -> Labels]
    BY ONLY <2>1, c \in Collectors DEF LocalType
  <2>4. pc[c] = "parse" /\ UNCHANGED <<disk, snap, plan>> /\ pc' = [pc EXCEPT ![c] = "hello"]
    BY DEF Parse, Goto
  <2> QED
    BY <2>2, <2>3, <2>4
<1>2. UNCHANGED <<file, written, target, queue, cursor, store>>
  BY <1>1 DEF disk
<1>3. RunCovers(c) /\ LogClean
  BY DEF CoverInv
<1>4. /\ seen'[c].stamp <= file.stamp
      /\ KeysOf(file.recs) \subseteq KeysOf(seen'[c].recs)
  <2>1. CASE file.present
    <3>1. PICK s \in seen[c].stamp..file.stamp :
             seen' = [seen EXCEPT ![c] = [stamp |-> s, recs |-> file.recs, err |-> file.torn]]
      BY <2>1 DEF Parse
    <3>2. seen'[c].stamp = s /\ seen'[c].recs = file.recs
      BY <3>1 DEF DeliveryInv, TypeInv, LocalType
    <3> QED  BY <1>1, <3>2
  <2>2. CASE ~file.present
    <3>1. \/ UNCHANGED seen
          \/ \E s \in seen[c].stamp..(file.stamp - 1) :
                seen' = [seen EXCEPT ![c] = [stamp |-> s, recs |-> <<>>, err |-> TRUE]]
      BY <2>2 DEF Parse
    <3>2. seen'[c].stamp <= file.stamp
      BY <1>1, <1>3, <3>1 DEF RunCovers, Remembers, DeliveryInv, TypeInv, LocalType
    <3>3. KeysOf(file.recs) = {}
      BY <1>3, <2>2 DEF LogClean, KeysOf
    <3> QED  BY <3>2, <3>3
  <2> QED  BY <2>1, <2>2
<1>5. Remembers(c)'
  BY <1>1, <1>2, <1>3, <1>4 DEF RunCovers, Remembers
<1>6. ASSUME MaySave(c)'  PROVE PlanCovers(c)'
  <2>1. MaySave(c)
    BY <1>1, <1>3, <1>6, MaySaveBefore DEF RunCovers, DeliveryInv
  <2> QED  BY <1>1, <1>2, <1>3, <2>1 DEF RunCovers, PlanCovers, Safe, Kept, QueueKeys, StoredFor
<1>7. SeenCovers(c)'
  BY <1>2, <1>4 DEF SeenCovers, Kept
<1> QED  BY <1>5, <1>6, <1>7 DEF RunCovers

(* An enqueue moves records of the plan into the journal. *)
LEMMA EnqueueCovers ==
    ASSUME DeliveryInv, CoverInv, [Next]_vars, ~Remove, NEW c \in Collectors, Enqueue(c)
    PROVE  RunCovers(c)'
<1>1. /\ pc[c] = "enqueue" /\ UNCHANGED <<file, written, target, snap, seen>>
      /\ pc'[c] \in {"enqueue", "peek"}
      /\ \E e : plan' = [plan EXCEPT ![c].events = e]
  BY DEF Enqueue, Goto, DeliveryInv, TypeInv, LocalType
<1>2. plan'[c].update = plan[c].update
  BY <1>1 DEF DeliveryInv, TypeInv, LocalType
<1>3. RunCovers(c) /\ LogClean
  BY DEF CoverInv
<1>4. Remembers(c)'
  BY <1>1, <1>2, <1>3 DEF RunCovers, Remembers
<1>5. \A k \in Keys : Safe(k) => Safe(k)'
  BY <1>3, CoverKept
<1>6. ASSUME MaySave(c)'  PROVE SeenCovers(c)' /\ PlanCovers(c)'
  <2>1. SeenCovers(c) /\ PlanCovers(c)
    BY <1>1, <1>3, <1>6, MaySaveBefore DEF RunCovers, DeliveryInv
  <2>2. SeenCovers(c)'
    <3> SUFFICES ASSUME NEW k \in Kept(seen[c].stamp)  PROVE Safe(k)' \/ k \in KeysOf(seen[c].recs)
      BY <1>1 DEF SeenCovers, Kept
    <3>1. k \in Keys
      BY KeysOfType DEF Kept, DeliveryInv, TypeInv, DiskType
    <3> QED  BY <1>1, <1>5, <2>1, <3>1 DEF SeenCovers
  <2>3. PlanCovers(c)'
    <3> SUFFICES ASSUME NEW k \in Kept(plan[c].update.stamp) \union KeysOf(plan[c].update.sent)
                 PROVE  Safe(k)' \/ k \in KeysOf(plan[c].events)'
      BY <1>1, <1>2 DEF PlanCovers, Kept
    <3>1. k \in Keys
      <4>1. file.recs \in Seq(Keys) /\ plan[c].update.sent \in Seq(Keys)
        BY DEF DeliveryInv, TypeInv, DiskType, LocalType, CursorEntry
      <4> QED  BY <4>1, KeysOfType DEF Kept
    <3>2. CASE Safe(k)
      BY <1>5, <3>1, <3>2
    <3>3. CASE k \in KeysOf(plan[c].events)
      BY <3>3, ChunkJournaled DEF DeliveryInv, Safe
    <3> QED  BY <2>1, <3>2, <3>3 DEF PlanCovers
  <2> QED  BY <2>2, <2>3
<1> QED  BY <1>4, <1>6 DEF RunCovers

(* A record of a sequence is in what remains of it after a prefix, or in   *)
(* the prefix.                                                             *)
LEMMA SuffixKeys ==
    ASSUME NEW s \in Seq(Keys), NEW n \in 0..Len(s), NEW k \in KeysOf(s)
    PROVE  k \in KeysOf(SubSeq(s, n + 1, Len(s))) \/ \E i \in 1..n : s[i] = k
<1> DEFINE len == Len(s)
<1>1. PICK i \in 1..len : s[i] = k
  BY DEF KeysOf
<1>2. len \in Nat /\ \A j \in (n + 1)..len : s[j] \in Keys
  BY ElementOfSeq
<1> HIDE DEF len
<1>3. CASE i > n
  <2>1. n + 1 \in Int /\ len \in Int /\ i - n \in 1..(len - (n + 1) + 1) /\ n + 1 + (i - n) - 1 = i
    BY <1>2, <1>3 DEF len
  <2>2. n + 1 <= len /\ len - (n + 1) + 1 = len - n
    BY <1>2, <1>3 DEF len
  <2>3. Len(SubSeq(s, n + 1, len)) = len - n /\ SubSeq(s, n + 1, len)[i - n] = s[i]
    BY <1>2, <2>1, <2>2, SubSeqProperties
  <2>4. i - n \in 1..(len - n)
    BY <2>1, <2>2
  <2> QED  BY <1>1, <2>3, <2>4 DEF KeysOf, len
<1>4. CASE i <= n
  BY <1>1, <1>2, <1>4
<1> QED  BY <1>2, <1>3, <1>4 DEF len

(* The plan: what it leaves out is the prefix the cursor says was sent. *)
LEMMA PlanStepCovers ==
    ASSUME DeliveryInv, CoverInv, [Next]_vars, ~Remove, NEW c \in Collectors, Plan(c), Current(c)
    PROVE  RunCovers(c)'
<1> DEFINE s       == seen[c]
           same    == s.stamp = 0 \/ cursor.stamp = s.stamp
           start   == ResumeIndex(cursor.sent, s.recs)
           update  == IF s.err THEN cursor ELSE [stamp |-> s.stamp, sent |-> s.recs]
           planned == IF same
                      THEN [events |-> <<>>,
                            update |-> IF s.stamp = 0 THEN NoCursor ELSE cursor]
                      ELSE [update |-> update,
                            events |-> SubSeq(s.recs, start + 1, Len(s.recs))]
<1>1. /\ pc[c] = "plan" /\ UNCHANGED <<disk, snap>> /\ pc'[c] = "enqueue"
      /\ seen' = [seen EXCEPT ![c] = NoSeen] /\ plan' = [plan EXCEPT ![c] = planned]
  BY DEF Plan, Goto, DeliveryInv, TypeInv, LocalType
<1>2. UNCHANGED <<file, written, target, queue, cursor, store>>
  BY <1>1 DEF disk
<1>3. seen'[c] = NoSeen /\ plan'[c] = planned
  BY <1>1 DEF DeliveryInv, TypeInv, LocalType
<1>4. RunCovers(c) /\ LogClean /\ CursorSafe /\ SeenCovers(c)
  BY DEF CoverInv, RunCovers, MaySave
<1>5. /\ s.stamp \in 0..MaxStamp /\ s.recs \in Seq(Keys) /\ s.err \in BOOLEAN
      /\ cursor.stamp \in Nat /\ cursor.sent \in Seq(Keys) /\ file.stamp \in Nat
  <2>1. DiskType /\ LocalType /\ MaxStamp \in Nat
    BY CollectAssumption DEF DeliveryInv, TypeInv, CollectAssumption
  <2>2. s \in [stamp : 0..MaxStamp, recs : Seq(Keys), err : BOOLEAN]
    BY ONLY <2>1, c \in Collectors DEF LocalType
  <2>3. cursor \in CursorEntry /\ file.stamp \in 1..MaxStamp
    BY ONLY <2>1 DEF DiskType
  <2>4. s.stamp \in 0..MaxStamp /\ s.recs \in Seq(Keys) /\ s.err \in BOOLEAN
    BY ONLY <2>2
  <2>5. cursor.stamp \in 0..MaxStamp /\ cursor.sent \in Seq(Keys)
    BY ONLY <2>3 DEF CursorEntry
  <2> QED
    BY ONLY <2>1, <2>3, <2>4, <2>5
<1>6. KeysOf(<<>>) = {} /\ Kept(0) = {}
  BY <1>4 DEF KeysOf, Kept, LogClean
<1>7. \A k : Safe(k) => Safe(k)'
  BY <1>2 DEF Safe, QueueKeys, StoredFor
<1>8. \A k \in KeysOf(s.recs) : Safe(k) \/ k \in KeysOf(SubSeq(s.recs, start + 1, Len(s.recs)))
  <2> SUFFICES ASSUME NEW k \in KeysOf(s.recs), k \notin KeysOf(SubSeq(s.recs, start + 1, Len(s.recs)))
               PROVE  Safe(k)
    OBVIOUS
  <2>1. start \in 0..Len(s.recs)
    BY <1>5 DEF ResumeIndex
  <2>2. PICK i \in 1..start : s.recs[i] = k
    <3> HIDE DEF s, start
    <3> QED  BY <1>5, <2>1, SuffixKeys
  <2>3. start = Len(cursor.sent) /\ start <= Len(s.recs) /\ cursor.sent = SubSeq(s.recs, 1, start)
    BY <2>2, <1>5 DEF ResumeIndex
  <2>4. cursor.sent[i] = k
    <3> HIDE DEF s, start
    <3>1. \A j \in 1..start : s.recs[j] \in Keys
      BY <1>5, <2>1, <2>3, ElementOfSeq
    <3>2. 1 \in Int /\ start \in Int /\ 1 <= start /\ i \in 1..(start - 1 + 1) /\ 1 + i - 1 = i
      BY <1>5, <2>1, <2>2
    <3> QED  BY <2>2, <2>3, <3>1, <3>2, SubSeqProperties
  <2>5. k \in KeysOf(cursor.sent)
    BY <2>3, <2>4 DEF KeysOf
  <2> QED  BY <1>4, <2>5 DEF CursorSafe
<1>9. planned.update.stamp <= file.stamp
  BY <1>4, <1>5 DEF RunCovers, Remembers, CursorSafe, NoCursor
<1>10. \A k \in Kept(planned.update.stamp) \union KeysOf(planned.update.sent) :
          Safe(k) \/ k \in KeysOf(planned.events)
  <2>1. CASE same
    <3>1. planned.update \in {NoCursor, cursor}
      BY <2>1
    <3> QED  BY <1>4, <1>6, <3>1 DEF CursorSafe, NoCursor
  <2>2. CASE ~same /\ s.err
    <3>1. planned.update = cursor
      BY <2>2
    <3> QED  BY <1>4, <3>1 DEF CursorSafe
  <2>3. CASE ~same /\ ~s.err
    <3>1. /\ planned.update.stamp = s.stamp /\ planned.update.sent = s.recs
          /\ planned.events = SubSeq(s.recs, start + 1, Len(s.recs))
      BY <2>3
    <3>2. \A k \in Kept(s.stamp) : Safe(k) \/ k \in KeysOf(s.recs)
      BY <1>1, <1>4 DEF SeenCovers
    <3> HIDE DEF planned, start, s
    <3> QED  BY <1>8, <3>1, <3>2
  <2> QED  BY <2>1, <2>2, <2>3
<1> HIDE DEF planned, s
<1>11. Remembers(c)'
  BY <1>1, <1>2, <1>3, <1>4, <1>5, <1>9 DEF RunCovers, Remembers, NoSeen
<1>12. SeenCovers(c)' /\ PlanCovers(c)'
  <2>1. Kept(0)' = {} /\ NoSeen.stamp = 0
    BY <1>2, <1>6 DEF Kept, NoSeen
  <2>2. SeenCovers(c)'
    BY <1>3, <2>1 DEF SeenCovers
  <2>3. PlanCovers(c)'
    BY <1>2, <1>3, <1>7, <1>10 DEF PlanCovers, Kept
  <2> QED  BY <2>2, <2>3
<1> QED  BY <1>11, <1>12 DEF RunCovers

(* A collector's own step keeps what it has read and planned covered. *)
LEMMA RunCoversStep ==
    ASSUME DeliveryInv, CoverInv, [Next]_vars, ~Remove, NEW c \in Collectors, Collect(c) \/ Crash(c)
    PROVE  RunCovers(c)'
<1>1. RunCovers(c) /\ LogClean /\ LogClean' /\ TypeInv'
  BY CoverKept, TypeInvStep DEF CoverInv, DeliveryInv
<1>2. UNCHANGED target /\ target.rev \in Nat
  BY RunFrame DEF DeliveryInv, TypeInv, DiskType
<1>3. ASSUME Finish(c)  PROVE RunCovers(c)'
  <2>1. seen'[c] = NoSeen /\ plan'[c] = NoPlan /\ pc'[c] = "idle" /\ snap'[c].rev = 0
    BY <1>3 DEF Finish, Goto, NoSnap, DeliveryInv, TypeInv, LocalType
  <2> QED  BY <1>1, <1>2, <2>1, BlankCovers
<1>4. ASSUME Start(c)  PROVE RunCovers(c)'
  <2>1. seen'[c] = seen[c] /\ plan'[c] = plan[c] /\ pc'[c] = "stat" /\ snap'[c].rev = target.rev /\ pc[c] = "idle"
    BY <1>4 DEF Start, Goto, DeliveryInv, TypeInv, LocalType
  <2>2. seen'[c] = NoSeen /\ plan'[c] = NoPlan
    BY <1>1, <2>1 DEF RunCovers, Remembers
  <2> QED  BY <1>1, <1>2, <2>1, <2>2, BlankCovers
<1>5. ASSUME CheckCursor(c), ~Finish(c)  PROVE RunCovers(c)'
  <2>1. /\ UNCHANGED <<snap, seen, plan>> /\ pc[c] = "enqueue" /\ pc'[c] = "save"
        /\ plan[c].events = <<>>
    BY <1>5 DEF CheckCursor, Goto, DeliveryInv, TypeInv, LocalType
  <2> QED  BY <1>1, <2>1, RunStays
<1>6. ASSUME pc[c] \notin {"idle", "parse"}, pc'[c] \notin {"idle", "save", "parse"},
             UNCHANGED <<snap, seen, plan>>
      PROVE  RunCovers(c)'
  BY <1>1, <1>6, RunStays
<1> QED  BY <1>3, <1>4, <1>5, <1>6, RunCases, StatCovers, ParseCovers, EnqueueCovers, PlanStepCovers
         DEF RunAlternatives, DeliveryInv

(* Every step but a removal keeps the read position covered. *)
LEMMA CoverStep ==
    ASSUME DeliveryInv, CoverInv, [Next]_vars, ~Remove
    PROVE  CoverInv'
<1>1. LogClean /\ LogClean' /\ CursorSafe
  BY CoverKept DEF CoverInv
<1>2. ASSUME UNCHANGED cursor  PROVE CursorSafe'
  <2>1. cursor.stamp \in 0..MaxStamp /\ KeysOf(cursor.sent) \subseteq Keys
    BY KeysOfType DEF DeliveryInv, TypeInv, DiskType, CursorEntry
  <2>2. file.stamp \in Nat /\ file'.stamp \in Nat
    <3>1. TypeInv'
      BY TypeInvStep DEF DeliveryInv
    <3> QED  BY <3>1, CollectAssumption DEF DeliveryInv, TypeInv, DiskType
  <2>3. Kept(cursor.stamp)' \subseteq Kept(cursor.stamp) /\ Kept(cursor.stamp) \subseteq Keys
    BY <1>1, <1>2, <2>1, CoverKept DEF CursorSafe, Kept
  <2> QED  BY <1>1, <1>2, <2>1, <2>2, <2>3, CoverKept DEF CursorSafe
<1>3. ASSUME NEW c \in Collectors, SaveCursor(c)  PROVE CursorSafe'
  <2>1. /\ pc[c] = "save" /\ cursor' = plan[c].update
        /\ UNCHANGED <<file, written, target, queue, store>>
    BY <1>3 DEF SaveCursor
  <2>2. Remembers(c) /\ PlanCovers(c) /\ plan[c].events = <<>> /\ KeysOf(<<>>) = {}
    BY <2>1 DEF CoverInv, RunCovers, MaySave, Remembers, KeysOf
  <2>3. \A k : Safe(k) => Safe(k)'
    BY <2>1 DEF Safe, QueueKeys, StoredFor
  <2> QED  BY <2>1, <2>2, <2>3 DEF CursorSafe, PlanCovers, Remembers, Kept
<1>4. ASSUME UNCHANGED local  PROVE \A c \in Collectors : RunCovers(c)'
  <2> SUFFICES ASSUME NEW c \in Collectors  PROVE RunCovers(c)'
    OBVIOUS
  <2>1. RunCovers(c) /\ UNCHANGED <<pc, snap, seen, plan>>
    BY <1>4 DEF CoverInv, local
  <2>2. pc'[c] = "save" => plan[c].events = <<>>
    BY <2>1 DEF RunCovers, Remembers
  <2> QED  BY <1>1, <2>1, <2>2, RunStays
<1>5. CASE UNCHANGED vars \/ Log \/ \E t \in Tokens : Upsert(t)
  <2>1. UNCHANGED <<cursor, local>>
    BY <1>5 DEF vars, local, Log, AppendRecord, AppendPartial, RewriteLog, DeleteLog, WriteLog, Upsert
  <2> QED  BY <1>1, <1>2, <1>4, <2>1 DEF CoverInv
<1>6. ASSUME NEW c \in Collectors, Collect(c) \/ Crash(c)  PROVE CoverInv'
  <2>1. CursorSafe'
    BY <1>2, <1>3, <1>6, RunFrame
  <2>2. ASSUME NEW d \in Collectors, d # c  PROVE RunCovers(d)'
    <3>1. snap'[d] = snap[d] /\ seen'[d] = seen[d] /\ plan'[d] = plan[d] /\ pc'[d] = pc[d]
      BY <1>6, <2>2, OthersRecall DEF DeliveryInv
    <3>2. RunCovers(d)
      BY DEF CoverInv
    <3>3. pc'[d] = "save" => plan[d].events = <<>>
      BY <3>1, <3>2 DEF RunCovers, Remembers
    <3> QED  BY <1>1, <3>1, <3>2, <3>3, RunStays
  <2>3. RunCovers(c)'
    BY <1>6, RunCoversStep
  <2> QED  BY <1>1, <2>1, <2>2, <2>3 DEF CoverInv
<1> QED  BY <1>5, <1>6 DEF Next, NextAlive, Registry

(* A removal no collector is about to save across: no run may save any more. *)
LEMMA RemoveCovers ==
    ASSUME DeliveryInv, CoverInv, Remove, \A c \in Collectors : pc[c] # "save"
    PROVE  CoverInv'
<1>1. /\ UNCHANGED <<file, written, pc, snap, seen, plan>> /\ cursor' = NoCursor
      /\ target'.rev = target.rev + 1 /\ target.rev \in Nat /\ file.stamp \in Nat
  BY CollectAssumption DEF Remove, local, DeliveryInv, TypeInv, DiskType
<1>2. LogClean' /\ KeysOf(<<>>) = {}
  BY <1>1 DEF CoverInv, LogClean, KeysOf
<1>3. CursorSafe'
  BY <1>1, <1>2 DEF CursorSafe, NoCursor, LogClean, Kept
<1>4. ASSUME NEW c \in Collectors  PROVE RunCovers(c)'
  <2>1. Remembers(c) /\ pc[c] # "save" /\ snap[c].rev \in Nat
    BY DEF CoverInv, RunCovers, DeliveryInv, TypeInv, LocalType
  <2>2. Remembers(c)'
    BY <1>1, <2>1 DEF Remembers
  <2>3. ~MaySave(c)'
    BY <1>1, <2>1 DEF MaySave, Current, Remembers
  <2> QED  BY <2>2, <2>3 DEF RunCovers
<1> QED  BY <1>2, <1>3, <1>4 DEF CoverInv

(* The read position never runs ahead of what is committed: for any number *)
(* of collectors, any crash, torn, rewritten or deleted log, full journal  *)
(* and late receipt, every record the log held at the version the cursor   *)
(* names, and still holds, is in the journal or has been stored -- provided *)
(* no target is removed in the gap between a collector's last comparison   *)
(* of the registration and cursor::save (collect/mod.rs run_target), which *)
(* the run collect_readd shows to be a real exception.                     *)
THEOREM CursorNeverAhead == Spec /\ RemovalWaits => []CursorCovered
<1> DEFINE Waits == target.present /\ ~target'.present => \A c \in Collectors : pc[c] # "save"
           AllInv == DeliveryInv /\ CoverInv
<1>1. Init => AllInv
  <2> SUFFICES ASSUME Init  PROVE AllInv
    OBVIOUS
  <2>1. AccountInv
    BY DEF Init, AccountInv, JournalOwned, RunOwned, Clean, NoDatabase, NoHandle, NoDrain
  <2>2. SeqInv
    BY DEF Init, SeqInv, Generations, Named, NoDatabase, NoHandle, NoDrain
  <2>3. StoredInv
    BY DEF Init, StoredInv, Verified
  <2>4. TypeInv
    BY TypeInvInit
  <2>5. LogClean
    BY CollectAssumption DEF Init, LogClean
  <2>6. KeysOf(<<>>) = {} /\ Kept(0) = {} /\ file.stamp \in Nat
    BY <2>4, <2>5, CollectAssumption DEF KeysOf, Kept, LogClean, TypeInv, DiskType
  <2>7. CursorSafe
    BY <2>6 DEF Init, CursorSafe, NoCursor
  <2>8. ASSUME NEW c \in Collectors  PROVE RunCovers(c)
    <3>1. seen[c] = NoSeen /\ plan[c] = NoPlan /\ pc[c] = "idle" /\ snap[c].rev = 0 /\ target.rev = 1
      BY DEF Init, NoSnap
    <3> QED  BY <2>6, <3>1 DEF RunCovers, Remembers, SeenCovers, PlanCovers, NoSeen, NoPlan, NoCursor
  <2> QED  BY <2>1, <2>2, <2>3, <2>4, <2>5, <2>7, <2>8 DEF DeliveryInv, CoverInv
<1>2. AllInv /\ [Next]_vars /\ [Waits]_vars => AllInv'
  <2> SUFFICES ASSUME AllInv, [Next]_vars, [Waits]_vars  PROVE AllInv'
    OBVIOUS
  <2>1. DeliveryInv'
    BY TypeInvStep, AccountInvStep, SeqInvStep, StoredInvStep DEF DeliveryInv
  <2>2. CASE Remove
    <3>1. target.present /\ ~target'.present
      BY <2>2 DEF Remove
    <3>2. Waits
      BY <3>1 DEF vars
    <3> QED  BY <2>1, <2>2, <3>1, <3>2, RemoveCovers
  <2>3. CASE ~Remove
    BY <2>1, <2>3, CoverStep
  <2> QED  BY <2>2, <2>3
<1>3. AllInv => CursorCovered
  BY DEF CoverInv, CursorSafe, CursorCovered, Kept, Safe
<1> HIDE DEF AllInv
<1> QED  BY <1>1, <1>2, <1>3, PTL DEF Spec, RemovalWaits
=============================================================================
