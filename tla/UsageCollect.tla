---------------------------- MODULE UsageCollect ----------------------------
(***************************************************************************)
(* The usage path of the shim for one target (server endpoint) and one     *)
(* session-log file: source log -> durable journal (usage_queue.rs) ->     *)
(* POST /v1/events -> receipt check -> journal row deleted -> source       *)
(* cursor saved (collect/mod.rs run_target, collect/durable.rs).           *)
(*                                                                         *)
(* Several collectors (the daemon, `toard-shim collect`, ...) run at once  *)
(* without any common lock: they share the target directory, the SQLite    *)
(* journal and the cursor file, and each keeps private copies of what it   *)
(* read.  The writer of the log, the registry commands that replace or     *)
(* remove the target, the server and the network interleave freely.        *)
(***************************************************************************)
EXTENDS Integers, Sequences, FiniteSets

CONSTANTS
    Collectors,     \* processes that run collect for the target
    Keys,           \* dedup keys of the usage records a log can contain
    Tokens,         \* ingest tokens the target has been given
    Owners,         \* user accounts of the server
    TokenOwner,     \* the account each token authenticates as
    NoOwner,        \* owner_id = None, and "the key is not stored"
    Excluded,       \* keys the server answers with expired or ignored
    Receipts,       \* {TRUE}: servers answer `confirmed`; FALSE: an old server may answer
    MaxBytes,       \* TOARD_SHIM_QUEUE_MAX_BYTES, a payload weighing one
    Chunk,          \* CHUNK, records per enqueue transaction
    BatchSize,      \* 250, rows per request
    DrainBatches,   \* 32, requests per call of drain
    MaxStamp,       \* bound: versions of the log file
    MaxRev,         \* bound: revisions of the target's registration
    MaxRemovals,    \* bound: removals of the target
    MaxSeq          \* bound: no run starts once this sequence number is issued

ASSUME CollectAssumption ==
    /\ NoOwner \notin Owners
    /\ TokenOwner \in [Tokens -> Owners]
    /\ Excluded \subseteq Keys
    /\ Receipts \subseteq BOOLEAN
    /\ MaxBytes \in Nat /\ Chunk \in Nat \ {0} /\ BatchSize \in Nat \ {0}
    /\ DrainBatches \in Nat \ {0}
    /\ MaxStamp \in Nat \ {0} /\ MaxRev \in Nat \ {0}
    /\ MaxRemovals \in Nat /\ MaxSeq \in Nat

VARIABLES
    file,     \* the session log: its stamp (mtime+size), complete records, torn last line
    written,  \* history: the complete records of each version of the log
    target,   \* the registration: revision, directory generation, token
    queue,    \* usage-queue.sqlite3: instance (0: no database), identity, rows, AUTOINCREMENT
    cursor,   \* cursors/<adapter>.json, the entry of the log (stamp 0: no entry)
    store,    \* server: the account each dedup key is stored for
    pc,       \* per collector: the step it is at
    snap,     \* per collector: revision and token read at the start of the run
    seen,     \* per collector: the cached snapshot of the log (CachedAdapter)
    handle,   \* per collector: instance and owner of the opened UsageQueue
    plan,     \* per collector: records left to enqueue, cursor entry to save
    drain,    \* per collector: the drain in progress: leased rows, receipt, requests left
    down      \* per collector: delivery failed in this run (delivery_available, failed_providers)

disk   == <<file, written, target, queue, cursor, store>>
local  == <<pc, snap, seen, handle, plan, drain, down>>
vars   == <<file, written, target, queue, cursor, store,
            pc, snap, seen, handle, plan, drain, down>>

KeysOf(s) == {s[i] : i \in 1..Len(s)}
Smaller(a, b) == IF a < b THEN a ELSE b

NoCursor == [stamp |-> 0, sent |-> <<>>]
NoCount  == -1
NoReply  == [inserted |-> 0, deduped |-> 0, excluded |-> 0, confirmed |-> NoCount]
NoSnap   == [rev |-> 0, token |-> NoOwner]
NoSeen   == [stamp |-> 0, recs |-> <<>>, err |-> FALSE]
NoHandle == [dir |-> 0, owner |-> NoOwner]
NoPlan   == [events |-> <<>>, update |-> NoCursor]
NoDrain  == [batch |-> {}, reply |-> NoReply, left |-> 0, chunked |-> FALSE]

(* A call of drain before its first request: after open, or after a chunk. *)
NewDrain(chunked) == [batch |-> {}, reply |-> NoReply, left |-> DrainBatches, chunked |-> chunked]

(* The drain d with these rows leased and this many requests left. *)
Leased(d, rows, left) == [batch |-> rows, reply |-> NoReply, left |-> left, chunked |-> d.chunked]

NoDatabase == [dir |-> 0, id |-> [owner |-> NoOwner, token |-> NoOwner], rows |-> {}, next |-> 1]

Row == [seq : Nat, key : Keys, by : Owners]

Reply == [inserted : Nat, deduped : Nat, excluded : Nat, confirmed : Nat \union {NoCount}]

QueueKeys == {r.key : r \in queue.rows}

(* Mutant: an identity without an owner fits every account. *)
CompatibleAnyToken(a, b) ==
    a.owner # NoOwner /\ b.owner # NoOwner => a.owner = b.owner

(***************************************************************************)
(* QueueIdentity::compatible.  The destination is the target itself.       *)
(***************************************************************************)
Compatible(a, b) ==
    IF a.owner # NoOwner /\ b.owner # NoOwner THEN a.owner = b.owner
                                              ELSE a.token = b.token

(* target_still_exists: the registration is the one the run started with. *)
Current(c) == target.rev = snap[c].rev

(* UsageQueue::connect and ensure_identity, run by every journal operation. *)
Connects(c) ==
    /\ queue.dir # 0
    /\ queue.dir = handle[c].dir
    /\ Compatible([owner |-> handle[c].owner, token |-> snap[c].token], queue.id)

(* resume_index: skip the sent prefix when the log still starts with it. *)
ResumeIndex(sent, recs) ==
    IF Len(sent) <= Len(recs) /\ sent = SubSeq(recs, 1, Len(sent)) THEN Len(sent) ELSE 0

(* Mutant: the owner's count is not compared. *)
AcknowledgedAnyOwner(reply, sent, requireConfirmed) ==
    reply.inserted + reply.deduped + reply.excluded = sent

(* durable::acknowledged. *)
Acknowledged(reply, sent, requireConfirmed) ==
    /\ reply.inserted + reply.deduped + reply.excluded = sent
    /\ IF reply.confirmed # NoCount THEN reply.confirmed + reply.excluded = sent
                                    ELSE ~requireConfirmed

-----------------------------------------------------------------------------
Init ==
    /\ file \in {[stamp |-> 1, recs |-> r, torn |-> FALSE, present |-> TRUE]
                    : r \in {<<>>} \union {<<k>> : k \in Keys}}
    /\ written = [s \in 0..MaxStamp |-> IF s = 1 THEN KeysOf(file.recs) ELSE {}]
    /\ target \in {[present |-> TRUE, rev |-> 1, dir |-> 1, token |-> t] : t \in Tokens}
    /\ queue = NoDatabase
    /\ cursor = NoCursor
    /\ store \in [Keys -> {NoOwner} \union {o \in Owners : \A t \in Tokens : TokenOwner[t] # o}]
    /\ pc = [c \in Collectors |-> "idle"]
    /\ snap = [c \in Collectors |-> NoSnap]
    /\ seen = [c \in Collectors |-> NoSeen]
    /\ handle = [c \in Collectors |-> NoHandle]
    /\ plan = [c \in Collectors |-> NoPlan]
    /\ drain = [c \in Collectors |-> NoDrain]
    /\ down = [c \in Collectors |-> FALSE]

-----------------------------------------------------------------------------
(* The writer of the log (a coding agent), outside the shim. *)

WriteLog(recs, torn, present) ==
    /\ file.stamp < MaxStamp
    /\ file' = [stamp |-> file.stamp + 1, recs |-> recs, torn |-> torn, present |-> present]
    /\ written' = [written EXCEPT ![file.stamp + 1] = KeysOf(recs)]
    /\ UNCHANGED <<target, queue, cursor, store, local>>

(* A new record is appended; its line may be flushed in two writes. *)
AppendRecord(k) ==
    /\ file.present /\ \A s \in 0..MaxStamp : k \notin written[s]
    /\ WriteLog(Append(file.recs, k), FALSE, TRUE)

AppendPartial ==
    /\ file.present /\ ~file.torn
    /\ WriteLog(file.recs, TRUE, TRUE)

(* A session file is rewritten in place without its first record. *)
RewriteLog ==
    /\ file.present /\ file.recs # <<>>
    /\ WriteLog(Tail(file.recs), file.torn, TRUE)

DeleteLog ==
    /\ file.present
    /\ WriteLog(<<>>, FALSE, FALSE)

-----------------------------------------------------------------------------
(* The registry commands: TargetStore::upsert and TargetStore::remove. *)

Upsert(t) ==
    /\ target.rev < MaxRev
    /\ target' = [present |-> TRUE, rev |-> target.rev + 1, token |-> t,
                  dir |-> IF target.present THEN target.dir ELSE target.dir + 1]
    /\ UNCHANGED <<file, written, queue, cursor, store, local>>

Remove ==
    /\ target.present /\ target.dir <= MaxRemovals
    /\ target.rev < MaxRev
    /\ target' = [present |-> FALSE, rev |-> target.rev + 1, dir |-> target.dir, token |-> target.token]
    /\ queue' = NoDatabase
    /\ cursor' = NoCursor
    /\ UNCHANGED <<file, written, store, local>>

-----------------------------------------------------------------------------
(* One run of a collector. *)

Goto(c, label) == pc' = [pc EXCEPT ![c] = label]

(* The run ends, normally or not: what it kept in memory is gone. *)
Finish(c) ==
    /\ Goto(c, "idle")
    /\ snap' = [snap EXCEPT ![c] = NoSnap]
    /\ seen' = [seen EXCEPT ![c] = NoSeen]
    /\ handle' = [handle EXCEPT ![c] = NoHandle]
    /\ plan' = [plan EXCEPT ![c] = NoPlan]
    /\ drain' = [drain EXCEPT ![c] = NoDrain]
    /\ down' = [down EXCEPT ![c] = FALSE]

(* The process is killed, or the machine stops, between any two steps. *)
Crash(c) ==
    /\ pc[c] # "idle"
    /\ Finish(c)
    /\ UNCHANGED disk

(* run_with_selected_report: load the registered target. *)
Start(c) ==
    /\ pc[c] = "idle"
    /\ target.present
    /\ queue.next <= MaxSeq
    /\ Goto(c, "stat")
    /\ snap' = [snap EXCEPT ![c] = [rev |-> target.rev, token |-> target.token]]
    /\ UNCHANGED <<disk, seen, handle, plan, drain, down>>

(* prepare_cached_adapters: stat the log, parse it only if the stamp moved. *)
Stat(c) ==
    /\ pc[c] = "stat"
    /\ seen' = [seen EXCEPT ![c].stamp = IF file.present THEN file.stamp ELSE 0]
    /\ Goto(c, IF file.present /\ cursor.stamp # file.stamp THEN "parse" ELSE "hello")
    /\ UNCHANGED <<disk, snap, handle, plan, drain, down>>

(* parse_discovered_once: stat the log again, then read it.  The stamp is  *)
(* one the log had since Stat, the records may be newer; a log that is     *)
(* gone at the second stat yields no record and no error.                  *)
Parse(c) ==
    /\ pc[c] = "parse"
    /\ \/ /\ file.present
          /\ \E s \in seen[c].stamp..file.stamp :
                seen' = [seen EXCEPT ![c] = [stamp |-> s, recs |-> file.recs, err |-> file.torn]]
       \/ /\ ~file.present
          /\ \E s \in seen[c].stamp..(file.stamp - 1) :
                seen' = [seen EXCEPT ![c] = [stamp |-> s, recs |-> <<>>, err |-> TRUE]]
       \/ ~file.present /\ UNCHANGED seen
    /\ Goto(c, "hello")
    /\ UNCHANGED <<disk, snap, handle, plan, drain, down>>

(* durable::open, the handshake: a server that answers receipt version 1    *)
(* names the owner; an old or unreachable one leaves the queue bound to the *)
(* token; a revoked token ends the run.                                     *)
Hello(c) ==
    /\ pc[c] = "hello"
    /\ \/ /\ Current(c)
          /\ \E owner \in {NoOwner} \union (IF TRUE \in Receipts THEN {TokenOwner[snap[c].token]} ELSE {}) :
                 handle' = [handle EXCEPT ![c].owner = owner]
          /\ Goto(c, "open")
          /\ UNCHANGED <<snap, seen, plan, drain, down>>
       \/ Finish(c)
    /\ UNCHANGED disk

(* UsageQueue::open. *)
OpenQueue(c) ==
    /\ pc[c] = "open"
    /\ LET requested == [owner |-> handle[c].owner, token |-> snap[c].token]
           known     == queue.dir # 0 /\ Compatible(queue.id, requested)
           owner     == IF requested.owner = NoOwner /\ known THEN queue.id.owner ELSE requested.owner
       IN  IF ~target.present \/ (queue.rows # {} /\ ~known)
           THEN /\ Finish(c)
                /\ UNCHANGED disk
           ELSE /\ queue' = [dir |-> target.dir, id |-> [owner |-> owner, token |-> requested.token],
                             rows |-> queue.rows, next |-> queue.next]
                /\ handle' = [handle EXCEPT ![c] = [dir |-> target.dir, owner |-> owner]]
                /\ drain' = [drain EXCEPT ![c] = NewDrain(FALSE)]
                /\ Goto(c, "peek")
                /\ UNCHANGED <<file, written, target, cursor, store, snap, seen, plan, down>>

(* The drain returned: on to planning, or to the next chunk. *)
Drained(c) ==
    /\ Goto(c, IF drain[c].chunked THEN "enqueue" ELSE "plan")
    /\ drain' = [drain EXCEPT ![c] = NoDrain]

(* drain failed: the batch stays in the journal, this run sends no more. *)
DrainFails(c) ==
    /\ Drained(c)
    /\ down' = [down EXCEPT ![c] = TRUE]
    /\ UNCHANGED <<disk, snap, seen, handle, plan>>

FirstRows == {r \in queue.rows : Cardinality({q \in queue.rows : q.seq < r.seq}) < BatchSize}

(* peek_for finds no row. *)
NothingLeft(c) ==
    /\ Drained(c)
    /\ UNCHANGED <<disk, snap, seen, handle, plan, down>>

LeaseRows(c) ==
    /\ drain' = [drain EXCEPT ![c] = Leased(@, FirstRows, @.left - 1)]
    /\ Goto(c, "send")
    /\ UNCHANGED <<disk, snap, seen, handle, plan, down>>

(* Mutant: drain does not stop after its last batch. *)
PeekUnbounded(c) ==
    /\ pc[c] = "peek"
    /\ Current(c) /\ Connects(c)
    /\ IF queue.rows = {} THEN NothingLeft(c) ELSE LeaseRows(c)

(* The first half of an iteration of drain: at most 32 iterations, the     *)
(* registration, peek_for.  Before the first drain of a run, providers     *)
(* may be the operation that finds the journal replaced.                   *)
Peek(c) ==
    /\ pc[c] = "peek"
    /\ \/ drain[c].left = 0 /\ NothingLeft(c)
       \/ drain[c].left # 0 /\ ~Current(c) /\ Finish(c) /\ UNCHANGED disk
       \/ /\ drain[c].left # 0 /\ Current(c) /\ ~Connects(c)
          /\ DrainFails(c) \/ (~drain[c].chunked /\ Finish(c) /\ UNCHANGED disk)
       \/ /\ drain[c].left # 0 /\ Current(c) /\ Connects(c)
          /\ IF queue.rows = {} THEN NothingLeft(c) ELSE LeaseRows(c)

(* drain: the second check of the registration, then the request leaves. *)
Send(c) ==
    /\ pc[c] = "send"
    /\ \/ /\ Current(c)
          /\ Goto(c, "wire")
          /\ UNCHANGED <<disk, snap, seen, handle, plan, drain, down>>
       \/ /\ ~Current(c)
          /\ Finish(c)
          /\ UNCHANGED disk

Accepted(c) == {r.key : r \in drain[c].batch} \ Excluded
Fresh(c)    == {k \in Accepted(c) : store[k] = NoOwner}

(* postEvents and saveUsageEvents: one transaction inserts the keys nobody *)
(* stored yet for the token's account and counts the account's own keys.   *)
Ingest(c) ==
    store' = [k \in Keys |-> IF k \in Fresh(c) THEN TokenOwner[snap[c].token] ELSE store[k]]

(* Mutant: only keys inserted by this request are confirmed. *)
ReceiptInsertedOnly(c, confirms) ==
    [inserted  |-> Cardinality(Fresh(c)),
     deduped   |-> Cardinality(Accepted(c)) - Cardinality(Fresh(c)),
     excluded  |-> Cardinality(drain[c].batch) - Cardinality(Accepted(c)),
     confirmed |-> IF confirms THEN Cardinality(Fresh(c)) ELSE NoCount]

Receipt(c, confirms) ==
    LET mine == Fresh(c) \union {k \in Accepted(c) : store[k] = TokenOwner[snap[c].token]}
    IN  [inserted  |-> Cardinality(Fresh(c)),
         deduped   |-> Cardinality(Accepted(c)) - Cardinality(Fresh(c)),
         excluded  |-> Cardinality(drain[c].batch) - Cardinality(Accepted(c)),
         confirmed |-> IF confirms THEN Cardinality(mine) ELSE NoCount]

(* The server commits and its answer arrives. *)
Deliver(c) ==
    /\ pc[c] = "wire"
    /\ Ingest(c)
    /\ \E confirms \in Receipts : drain' = [drain EXCEPT ![c].reply = Receipt(c, confirms)]
    /\ Goto(c, "reply")
    /\ UNCHANGED <<file, written, target, queue, cursor, snap, seen, handle, plan, down>>

(* The server commits but the answer is lost or unreadable. *)
LoseReply(c) ==
    /\ pc[c] = "wire"
    /\ Ingest(c)
    /\ Drained(c)
    /\ down' = [down EXCEPT ![c] = TRUE]
    /\ UNCHANGED <<file, written, target, queue, cursor, snap, seen, handle, plan>>

(* The request fails before the server commits, or is refused. *)
LoseRequest(c) ==
    /\ pc[c] = "wire"
    /\ DrainFails(c)

(* drain: check the receipt, then the registration for the third time. *)
CheckReceipt(c) ==
    /\ pc[c] = "reply"
    /\ LET ok == Acknowledged(drain[c].reply, Cardinality(drain[c].batch), handle[c].owner # NoOwner)
       IN  \/ ~ok /\ DrainFails(c)
           \/ ok /\ ~Current(c) /\ Finish(c) /\ UNCHANGED disk
           \/ ok /\ Current(c) /\ Goto(c, "ack")
              /\ UNCHANGED <<disk, snap, seen, handle, plan, drain, down>>

(* Mutant: every row pending at the moment of the receipt is deleted. *)
AcknowledgeAll(c) ==
    /\ pc[c] = "ack" /\ Connects(c)
    /\ queue' = [queue EXCEPT !.rows = {}]
    /\ drain' = [drain EXCEPT ![c] = Leased(@, {}, @.left)]
    /\ Goto(c, "peek")
    /\ UNCHANGED <<file, written, target, cursor, store, snap, seen, handle, plan, down>>

(* UsageQueue::acknowledge: delete the leased sequence numbers, if the     *)
(* journal is still the one that was opened.                               *)
Acknowledge(c) ==
    /\ pc[c] = "ack"
    /\ \/ /\ ~Connects(c)
          /\ DrainFails(c)
       \/ /\ Connects(c)
          /\ queue' = [queue EXCEPT !.rows = {r \in @ : \A q \in drain[c].batch : q.seq # r.seq}]
          /\ drain' = [drain EXCEPT ![c] = Leased(@, {}, @.left)]
          /\ Goto(c, "peek")
          /\ UNCHANGED <<file, written, target, cursor, store, snap, seen, handle, plan, down>>

(* run_target: load the cursor again, plan what the file still owes.       *)
(* A file that was not parsed yields no record here.                       *)
Plan(c) ==
    /\ pc[c] = "plan"
    /\ IF ~Current(c)
       THEN /\ Finish(c)
            /\ UNCHANGED disk
       ELSE /\ LET s       == seen[c]
                   same    == s.stamp = 0 \/ cursor.stamp = s.stamp
                   start   == ResumeIndex(cursor.sent, s.recs)
                   update  == IF s.err THEN cursor ELSE [stamp |-> s.stamp, sent |-> s.recs]
                   planned == IF same
                              THEN [events |-> <<>>,
                                    update |-> IF s.stamp = 0 THEN NoCursor ELSE cursor]
                              ELSE [update |-> update,
                                    events |-> SubSeq(s.recs, start + 1, Len(s.recs))]
               IN  plan' = [plan EXCEPT ![c] = planned]
            /\ seen' = [seen EXCEPT ![c] = NoSeen]
            /\ Goto(c, "enqueue")
            /\ UNCHANGED <<disk, snap, handle, drain, down>>

(* The sizes enqueue is tried with: the chunk, halved while it is Full. *)
Halves(n) == {m \in 1..n : \E i \in 0..n : m = n \div 2^i}

(* Mutant: the limit is compared before the records are added. *)
FitsBefore(c, n) == Cardinality(QueueKeys) <= MaxBytes

Fits(c, n) == Cardinality(QueueKeys \union KeysOf(SubSeq(plan[c].events, 1, n))) <= MaxBytes

(* UsageQueue::enqueue of the first n records, all or nothing; a record    *)
(* whose key is pending is skipped.  Sequence numbers only grow: a skipped *)
(* record is given one here, which keeps their order.                      *)
NewRows(c, n) ==
    {[seq |-> queue.next + i - 1, key |-> plan[c].events[i], by |-> TokenOwner[snap[c].token]]
        : i \in {j \in 1..n : /\ plan[c].events[j] \notin QueueKeys
                              /\ \A h \in 1..(j - 1) : plan[c].events[h] # plan[c].events[j]}}

Enqueue(c) ==
    /\ pc[c] = "enqueue"
    /\ plan[c].events # <<>>
    /\ Connects(c)
    /\ LET len == Len(plan[c].events)
       IN  \E n \in Halves(Smaller(Chunk, len)) :
             /\ Fits(c, n)
             /\ \A m \in Halves(Smaller(Chunk, len)) : m > n => ~Fits(c, m)
             /\ queue' = [dir |-> queue.dir, id |-> queue.id,
                          rows |-> queue.rows \union NewRows(c, n), next |-> queue.next + n]
             /\ plan' = [plan EXCEPT ![c].events = SubSeq(@, n + 1, len)]
    /\ IF down[c] THEN /\ Goto(c, "enqueue")
                       /\ UNCHANGED drain
                  ELSE /\ Goto(c, "peek")
                       /\ drain' = [drain EXCEPT ![c] = NewDrain(TRUE)]
    /\ UNCHANGED <<file, written, target, cursor, store, snap, seen, handle, down>>

(* Mutant: a failed enqueue goes on to the cursor. *)
EnqueueFailsSaves(c) ==
    /\ pc[c] = "enqueue"
    /\ plan[c].events # <<>>
    /\ Goto(c, "save")
    /\ UNCHANGED <<disk, snap, seen, handle, plan, drain, down>>

(* Enqueue failed (full at one record, replaced journal, storage error):   *)
(* the cursor is not saved.                                                *)
EnqueueFails(c) ==
    /\ pc[c] = "enqueue"
    /\ plan[c].events # <<>>
    /\ Finish(c)
    /\ UNCHANGED disk

(* Everything planned is committed: check the registration ... *)
CheckCursor(c) ==
    /\ pc[c] = "enqueue"
    /\ plan[c].events = <<>>
    /\ \/ /\ Current(c)
          /\ Goto(c, "save")
          /\ UNCHANGED <<disk, snap, seen, handle, plan, drain, down>>
       \/ /\ ~Current(c)
          /\ Finish(c)
          /\ UNCHANGED disk

(* ... and write the cursor (cursor::save recreates its directory). *)
SaveCursor(c) ==
    /\ pc[c] = "save"
    /\ cursor' = plan[c].update
    /\ Finish(c)
    /\ UNCHANGED <<file, written, target, queue, store>>

-----------------------------------------------------------------------------
Collect(c) ==
    \/ Start(c) \/ Stat(c) \/ Parse(c) \/ Hello(c) \/ OpenQueue(c)
    \/ Peek(c) \/ Send(c) \/ Deliver(c) \/ LoseReply(c) \/ LoseRequest(c)
    \/ CheckReceipt(c) \/ Acknowledge(c)
    \/ Plan(c) \/ Enqueue(c) \/ EnqueueFails(c) \/ CheckCursor(c) \/ SaveCursor(c)

Log == (\E k \in Keys : AppendRecord(k)) \/ AppendPartial \/ RewriteLog \/ DeleteLog

Registry == (\E t \in Tokens : Upsert(t)) \/ Remove

NextAlive == Log \/ Registry \/ \E c \in Collectors : Collect(c)

Next == NextAlive \/ \E c \in Collectors : Crash(c)

Spec == Init /\ [][Next]_vars

(***************************************************************************)
(* While no collector is killed, the daemon's schedule starts collectors   *)
(* again and again, a started collector goes on, a server that is asked    *)
(* again and again answers in time some day, and a disk that is written    *)
(* again and again works some day.                                         *)
(***************************************************************************)
Fairness ==
    \A c \in Collectors :
        /\ WF_vars(Start(c)) /\ WF_vars(Stat(c)) /\ WF_vars(Parse(c)) /\ WF_vars(OpenQueue(c))
        /\ WF_vars(Hello(c)) /\ SF_vars(Hello(c) /\ handle'[c].owner # NoOwner)
        /\ WF_vars(Peek(c)) /\ WF_vars(Send(c)) /\ SF_vars(Deliver(c))
        /\ WF_vars(LoseReply(c) \/ LoseRequest(c) \/ Deliver(c))
        /\ WF_vars(CheckReceipt(c)) /\ WF_vars(Acknowledge(c))
        /\ WF_vars(Plan(c)) /\ SF_vars(Enqueue(c)) /\ WF_vars(Enqueue(c) \/ EnqueueFails(c))
        /\ WF_vars(CheckCursor(c)) /\ WF_vars(SaveCursor(c))

-----------------------------------------------------------------------------
Labels == {"idle", "stat", "parse", "hello", "open", "peek", "send", "wire", "reply", "ack",
           "plan", "enqueue", "save"}

CursorEntry == [stamp : 0..MaxStamp, sent : Seq(Keys)]
Identity    == [owner : Owners \union {NoOwner}, token : Tokens \union {NoOwner}]
Drain       == [batch : SUBSET Row, reply : Reply, left : 0..DrainBatches, chunked : BOOLEAN]

DiskType ==
    /\ file \in [stamp : 1..MaxStamp, recs : Seq(Keys), torn : BOOLEAN, present : BOOLEAN]
    /\ written \in [0..MaxStamp -> SUBSET Keys]
    /\ target \in [present : BOOLEAN, rev : 1..MaxRev, dir : 1..(MaxRemovals + 1), token : Tokens]
    /\ queue \in [dir : 0..(MaxRemovals + 1), id : Identity, rows : SUBSET Row, next : Nat]
    /\ cursor \in CursorEntry
    /\ store \in [Keys -> Owners \union {NoOwner}]

LocalType ==
    /\ pc \in [Collectors -> Labels]
    /\ snap \in [Collectors -> [rev : 0..MaxRev, token : Tokens \union {NoOwner}]]
    /\ seen \in [Collectors -> [stamp : 0..MaxStamp, recs : Seq(Keys), err : BOOLEAN]]
    /\ handle \in [Collectors -> [dir : 0..(MaxRemovals + 1), owner : Owners \union {NoOwner}]]
    /\ plan \in [Collectors -> [events : Seq(Keys), update : CursorEntry]]
    /\ drain \in [Collectors -> Drain]
    /\ down \in [Collectors -> BOOLEAN]

(* Type invariant: what is on disk and on the server, and what each        *)
(* collector keeps in memory.                                              *)
TypeOK == DiskType /\ LocalType

(* The key reached the server under an account of this target, or the      *)
(* server refuses to keep it; an old server only says that it has the key. *)
StoredFor(k, accounts) ==
    \/ k \in Excluded
    \/ store[k] \in accounts
    \/ FALSE \in Receipts /\ store[k] # NoOwner

TargetAccounts == {TokenOwner[t] : t \in Tokens}

(* docs/collection-reliability.md: the read position moves only after the  *)
(* whole observation is committed.  Every record that the log held at the  *)
(* stamp of the cursor of a registered target, and still holds, is in the  *)
(* journal or has been stored: no crash, full journal, torn line,          *)
(* rewritten log or second collector makes the shim skip a record.         *)
CursorCovered ==
    target.present =>
        \A k \in written[cursor.stamp] \intersect KeysOf(file.recs) :
            k \in QueueKeys \/ StoredFor(k, TargetAccounts)

(* UsageQueue::acknowledge deletes by leased sequence number after a       *)
(* verified receipt: a journal row leaves a live journal only when its key *)
(* is stored for the account that journaled it, whichever collector's      *)
(* late receipt removes it.                                                *)
RowsLeaveOnlyDelivered ==
    [][queue'.dir = queue.dir =>
         \A r \in queue.rows \ queue'.rows : StoredFor(r.key, {r.by})]_vars

(* docs/collection-reliability.md: pending records are never moved to      *)
(* another account.  A request on its way carries only rows that were      *)
(* journaled for the account its token authenticates.                      *)
RequestsStayWithAccount ==
    \A c \in Collectors :
        pc[c] = "wire" => \A r \in drain[c].batch : r.by = TokenOwner[snap[c].token]

(* The journal never holds more than its limit, however many collectors    *)
(* enqueue into it.                                                        *)
JournalBounded == Cardinality(queue.rows) <= MaxBytes

(* docs/collection-reliability.md: a queue whose handshake was confirmed   *)
(* once is not cleaned without an owner-confirmed receipt afterwards.      *)
CleanedOnlyConfirmed ==
    [][queue.id.owner # NoOwner =>
         \A c \in Collectors :
            (pc[c] = "ack" /\ pc'[c] = "peek") => drain[c].reply.confirmed # NoCount]_vars

(* While collectors are not killed, a row of a journal whose owner was     *)
(* confirmed is eventually delivered and deleted, across lost requests,    *)
(* lost answers, failed runs and a new token of the same account.          *)
(* Behaviours that reach the bound MaxSeq are left out.                    *)
JournalDrains ==
    [](queue.next <= MaxSeq) =>
        \A k \in Keys : (k \in QueueKeys /\ queue.id.owner # NoOwner) ~> k \notin QueueKeys
=============================================================================
