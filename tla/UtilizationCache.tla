-------------------------- MODULE UtilizationCache --------------------------
(***************************************************************************)
(* The utilization views and weekly reports are cached in every pod.  An   *)
(* entry's key holds generation counters from PostgreSQL, and a reader     *)
(* goes around the cache while somebody holds a lease on its subject.      *)
(* A request that changes the usage of its user holds a lease on the user, *)
(* the reconciliation of replayed Codex events one on all users, and so    *)
(* does every flush of a batch, by a request or by the timer, from before  *)
(* the insert into ClickHouse to the transaction that delivers the batch.  *)
(*                                                                         *)
(* All callers end a change with changed = true, so the mark that a        *)
(* trigger leaves on a lease (externally_changed) makes no difference and  *)
(* is left out.  A batch is flushed by one worker at a time (UsageOutbox). *)
(***************************************************************************)
EXTENDS Integers, FiniteSets

CONSTANTS
    CacheUsers, \* users
    Pods,       \* server processes with a cache, one reader each
    Changers,   \* requests, timers and repairs that change usage
    AllUsers,   \* the subject of a change of the usage of all users
    Org,        \* the subject of the organization's view
    MaxChanges, \* bound: changes and flushes that are started
    MaxFaults   \* bound: changers that die, flushes that fail and heartbeats that are lost

ASSUME CacheAssumption ==
    /\ AllUsers \notin CacheUsers /\ Org \notin CacheUsers \union {AllUsers}
    /\ "none" \notin CacheUsers \union {AllUsers, Org}
    /\ IsFiniteSet(Changers)
    /\ MaxChanges \in Nat /\ MaxFaults \in Nat

VARIABLES
    generation, \* utilization_cache_generations: per user, AllUsers and Org
    leases,     \* the subject of a lease (None) and whether its heartbeat_at is recent
    userUsage,  \* how often the usage of a user was changed, as ClickHouse shows it
    outbox,     \* the user's batch: "none", "pending" or "inserted" (and not yet delivered)
    changer,    \* per changer: how far it is, whom it changes, and the batch it flushes
    reader,     \* per pod: the request it serves
    cache,      \* per pod: its entries
    changes, cacheFaults

cacheVars == <<generation, leases, userUsage, outbox, changer, reader, cache, changes, cacheFaults>>

None == "none"
NoLease == [on |-> None, recent |-> FALSE]
NoChange == [pc |-> "idle", of |-> None, batch |-> None]
NoRead == [pc |-> "idle", subject |-> None, key |-> <<>>, bypass |-> FALSE, view |-> <<>>]
Subjects == CacheUsers \union {Org}

(* The lease of a change, and the one of a flush, which may be a part of it. *)
Leases == Changers \X {"change", "flush"}

CacheInit ==
    /\ generation = [s \in CacheUsers \union {AllUsers, Org} |-> 0]
    /\ leases = [l \in Leases |-> NoLease]
    /\ userUsage = [u \in CacheUsers |-> 0]
    /\ outbox \in [CacheUsers -> {"none", "pending"}]   \* a batch whose flush failed may wait
    /\ changer = [c \in Changers |-> NoChange]
    /\ reader = [p \in Pods |-> NoRead]
    /\ cache = [p \in Pods |-> {}]
    /\ changes = 0 /\ cacheFaults = 0

(* bump: the subject's generation and the organization's. *)
Advanced(gen, subject) == [gen EXCEPT ![subject] = @ + 1, ![Org] = @ + 1]

Moves(c, pc) == changer' = [changer EXCEPT ![c].pc = pc]

-----------------------------------------------------------------------------
(* withUserUtilizationCacheChange and withAllUtilizationCacheChange begin  *)
(* with a lease on the user, or on all, and on the organization.           *)
BeginChange(c, subject) ==
    /\ changer[c].pc = "idle" /\ changes < MaxChanges
    /\ changes' = changes + 1
    /\ leases' = [leases EXCEPT ![<<c, "change">>] = [on |-> subject, recent |-> TRUE]]
    /\ changer' = [changer EXCEPT ![c] = [pc |-> "begun", of |-> subject, batch |-> None]]
    /\ UNCHANGED <<generation, userUsage, outbox, reader, cache, cacheFaults>>

(* The trigger on the outbox bumps unless a lease will.  *)
UnderLease(user) == \E l \in Leases : leases[l].on \in {user, AllUsers}
Triggered(user) == IF UnderLease(user) THEN generation ELSE Advanced(generation, user)

(* The rows of the request, all of them duplicates of a batch that is      *)
(* still there, or new.                                                    *)
StoreBatch(c) ==
    /\ changer[c].pc = "begun" /\ changer[c].of \in CacheUsers
    /\ LET u == changer[c].of
       IN  IF outbox[u] = "none"
           THEN outbox' = [outbox EXCEPT ![u] = "pending"] /\ generation' = Triggered(u)
           ELSE UNCHANGED <<outbox, generation>>
    /\ Moves(c, "stored")
    /\ UNCHANGED <<leases, userUsage, reader, cache, changes, cacheFaults>>

(* Changes without the outbox: a retraction or tool activity of the user,  *)
(* replayed Codex events of some users.                                    *)
ChangeUsage(c, users) ==
    /\ changer[c].pc = "begun"
    /\ changer[c].of \in CacheUsers => users = {changer[c].of}
    /\ userUsage' = [u \in CacheUsers |-> IF u \in users THEN userUsage[u] + 1 ELSE userUsage[u]]
    /\ Moves(c, "changed")
    /\ UNCHANGED <<generation, leases, outbox, reader, cache, changes, cacheFaults>>

(* flushUsageOutbox takes a batch that nobody flushes, in a request or by  *)
(* the timer, and begins a change of all users.                            *)
BeginFlush(c, u) ==
    /\ \/ changer[c].pc = "stored" /\ changes' = changes
       \/ changer[c].pc = "idle" /\ changes < MaxChanges /\ changes' = changes + 1
    /\ outbox[u] # "none" /\ \A d \in Changers : changer[d].batch # u
    /\ leases' = [leases EXCEPT ![<<c, "flush">>] = [on |-> AllUsers, recent |-> TRUE]]
    /\ changer' = [changer EXCEPT ![c] = [@ EXCEPT !.pc = "flushing", !.batch = u]]
    /\ UNCHANGED <<generation, userUsage, outbox, reader, cache, cacheFaults>>

(* The request finds nothing to flush. *)
SkipFlush(c) ==
    /\ changer[c].pc = "stored"
    /\ Moves(c, "changed")
    /\ UNCHANGED <<generation, leases, userUsage, outbox, reader, cache, changes, cacheFaults>>

(* ClickHouse shows the batch, now or since an earlier attempt. *)
InsertBatch(c) ==
    /\ changer[c].pc = "flushing"
    /\ LET u == changer[c].batch
       IN  /\ userUsage' = [userUsage EXCEPT ![u] = IF outbox[u] = "pending" THEN @ + 1 ELSE @]
           /\ outbox' = [outbox EXCEPT ![u] = "inserted"]
    /\ Moves(c, "inserted")
    /\ UNCHANGED <<generation, leases, reader, cache, changes, cacheFaults>>

(* A request goes on with the end of its change, the timer is done. *)
AfterFlush(c) == IF changer[c].of = None THEN NoChange ELSE [changer[c] EXCEPT !.pc = "changed", !.batch = None]

(* One transaction: the rows get their delivered_at, with the trigger's    *)
(* bump, and the change of all users ends, with a bump of its own.         *)
MarkDelivered(c) ==
    /\ changer[c].pc = "inserted"
    /\ outbox' = [outbox EXCEPT ![changer[c].batch] = "none"]
    /\ generation' = Advanced(Triggered(changer[c].batch), AllUsers)
    /\ leases' = [leases EXCEPT ![<<c, "flush">>] = NoLease]
    /\ changer' = [changer EXCEPT ![c] = AfterFlush(c)]
    /\ UNCHANGED <<userUsage, reader, cache, changes, cacheFaults>>

(* The flush fails before or after the insert: the change of all users     *)
(* ends all the same, and the batch waits for another flush.               *)
BatchFails(c) ==
    /\ changer[c].pc \in {"flushing", "inserted"} /\ cacheFaults < MaxFaults
    /\ cacheFaults' = cacheFaults + 1
    /\ generation' = Advanced(generation, AllUsers)
    /\ leases' = [leases EXCEPT ![<<c, "flush">>] = NoLease]
    /\ changer' = [changer EXCEPT ![c] = AfterFlush(c)]
    /\ UNCHANGED <<userUsage, outbox, reader, cache, changes>>

(* Mutant: the end of a change bumps and leaves the lease. *)
FinishKeepsLease(c) ==
    /\ changer[c].pc = "changed"
    /\ generation' = Advanced(generation, changer[c].of)
    /\ changer' = [changer EXCEPT ![c] = NoChange]
    /\ UNCHANGED <<leases, userUsage, outbox, reader, cache, changes, cacheFaults>>

(* finish_*_utilization_cache_change: removes the lease, if it is still    *)
(* there, and bumps.                                                       *)
FinishChange(c) ==
    /\ changer[c].pc = "changed"
    /\ generation' = Advanced(generation, changer[c].of)
    /\ leases' = [leases EXCEPT ![<<c, "change">>] = NoLease]
    /\ changer' = [changer EXCEPT ![c] = NoChange]
    /\ UNCHANGED <<userUsage, outbox, reader, cache, changes, cacheFaults>>

(* The process dies, or cannot end its change. *)
ChangerDies(c) ==
    /\ changer[c].pc \notin {"idle", "dead"} /\ cacheFaults < MaxFaults
    /\ cacheFaults' = cacheFaults + 1
    /\ changer' = [changer EXCEPT ![c] = [@ EXCEPT !.pc = "dead", !.batch = None]]
    /\ UNCHANGED <<generation, leases, userUsage, outbox, reader, cache, changes>>

(* Five minutes without a heartbeat: of a dead process, or because the     *)
(* heartbeats failed, which the change does not notice.                    *)
HeartbeatStale(l) ==
    /\ leases[l].recent
    /\ \/ changer[l[1]].pc = "dead" /\ cacheFaults' = cacheFaults
       \/ changer[l[1]].pc # "dead" /\ cacheFaults < MaxFaults /\ cacheFaults' = cacheFaults + 1
    /\ leases' = [leases EXCEPT ![l].recent = FALSE]
    /\ UNCHANGED <<generation, userUsage, outbox, changer, reader, cache, changes>>

-----------------------------------------------------------------------------
CacheKey(gen, subject) == IF subject = Org THEN <<gen[Org]>> ELSE <<gen[subject], gen[AllUsers]>>
Pending(held, subject) ==
    \E l \in Leases : held[l].on # None /\ (subject = Org \/ held[l].on \in {subject, AllUsers})

(* read_utilization_cache_generation collects the leases without recent    *)
(* heartbeat and bumps for each of them, and answers with the counters and *)
(* leases of the subject.  The counters never return to an older value, so *)
(* that the model drops the entries of the pod with older ones.            *)
StaleLeases == {l \in Leases : leases[l].on # None /\ ~leases[l].recent}
Usable(p, gen) == {e \in cache[p] : e.key = CacheKey(gen, e.subject)}
Collected ==
    [s \in DOMAIN generation |->
        generation[s] + Cardinality({l \in StaleLeases : s = Org \/ leases[l].on = s})]

(* Mutant: leases are collected without a new generation. *)
ReadGenerationNoBump(p, subject) ==
    /\ reader[p].pc = "idle"
    /\ LET held == [l \in Leases |-> IF l \in StaleLeases THEN NoLease ELSE leases[l]]
       IN  /\ leases' = held
           /\ reader' = [reader EXCEPT ![p] = [NoRead EXCEPT !.pc = "keyed", !.subject = subject,
                            !.key = CacheKey(generation, subject), !.bypass = Pending(held, subject)]]
    /\ cache' = [cache EXCEPT ![p] = Usable(p, generation)]
    /\ UNCHANGED <<generation, userUsage, outbox, changer, changes, cacheFaults>>

ReadGeneration(p, subject) ==
    /\ reader[p].pc = "idle"
    /\ LET held == [l \in Leases |-> IF l \in StaleLeases THEN NoLease ELSE leases[l]]
       IN  /\ generation' = Collected
           /\ leases' = held
           /\ reader' = [reader EXCEPT ![p] = [NoRead EXCEPT !.pc = "keyed", !.subject = subject,
                            !.key = CacheKey(Collected, subject), !.bypass = Pending(held, subject)]]
    /\ cache' = [cache EXCEPT ![p] = Usable(p, Collected)]
    /\ UNCHANGED <<userUsage, outbox, changer, changes, cacheFaults>>

Covered(subject) == IF subject = Org THEN CacheUsers ELSE {subject}
View(subject) == [u \in Covered(subject) |-> userUsage[u]]
Hit(p) == ~reader[p].bypass /\ \E e \in cache[p] : e.subject = reader[p].subject /\ e.key = reader[p].key

(* An entry with this key answers the request. *)
ReadHit(p) ==
    /\ reader[p].pc = "keyed" /\ Hit(p)
    /\ reader' = [reader EXCEPT ![p] = NoRead]
    /\ UNCHANGED <<generation, leases, userUsage, outbox, changer, cache, changes, cacheFaults>>

(* Otherwise the view is computed ... *)
ComputeView(p) ==
    /\ reader[p].pc = "keyed" /\ ~Hit(p)
    /\ reader' = [reader EXCEPT ![p].pc = "computed", ![p].view = View(reader[p].subject)]
    /\ UNCHANGED <<generation, leases, userUsage, outbox, changer, cache, changes, cacheFaults>>

(* ... and stored under the key that was read before it was computed,      *)
(* unless the cache is bypassed.                                           *)
StoreView(p) ==
    /\ reader[p].pc = "computed"
    /\ cache' = IF reader[p].bypass THEN cache
                ELSE [cache EXCEPT ![p] = @ \union {[subject |-> reader[p].subject,
                                                     key |-> reader[p].key, view |-> reader[p].view]}]
    /\ reader' = [reader EXCEPT ![p] = NoRead]
    /\ UNCHANGED <<generation, leases, userUsage, outbox, changer, changes, cacheFaults>>

CacheNext ==
    \/ \E c \in Changers, s \in CacheUsers \union {AllUsers} : BeginChange(c, s)
    \/ \E c \in Changers : StoreBatch(c) \/ SkipFlush(c) \/ InsertBatch(c) \/ MarkDelivered(c)
    \/ \E c \in Changers, u \in CacheUsers : BeginFlush(c, u)
    \/ \E c \in Changers, users \in SUBSET CacheUsers : ChangeUsage(c, users)
    \/ \E c \in Changers : FinishChange(c) \/ BatchFails(c) \/ ChangerDies(c)
    \/ \E l \in Leases : HeartbeatStale(l)
    \/ \E p \in Pods, s \in Subjects : ReadGeneration(p, s)
    \/ \E p \in Pods : ReadHit(p) \/ ComputeView(p) \/ StoreView(p)

CacheSpec == CacheInit /\ [][CacheNext]_cacheVars

-----------------------------------------------------------------------------
(* Type invariant. *)
CacheTypeOK ==
    /\ generation \in [CacheUsers \union {AllUsers, Org} -> Nat]
    /\ userUsage \in [CacheUsers -> Nat]
    /\ outbox \in [CacheUsers -> {"none", "pending", "inserted"}]
    /\ \A c \in Changers :
          /\ changer[c].pc \in {"idle", "begun", "stored", "flushing", "inserted", "changed", "dead"}
          /\ changer[c].of \in CacheUsers \union {AllUsers, None}
          /\ changer[c].batch \in CacheUsers <=> changer[c].pc \in {"flushing", "inserted"}
          /\ leases[<<c, "change">>].on \in {changer[c].of, None}
          /\ leases[<<c, "flush">>].on \in {AllUsers, None}
    /\ \A p \in Pods : reader[p].pc = "computed" => DOMAIN reader[p].view = Covered(reader[p].subject)
    /\ \A p \in Pods : \A e \in cache[p] : DOMAIN e.view = Covered(e.subject)

(* Whatever pod cached it, and however long its view took to compute, an   *)
(* entry a reader would be answered with now, having found no lease, shows *)
(* every user's usage as it is, also after flushes that failed or died     *)
(* half way, unless a change that is still under way lost its lease for    *)
(* want of heartbeats.                                                     *)
Unannounced(u) ==
    \E c \in Changers :
        \/ changer[c].pc = "inserted" /\ changer[c].batch = u /\ leases[<<c, "flush">>].on = None
        \/ /\ changer[c].pc = "changed" /\ changer[c].of \in {u, AllUsers}
           /\ leases[<<c, "change">>].on = None

EntriesCurrent ==
    \A p \in Pods : \A e \in cache[p] :
        e.key = CacheKey(Collected, e.subject) /\ (\A l \in Leases : ~leases[l].recent)
            => \A u \in Covered(e.subject) : Unannounced(u) \/ e.view[u] = userUsage[u]
=============================================================================
