----------------------------- MODULE UserKeyCache -----------------------------
(***************************************************************************)
(* The cache of unwrapped user keys in a web process.  Callers that miss   *)
(* share one load per cache key; an entry is evicted when the key has been *)
(* rewrapped, expires, gives way to newer ones or is cleared; and every    *)
(* buffer that held a key is filled with zeros once nobody needs it.  Node *)
(* runs one job at a time, but a load, its settling and the continuations  *)
(* of those who wait for it are jobs of their own.                         *)
(***************************************************************************)
EXTENDS Integers, SequencesExt

CONSTANTS
    CacheKeys,
    KeyCallers,      \* calls of withKey
    CacheCapacity,
    MaxLoads,        \* bound: loads that are started
    MaxEvictions     \* bound: calls of evict and clear

ASSUME KeyCacheAssumption ==
    /\ CacheCapacity \in Nat \ {0}
    /\ MaxLoads \in Nat

VARIABLES
    kept,          \* the entries, the oldest first: cache key, load, expired
    loads,         \* the flights: key, generation, waiters, where they are
    inflight,      \* inflight[key]: the number of a load, or 0
    generations,   \* generations[key]; 0 when there is none
    caller,        \* what a call waits for or has got
    evictions      \* evictions[key]: history, the calls of evict and clear

keyCacheVars == <<kept, loads, inflight, generations, caller, evictions>>

NotCalled == [at |-> "idle", key |-> "", load |-> 0, since |-> 0, source |-> "none"]

KeyCacheInit ==
    /\ kept = <<>> /\ loads = <<>>
    /\ inflight = [k \in CacheKeys |-> 0]
    /\ generations = [k \in CacheKeys |-> 0]
    /\ caller = [c \in KeyCallers |-> NotCalled]
    /\ evictions = [k \in CacheKeys |-> 0]

InCache(entries, k) == \E i \in DOMAIN entries : entries[i].key = k

(* An entry is taken out of the map, which has one entry for a key.         *)
Drop(entries, k) ==
    IF InCache(entries, k)
      THEN RemoveAt(entries, CHOOSE i \in DOMAIN entries : entries[i].key = k) ELSE entries

(* cleanupLoad: a load that has settled and that nobody waits for is wiped, *)
(* and is the load of its key no more.                                      *)
Finished(l) == l.at = "settled" /\ l.waiters = 0
Wiped(l) == IF Finished(l) /\ l.source = "key" THEN [l EXCEPT !.source = "zeroed"] ELSE l

CleanupLoad(i, l) ==
    LET k == l.key
        gone == IF Finished(l) /\ inflight[k] = i THEN 0 ELSE inflight[k]
    IN /\ loads' = [loads EXCEPT ![i] = Wiped(l)]
       /\ inflight' = [inflight EXCEPT ![k] = gone]
       /\ generations' = IF Finished(l) /\ ~InCache(kept, k) /\ gone = 0
                           THEN [generations EXCEPT ![k] = 0] ELSE generations

-----------------------------------------------------------------------------
(* loadWorkingCopy: a fresh entry is copied and becomes the newest.        *)
WithCachedKey(c, k) ==
    /\ caller[c].at = "idle"
    /\ \E i \in DOMAIN kept :
          /\ kept[i].key = k /\ ~kept[i].expired
          /\ kept' = Append(Drop(kept, k), kept[i])
          /\ caller' = [caller EXCEPT ![c] = [at |-> "done", key |-> k, load |-> kept[i].load,
                                              since |-> evictions[k], source |-> "key"]]
    /\ UNCHANGED <<loads, inflight, generations, evictions>>

(* Without one, an expired entry being evicted first, the call joins the   *)
(* load that is under way or starts one.                                   *)
WithLoadedKey(c, k) ==
    /\ caller[c].at = "idle"
    /\ \A i \in DOMAIN kept : kept[i].key = k => kept[i].expired
    /\ LET flying == ~InCache(kept, k) /\ inflight[k] # 0
           evicted == InCache(kept, k) /\ inflight[k] # 0
           gen == IF evicted THEN generations[k] + 1
                  ELSE IF InCache(kept, k) THEN 0 ELSE generations[k]
           load == IF flying THEN inflight[k] ELSE Len(loads) + 1
       IN /\ flying \/ Len(loads) < MaxLoads
          /\ loads' = IF flying THEN [loads EXCEPT ![load].waiters = @ + 1]
                      ELSE Append(loads, [key |-> k, gen |-> gen, waiters |-> 1, at |-> "loading",
                                          source |-> "none", born |-> evictions[k]])
          /\ inflight' = [inflight EXCEPT ![k] = load]
          /\ generations' = [generations EXCEPT ![k] = gen]
          /\ caller' = [caller EXCEPT ![c] = [at |-> "waiting", key |-> k, load |-> load,
                                              since |-> evictions[k], source |-> "none"]]
    /\ kept' = Drop(kept, k)
    /\ UNCHANGED evictions

(* A bug: only the generation is compared. *)
CurrentGeneration(i) == loads[i].gen = generations[loads[i].key]

(* startLoad, when the provider has answered: the key is kept if nothing   *)
(* has evicted it meanwhile, and the oldest entries give way.              *)
Current(i) ==
    loads[i].gen = generations[loads[i].key] /\ inflight[loads[i].key] = i

LoadAnswered(i) ==
    /\ loads[i].at = "loading"
    /\ LET k == loads[i].key
           grown == Append(Drop(kept, k), [key |-> k, load |-> i, expired |-> FALSE])
           over == IF Len(grown) > CacheCapacity THEN Len(grown) - CacheCapacity ELSE 0
           pushed == {grown[j].key : j \in 1..over}
       IN /\ loads' = [loads EXCEPT ![i].at = "answered", ![i].source = "key"]
          /\ IF Current(i)
               THEN /\ kept' = SubSeq(grown, over + 1, Len(grown))
                    /\ generations' = [x \in CacheKeys |-> IF x \in pushed /\ inflight[x] = 0
                                                             THEN 0 ELSE generations[x]]
               ELSE UNCHANGED <<kept, generations>>
    /\ UNCHANGED <<inflight, caller, evictions>>

LoadFails(i) ==
    /\ loads[i].at = "loading"
    /\ loads' = [loads EXCEPT ![i].at = "answered"]
    /\ UNCHANGED <<kept, inflight, generations, caller, evictions>>

LoadSettles(i) ==
    /\ loads[i].at = "answered"
    /\ CleanupLoad(i, [loads[i] EXCEPT !.at = "settled"])
    /\ UNCHANGED <<kept, caller, evictions>>

(* A call goes on after its load: it copies the key, or fails as the load  *)
(* has failed, and is no waiter any more.                                  *)
ResumeCaller(c) ==
    /\ caller[c].at = "waiting"
    /\ LET i == caller[c].load
       IN /\ loads[i].at = "settled"
          /\ caller' = [caller EXCEPT ![c].at = "done", ![c].source = loads[i].source]
          /\ CleanupLoad(i, [loads[i] EXCEPT !.waiters = @ - 1])
    /\ UNCHANGED <<kept, evictions>>

-----------------------------------------------------------------------------
Evicted(keys) == /\ \A k \in keys : evictions[k] < MaxEvictions
                 /\ evictions' = [k \in CacheKeys |-> IF k \in keys THEN evictions[k] + 1
                                                      ELSE evictions[k]]

(* evict: the load under way, if any, is not the key's any more. *)
Evict(k) ==
    /\ Evicted({k})
    /\ kept' = Drop(kept, k)
    /\ generations' = [generations EXCEPT ![k] = IF inflight[k] = 0 THEN 0 ELSE @ + 1]
    /\ inflight' = [inflight EXCEPT ![k] = 0]
    /\ UNCHANGED <<loads, caller>>

(* clear: entries, loads under way and, none being left, generations. *)
ClearCache ==
    /\ Evicted(CacheKeys)
    /\ kept' = <<>>
    /\ inflight' = [k \in CacheKeys |-> 0] /\ generations' = [k \in CacheKeys |-> 0]
    /\ UNCHANGED <<loads, caller>>

(* The time of an entry is over ...                                        *)
EntryExpires(i) ==
    /\ ~kept[i].expired
    /\ kept' = [kept EXCEPT ![i].expired = TRUE]
    /\ UNCHANGED <<loads, inflight, generations, caller, evictions>>

(* ... and the timer removes it with all that have expired: the others     *)
(* stay in their order (expireEntries).                                    *)
ExpireEntries ==
    /\ \E i \in DOMAIN kept : kept[i].expired
    /\ \E n \in 0..Len(kept) : \E place \in [1..n -> DOMAIN kept] :
          /\ \A j, h \in 1..n : j < h => place[j] < place[h]
          /\ {place[j] : j \in 1..n} = {i \in DOMAIN kept : ~kept[i].expired}
          /\ kept' = [j \in 1..n |-> kept[place[j]]]
    /\ generations' = [k \in CacheKeys |->
                         IF InCache(kept, k) /\ ~InCache(kept', k) /\ inflight[k] = 0
                           THEN 0 ELSE generations[k]]
    /\ UNCHANGED <<loads, inflight, caller, evictions>>

KeyCacheNext ==
    \/ \E c \in KeyCallers : \/ ResumeCaller(c)
                             \/ \E k \in CacheKeys : WithCachedKey(c, k) \/ WithLoadedKey(c, k)
    \/ \E i \in DOMAIN loads : LoadAnswered(i) \/ LoadFails(i) \/ LoadSettles(i)
    \/ \E k \in CacheKeys : Evict(k)
    \/ \E i \in DOMAIN kept : EntryExpires(i)
    \/ ClearCache \/ ExpireEntries

KeyCacheSpec == KeyCacheInit /\ [][KeyCacheNext]_keyCacheVars

-----------------------------------------------------------------------------
(* Types: entries, loads and calls. *)
KeyCacheTypeOK ==
    /\ kept \in Seq([key : CacheKeys, load : 1..MaxLoads, expired : BOOLEAN])
    /\ Len(kept) <= CacheCapacity
    /\ loads \in Seq([key : CacheKeys, gen : Nat, waiters : Nat, born : Nat,
                      at : {"loading", "answered", "settled"}, source : {"none", "key", "zeroed"}])
    /\ Len(loads) <= MaxLoads
    /\ inflight \in [CacheKeys -> 0..MaxLoads]
    /\ generations \in [CacheKeys -> Nat] /\ evictions \in [CacheKeys -> Nat]
    /\ caller \in [KeyCallers -> {NotCalled} \cup
                     [at : {"waiting", "done"}, key : CacheKeys, load : 1..Len(loads), since : Nat,
                      source : {"none", "key", "zeroed"}]]

(* A call that begins after an eviction never gets a key that was asked    *)
(* for before it, and no such key stays in the cache; no call copies a key *)
(* that has been wiped; and a key that nobody waits for has been wiped     *)
(* (startLoad, cleanupLoad, evict, clear).                                 *)
KeysFreshAndWiped ==
    /\ \A c \in KeyCallers : caller[c].at = "done" =>
          /\ loads[caller[c].load].born >= caller[c].since
          /\ caller[c].source # "zeroed"
    /\ \A i \in DOMAIN kept : loads[kept[i].load].born = evictions[kept[i].key]
    /\ \A i \in DOMAIN loads : Finished(loads[i]) => loads[i].source # "key"
=============================================================================
