---------------------------- MODULE MCUsageLive -----------------------------
(***************************************************************************)
(* Liveness of both ends of the usage path in one run of TLC: a behaviour  *)
(* is one of the collectors of UsageCollect or one of the rollups of       *)
(* UsageRollup, as `side` says; the variables of the other keep their      *)
(* first values.                                                           *)
(***************************************************************************)
EXTENDS UsageCollect, TLC

CONSTANTS k1, k2, w1, t1, t2

VARIABLES outbox, held, tokens, raw, rollup, dirty, watermark, eligible, jobs, coverage, tz,
          slot, tzlock, comp, rec, rep, work, retracted, overlapped, losses, kills

VARIABLE side

rollupVars == <<outbox, held, tokens, raw, rollup, dirty, watermark, eligible, jobs, coverage, tz,
                slot, tzlock, comp, rec, rep, work, retracted, overlapped, losses, kills>>

(* Two buckets, which a compactor takes one by one; a key of the first can *)
(* come late and be retracted.                                             *)
Rollup == INSTANCE UsageRollup WITH
    Keys <- {k1}, BucketOf <- (k1 :> 0), NBuckets <- 2, Span <- 2, MaxBuckets <- 1,
    Retractable <- {k1}, Repairable <- {}, Workers <- {w1}, JobLimit <- 1,
    MaxLosses <- 0, MaxKills <- 0, FlushFailures <- TRUE, SlowWorkers <- FALSE

SameOwner == (t1 :> "u1" @@ t2 :> "u1")

(* No collector starts once MaxSeq is passed: while the other side runs,   *)
(* no step of Fairness is enabled.                                         *)
CollectAtRest ==
    /\ file = [stamp |-> 1, recs |-> <<>>, torn |-> FALSE, present |-> TRUE]
    /\ written = [n \in 0..MaxStamp |-> {}]
    /\ target = [present |-> TRUE, rev |-> 1, dir |-> 1, token |-> t1]
    /\ queue = [NoDatabase EXCEPT !.next = MaxSeq + 1]
    /\ cursor = NoCursor /\ store = [k \in Keys |-> NoOwner]
    /\ pc = [c \in Collectors |-> "idle"]
    /\ snap = [c \in Collectors |-> NoSnap] /\ seen = [c \in Collectors |-> NoSeen]
    /\ handle = [c \in Collectors |-> NoHandle] /\ plan = [c \in Collectors |-> NoPlan]
    /\ drain = [c \in Collectors |-> NoDrain] /\ down = [c \in Collectors |-> FALSE]

LiveInit ==
    /\ Rollup!Init
    /\ \/ side = "collect" /\ Init /\ eligible = 0
       \/ side = "rollup" /\ CollectAtRest

LiveNext ==
    /\ UNCHANGED side
    /\ \/ side = "collect" /\ NextAlive /\ UNCHANGED rollupVars
       \/ side = "rollup" /\ Rollup!Next /\ UNCHANGED vars

(* The flush timer and the coordinator's timer keep the server at work as  *)
(* long as there is work to do (startClickHouseOutboxFlush,                *)
(* startRollupCoordinator); which task comes next is not assumed.          *)
LiveSpec ==
    /\ LiveInit /\ [][LiveNext]_<<side, vars, rollupVars>>
    /\ Fairness
    /\ WF_rollupVars(side = "rollup" /\ Rollup!Progress)

(* Once nothing fails any more the compactor catches up                    *)
(* (UsageRollup!RollupCatchesUp).                                          *)
RollupCatchesUp == Rollup!RollupCatchesUp

(* Once nothing fails any more a settled job is finished                   *)
(* (UsageRollup!JobsFinish).                                               *)
JobsFinish == Rollup!JobsFinish
=============================================================================
