--------------------------- MODULE MCUsageRollup ----------------------------
(* Small instances of UsageRollup for TLC. *)
EXTENDS UsageRollup, TLC

CONSTANTS k1, k2, w1, w2

Symmetry == Permutations({w1, w2})

OneKey == (k1 :> 0)
TwoBuckets == (k1 :> 0 @@ k2 :> 1)

(* Sessions that are not lost: without LoseSession the marks of a repair   *)
(* are not consumed between its steps, so that RecheckPricing finds        *)
(* nothing; both happen in MCUsageRollupCases.                             *)
TimezoneNext ==
    \/ \E k \in Keys : Accept(k) \/ Flush(k)
    \/ Retraction \/ RepairRead \/ RepairMark \/ RepairInsert \/ RepairFails \/ Tick \/ Compact
    \/ \E j \in Jobs : Prewarm(j) \/ PruneJob(j)
    \/ \E w \in Workers : Timezone(w)

TimezoneSpec == Init /\ [][TimezoneNext]_vars
=============================================================================
