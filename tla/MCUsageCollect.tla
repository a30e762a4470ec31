--------------------------- MODULE MCUsageCollect ---------------------------
(* Small instances of UsageCollect for TLC. *)
EXTENDS UsageCollect, TLC

CONSTANTS a, b, k1, k2, t1, t2, u1, u2, other

Symmetry == Permutations({a, b}) \union Permutations({k1, k2})

OneOwner == (t1 :> u1)
SameOwner == (t1 :> u1 @@ t2 :> u1)
TwoOwners == (t1 :> u1 @@ t2 :> u2)
=============================================================================
