------------------------- MODULE MCUsageRollupCases -------------------------
(***************************************************************************)
(* Two instances of UsageRollup in one run of TLC, both with a load slot   *)
(* that may be lost.  In the first events are repriced and flushes fail or *)
(* die; in the second a key is retracted while timezone workers overlap.   *)
(* A behaviour is one of the instance that `part` names; the constants are *)
(* wide enough for both.                                                   *)
(***************************************************************************)
EXTENDS MCUsageRollup

VARIABLE part

CaseInit == Init /\ part \in {"repriced", "retracted"}

CaseNext ==
    /\ UNCHANGED part
    /\ Next
    /\ \/ part = "repriced" /\ UNCHANGED <<rec, work>>
       \/ part = "retracted" /\ UNCHANGED rep /\ \A k \in Keys : FlushFails(k) => Delivered(k)

CaseSpec == CaseInit /\ [][CaseNext]_<<part, vars>>
=============================================================================
