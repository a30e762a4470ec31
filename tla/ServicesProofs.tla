--------------------------- MODULE ServicesProofs ---------------------------
(***************************************************************************)
(* The services of MCServices side by side.  A step of one leaves the      *)
(* variables of the others alone, so that a behaviour of all of them is,   *)
(* for each, a behaviour of that service: it implements the specification  *)
(* that the service's own proofs are about, and keeps what they prove.     *)
(***************************************************************************)
EXTENDS MCServices, ServerProofs, PricingProofs, TeamProofs, DeviceProofs, KeyProofs

(* The outbox is served as UsageOutbox says.                               *)
LEMMA OutboxServes == ServicesSpec => OutboxSpec
<1>1. ServicesInit => OutboxInit
  BY DEF ServicesInit
<1>2. [ServicesNext]_serviceVars => [OutboxNext]_outboxVars
  BY DEF ServicesNext, serviceVars, restVars, earlierVars
<1> QED  BY <1>1, <1>2, PTL DEF ServicesSpec, OutboxSpec

(* The utilization cache is served as UtilizationCache says.               *)
LEMMA CacheServes == ServicesSpec => CacheSpec
<1>1. ServicesInit => CacheInit
  BY DEF ServicesInit
<1>2. [ServicesNext]_serviceVars => [CacheNext]_cacheVars
  BY DEF ServicesNext, serviceVars, restVars, earlierVars
<1> QED  BY <1>1, <1>2, PTL DEF ServicesSpec, CacheSpec

(* Calls are admitted as ClickHouseAdmission says.                         *)
LEMMA AdmissionServes == ServicesSpec => AdmissionSpec
<1>1. ServicesInit => AdmissionInit
  BY DEF ServicesInit
<1>2. [ServicesNext]_serviceVars => [AdmissionNext]_admissionVars
  BY DEF ServicesNext, serviceVars, restVars, earlierVars
<1> QED  BY <1>1, <1>2, PTL DEF ServicesSpec, AdmissionSpec

(* Prices are recovered as PricingHistory says.                            *)
LEMMA HistoryServes == ServicesSpec => HistSpec
<1>1. ServicesInit => HistInit
  BY DEF ServicesInit
<1>2. [ServicesNext]_serviceVars => [HistNext]_histVars
  BY DEF ServicesNext, serviceVars, restVars, earlierVars
<1> QED  BY <1>1, <1>2, PTL DEF ServicesSpec, HistSpec

(* Late events are priced as PricingRepair says.                           *)
LEMMA RepairServes == ServicesSpec => RepairSpec
<1>1. ServicesInit => RepairInit
  BY DEF ServicesInit
<1>2. [ServicesNext]_serviceVars => [RepairNext]_repairVars
  BY DEF ServicesNext, serviceVars, restVars, earlierVars
<1> QED  BY <1>1, <1>2, PTL DEF ServicesSpec, RepairSpec

(* Workers get their turns as RollupCoordinator says.                      *)
LEMMA CoordinatorServes == ServicesSpec => CoordSpec
<1>1. ServicesInit => CoordInit
  BY DEF ServicesInit
<1>2. [ServicesNext]_serviceVars => [CoordNext]_coordVars
  BY DEF ServicesNext, serviceVars, restVars, earlierVars
<1> QED  BY <1>1, <1>2, PTL DEF ServicesSpec, CoordSpec

(* Devices run as DeviceControl says.                                      *)
LEMMA DeviceServes == ServicesSpec => DevSpec
<1>1. ServicesInit => DevInit
  BY DEF ServicesInit
<1>2. [ServicesNext]_serviceVars => [DevNext]_devVars
  BY DEF ServicesNext, serviceVars, restVars, earlierVars
<1> QED  BY <1>1, <1>2, PTL DEF ServicesSpec, DevSpec

(* Versions are rolled out as ToolRollout says.                            *)
LEMMA ToolServes == ServicesSpec => ToolSpec
<1>1. ServicesInit => ToolInit
  BY DEF ServicesInit
<1>2. [ServicesNext]_serviceVars => [ToolNext]_toolVars
  BY DEF ServicesNext, serviceVars, restVars, earlierVars
<1> QED  BY <1>1, <1>2, PTL DEF ServicesSpec, ToolSpec

(* Usage is given to teams as TeamAttribution says.                        *)
LEMMA TeamServes == ServicesSpec => TeamSpec
<1>1. ServicesInit => TeamInit
  BY DEF ServicesInit
<1>2. [ServicesNext]_serviceVars => [TeamNext]_teamVars
  BY DEF ServicesNext, serviceVars, restVars, earlierVars
<1> QED  BY <1>1, <1>2, PTL DEF ServicesSpec, TeamSpec

(* Keys are rewrapped as ManagedKeys says.                                 *)
LEMMA KeysServes == ServicesSpec => KeySpec
<1>1. ServicesInit => KeyInit
  BY DEF ServicesInit
<1>2. [ServicesNext]_serviceVars => [KeyNext]_keyVars
  BY DEF ServicesNext, serviceVars, restVars, earlierVars
<1> QED  BY <1>1, <1>2, PTL DEF ServicesSpec, KeySpec

(* Keys are cached as UserKeyCache says.                                   *)
LEMMA KeyCacheServes == ServicesSpec => KeyCacheSpec
<1>1. ServicesInit => KeyCacheInit
  BY DEF ServicesInit
<1>2. [ServicesNext]_serviceVars => [KeyCacheNext]_keyCacheVars
  BY DEF ServicesNext, serviceVars, restVars, earlierVars
<1> QED  BY <1>1, <1>2, PTL DEF ServicesSpec, KeyCacheSpec

(* Each service runs as its own module says: its calls, batches, jobs and  *)
(* runs, whatever the others do.                                           *)
THEOREM EachServes ==
    ServicesSpec =>
      /\ OutboxSpec /\ CacheSpec /\ AdmissionSpec /\ HistSpec /\ RepairSpec /\ CoordSpec
      /\ DevSpec /\ ToolSpec /\ TeamSpec /\ KeySpec /\ KeyCacheSpec
BY OutboxServes, CacheServes, AdmissionServes, HistoryServes, RepairServes, CoordinatorServes,
   DeviceServes, ToolServes, TeamServes, KeysServes, KeyCacheServes

(* The types of one service are enough while it is the one that runs.      *)
LEMMA TypesTogether ==
    /\ OutboxTypeOK /\ CacheTypeOK /\ AdmissionTypeOK /\ HistTypeOK /\ RepairTypeOK /\ CoordTypeOK
    /\ DevTypeOK /\ ToolTypeOK /\ TeamTypeOK /\ KeyTypeOK /\ KeyCacheTypeOK
    => ServicesTypeOK
BY DEF ServicesTypeOK

(* The rows, files and sessions of every service keep their types, when a  *)
(* job of the pricing history that goes on after a wait (resume) goes on   *)
(* from the row it has.                                                    *)
THEOREM ServicesTyped == ServicesSpec /\ [][ResumesFresh]_histVars => []ServicesTypeOK
BY OutboxServes, CacheServes, AdmissionServes, HistoryServes, RepairServes, CoordinatorServes,
   DeviceServes, ToolServes, TeamServes, KeysServes, KeyCacheServes,
   OutboxTyped, CacheTypeCorrect, AdmissionTyped, HistoryTypeCorrect, RepairTypeCorrect, CoordTyped,
   DeviceTyped, ToolTyped, TeamTyped, KeysTyped, KeyCacheTyped, TypesTogether, PTL

(* A coordinator that is the only one to step the job needs no promise.    *)
COROLLARY OneStepperTyped ==
    ASSUME \A s, t \in Steppers : s = t
    PROVE  ServicesSpec => []ServicesTypeOK
<1>1. HistSpec => [][ResumesFresh]_histVars
  BY OneStepperResumesFresh
<1> QED  BY <1>1, HistoryServes, ServicesTyped, PTL

(* What the services promise without any promise to them: exact slots in   *)
(* order of arrival (ClickHouseAdmission), no second delivery              *)
(* (flushUsageOutbox), a timezone layer on a base that serves              *)
(* (RollupCoordinator), usage of rollups kept and all of it attributed     *)
(* (backfillRollupOnly), no key left with the old provider, and fresh,     *)
(* wiped keys (UserContentKeyCache).                                       *)
THEOREM ServicesKeep ==
    ServicesSpec =>
      /\ []SlotsExact /\ FirstComeFirstServed /\ DeliveredStays /\ TimezoneOnBase
      /\ []RollupUsageKept /\ []DoneIsAttributed /\ []OldProviderUnused /\ []KeysFreshAndWiped
BY AdmissionServes, OutboxServes, CoordinatorServes, TeamServes, KeysServes, KeyCacheServes,
   AdmissionExact, AdmissionInOrder, DeliveredNeverLeased, TimezoneAlwaysOnBase, RollupUsageAlwaysKept,
   DoneAlwaysAttributed, OldProviderNeverUsed, KeysAlwaysFreshAndWiped
=============================================================================
