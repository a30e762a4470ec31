----------------------------- MODULE MCServices ------------------------------
(***************************************************************************)
(* Small instances of the services around the usage path, checked in one   *)
(* run of TLC: a behaviour is one of the service that `service` names,     *)
(* while the variables of the others keep their first values.              *)
(***************************************************************************)
EXTENDS UsageOutbox, UtilizationCache, ClickHouseAdmission, PricingHistory, PricingRepair,
        RollupCoordinator, DeviceControl, ToolRollout, TeamAttribution, ManagedKeys,
        UserKeyCache, TLC

CONSTANTS
    Services,      \* the services a run checks
    OldProvider    \* the provider of the processes that create no keys

CONSTANTS k1, k2, f1, f2, p1, c1, c2, o1, o2, o3, e1, e2, m1, m2, d1, d2, d3

VARIABLE service

serviceVars == <<service, outboxVars, cacheVars, admissionVars, histVars, repairVars, coordVars,
                 devVars, toolVars, teamVars, keyVars, keyCacheVars>>

restVars == <<teamVars, keyVars, keyCacheVars>>

Times == <<0, 1, 3>>
TwoTimes == <<0, 1>>
OneModelEach == (e1 :> m1 @@ e2 :> m2)
CanaryOrLast == {(d1 :> 10), (d1 :> 100)}
CanaryThenRest == {(d1 :> 10 @@ d2 :> 50)}
OneOfEach == {(d1 :> 10 @@ d2 :> 50 @@ d3 :> 100)}

(* A service that is not checked starts in one state.  A layer of the      *)
(* cutover that nobody changes may have wrong data and does not lag.       *)
ServicesInit ==
    /\ service \in Services
    /\ OutboxInit /\ CacheInit /\ AdmissionInit /\ HistInit /\ RepairInit /\ CoordInit
    /\ DevInit /\ ToolInit /\ TeamInit /\ KeyInit /\ KeyCacheInit
    /\ service # "cache" => outbox = [u \in CacheUsers |-> "none"]
    /\ service # "history" =>
          unreadable = {} /\ \A c \in Commits, m \in HistModels : snapshots[c][m] = NoPrice
    /\ service # "repair" => replays = 0
    /\ service # "coordinator" => \A l \in Layers : ~layerData[l].wrong
    /\ \A l \in Layers \ FreeLayers : layerData[l].behind = "none"
    /\ service # "coordinator" => \A l \in Layers : layerData[l].behind = "none"
    /\ service # "tool" => cohort = CHOOSE c \in Cohorts : TRUE
    /\ service # "keys" => registry = [p \in KeyPods |-> [active |-> OldProvider, migration |-> NoProvider]]

earlierVars == <<outboxVars, cacheVars, admissionVars, histVars, repairVars, coordVars, devVars,
                 toolVars>>

ServicesNext ==
    /\ UNCHANGED service
    /\ \/ /\ service = "outbox" /\ OutboxNext
          /\ UNCHANGED <<cacheVars, admissionVars, histVars, repairVars, coordVars, devVars, toolVars,
                         restVars>>
       \/ /\ service = "cache" /\ CacheNext
          /\ UNCHANGED <<outboxVars, admissionVars, histVars, repairVars, coordVars, devVars, toolVars,
                         restVars>>
       \/ /\ service = "admission" /\ AdmissionNext
          /\ UNCHANGED <<outboxVars, cacheVars, histVars, repairVars, coordVars, devVars, toolVars,
                         restVars>>
       \/ /\ service = "history" /\ HistNext
          /\ UNCHANGED <<outboxVars, cacheVars, admissionVars, repairVars, coordVars, devVars, toolVars,
                         restVars>>
       \/ /\ service = "repair" /\ RepairNext
          /\ UNCHANGED <<outboxVars, cacheVars, admissionVars, histVars, coordVars, devVars, toolVars,
                         restVars>>
       \/ /\ service = "coordinator" /\ CoordNext
          /\ UNCHANGED <<outboxVars, cacheVars, admissionVars, histVars, repairVars, devVars, toolVars,
                         restVars>>
       \/ /\ service = "device" /\ DevNext
          /\ UNCHANGED <<outboxVars, cacheVars, admissionVars, histVars, repairVars, coordVars, toolVars,
                         restVars>>
       \/ /\ service = "tool" /\ ToolNext
          /\ UNCHANGED <<outboxVars, cacheVars, admissionVars, histVars, repairVars, coordVars, devVars,
                         restVars>>
       \/ /\ service = "team" /\ TeamNext
          /\ UNCHANGED <<earlierVars, keyVars, keyCacheVars>>
       \/ /\ service = "keys" /\ KeyNext
          /\ UNCHANGED <<earlierVars, teamVars, keyCacheVars>>
       \/ /\ service = "keycache" /\ KeyCacheNext
          /\ UNCHANGED <<earlierVars, teamVars, keyVars>>

ServicesSpec == ServicesInit /\ [][ServicesNext]_serviceVars

(***************************************************************************)
(* What the scheduling of each service justifies, all of it weak:          *)
(*   outbox       every process flushes every 30 seconds, a flush that     *)
(*                does not fail goes on, and leases run out;               *)
(*   admission    calls proceed, actions end one way or the other and      *)
(*                back-offs end; no waiter's timer is needed;              *)
(*   history,     the coordinator runs the pricing repair when it is due,  *)
(*   repair       and a run goes on until it ends, fails or dies;          *)
(*   coordinator  its timer, the clock, and tasks that end;                *)
(*   device       the daemon starts runs that go on, and transactions of   *)
(*                the web commit;                                          *)
(*   team         the coordinator runs the backfill every ten seconds, a   *)
(*                batch goes on until it ends, fails or its worker dies;   *)
(*   tool         the coordinator ticks every minute and every device      *)
(*                reconciles again and again; leader and users owe nothing.*)
(***************************************************************************)
Of(name) == service = name

FairServicesSpec ==
    /\ ServicesSpec
    /\ \A f \in Flushers : WF_outboxVars(Of("outbox") /\ FlushSteps(f))
    /\ \A b \in 1..MaxBatches : WF_outboxVars(Of("outbox") /\ LeaseExpires(b))
    /\ \A o \in Operations : WF_admissionVars(Of("admission") /\ OperationSteps(o))
    /\ \A s \in Steppers : /\ WF_histVars(Of("history") /\ Begin(s))
                           /\ WF_histVars(Of("history") /\ HistorySteps(s))
                           /\ WF_histVars(Of("history") /\ StepDies(s))
    /\ \A r \in Repairers : /\ WF_repairVars(Of("repair") /\ ClaimRepair(r))
                            /\ WF_repairVars(Of("repair") /\ RepairSteps(r))
    /\ WF_coordVars(Of("coordinator") /\ Tick)
    /\ WF_coordVars(Of("coordinator") /\ Minute)
    /\ WF_coordVars(Of("coordinator") /\ TaskEnds)
    /\ \A r \in Runs : WF_devVars(Of("device") /\ RunStep(r))
    /\ WF_devVars(Of("device") /\ \E mode \in Modes : WritePolicy(mode))
    /\ WF_toolVars(Of("tool") /\ Dwell)
    /\ WF_toolVars(Of("tool") /\ ListOpenRollouts)
    /\ WF_toolVars(Of("tool") /\ (AdvanceRollout \/ RollbackToLastKnownGood))
    /\ \A d \in ToolDevices : WF_toolVars(Of("tool") /\ ToolStep(d))
    /\ WF_teamVars(Of("team") /\ BatchSteps)
    /\ WF_teamVars(Of("team") /\ BackoffEnds)

ServiceSymmetry == Permutations({c1, c2})

-----------------------------------------------------------------------------
(* The rows, files and sessions of every service keep their types. *)
ServicesTypeOK ==
    /\ Of("outbox") => OutboxTypeOK
    /\ Of("cache") => CacheTypeOK
    /\ Of("admission") => AdmissionTypeOK
    /\ Of("history") => HistTypeOK
    /\ Of("repair") => RepairTypeOK
    /\ Of("coordinator") => CoordTypeOK
    /\ Of("device") => DevTypeOK
    /\ Of("tool") => ToolTypeOK
    /\ Of("team") => TeamTypeOK
    /\ Of("keys") => KeyTypeOK
    /\ Of("keycache") => KeyCacheTypeOK

(* What the services promise to do in the end, each in its own behaviours. *)

(* Accepted events are delivered (UsageOutbox!AcceptedDelivered). *)
OutboxDelivers == Of("outbox") => AcceptedDelivered

(* Calls to ClickHouse are answered (ClickHouseAdmission!EveryCallSettles). *)
CallsSettle == Of("admission") => EveryCallSettles

(* Jobs of the pricing history end (PricingHistory!HistoryFinishes). *)
HistoryEnds == Of("history") => HistoryFinishes

(* Late events are priced (PricingRepair!SupportedPriced). *)
LatePriced == Of("repair") => SupportedPriced

(* No worker is starved (RollupCoordinator!WorkersServed). *)
AllWorkersServed == Of("coordinator") => WorkersServed

(* A policy reaches the device (DeviceControl!PolicyReachesDevice). *)
PolicyArrives == Of("device") => PolicyReachesDevice

(* A rollback reaches the devices (ToolRollout!RollbackReachesDevices). *)
RollbackArrives == Of("tool") => RollbackReachesDevices

(* A first team gets its history (TeamAttribution!BackfillCompletes). *)
BackfillEnds == Of("team") => BackfillCompletes

(* A rollout ends (ToolRollout!RolloutCompletes). *)
RolloutEnds == Of("tool") => RolloutCompletes
=============================================================================
