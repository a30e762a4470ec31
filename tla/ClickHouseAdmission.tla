------------------------ MODULE ClickHouseAdmission ------------------------
(***************************************************************************)
(* ClickHouseOperationController: every query of a server process passes   *)
(* through run.  At most MaxConcurrent actions run; the others wait in a   *)
(* queue until a slot is handed to them, their wait times out, or their    *)
(* caller aborts.  An action that fails because ClickHouse is overloaded,  *)
(* or the network broke, is tried again from the end of the queue.         *)
(***************************************************************************)
EXTENDS Integers, SequencesExt

CONSTANTS
    Operations,        \* calls of run
    RetryOverloadOps,  \* those whose retryOverload is not false
    RetryTransientOps, \* those with retryTransient
    MaxConcurrent,
    OverloadAttempts,
    NetworkAttempts

ASSUME AdmissionAssumption ==
    /\ RetryOverloadOps \subseteq Operations /\ RetryTransientOps \subseteq Operations
    /\ MaxConcurrent \in Nat \ {0}
    /\ OverloadAttempts \in Nat \ {0} /\ NetworkAttempts \in Nat \ {0}

VARIABLES
    active,   \* leases that are out
    admission, \* the queue
    call,     \* per call of run: where it is and its two failure counters
    aborted   \* calls whose signal is aborted

admissionVars == <<active, admission, call, aborted>>

AdmissionInit ==
    /\ active = 0 /\ admission = <<>>
    /\ call = [o \in Operations |-> [pc |-> "acquire", overloads |-> 0, networks |-> 0]]
    /\ aborted = {}

-----------------------------------------------------------------------------
(* acquire: an aborted call is rejected, a free slot taken, or the call    *)
(* waits behind the others.                                                *)
Acquire(o) ==
    /\ call[o].pc = "acquire"
    /\ \/ /\ o \in aborted
          /\ call' = [call EXCEPT ![o].pc = "rejected"]
          /\ UNCHANGED <<active, admission>>
       \/ /\ o \notin aborted /\ active < MaxConcurrent
          /\ active' = active + 1
          /\ call' = [call EXCEPT ![o].pc = "running"]
          /\ UNCHANGED admission
       \/ /\ o \notin aborted /\ active >= MaxConcurrent
          /\ admission' = Append(admission, o)
          /\ call' = [call EXCEPT ![o].pc = "queued"]
          /\ UNCHANGED active
    /\ UNCHANGED aborted

(* removeQueuedEntry, by the timer of the entry or the caller's signal:    *)
(* only an entry that is still queued is rejected.                         *)
Rejected(o) ==
    /\ call[o].pc = "queued"
    /\ \E i \in DOMAIN admission : admission[i] = o /\ admission' = RemoveAt(admission, i)
    /\ call' = [call EXCEPT ![o].pc = "rejected"]

AdmissionTimeout(o) == Rejected(o) /\ UNCHANGED <<active, aborted>>

AbortOperation(o) ==
    /\ o \notin aborted /\ call[o].pc \notin {"done", "rejected", "failed"}
    /\ aborted' = aborted \union {o}
    /\ \/ Rejected(o)
       \/ call[o].pc # "queued" /\ UNCHANGED <<admission, call>>
    /\ UNCHANGED active

(* Mutant: the slot is freed and the waiters are not told. *)
ReleaseOnly(settled) == active' = active - 1 /\ call' = settled /\ UNCHANGED admission

(* Mutant: the slot goes to the last waiter. *)
ReleaseToLast(settled) ==
    IF admission = <<>>
    THEN active' = active - 1 /\ call' = settled /\ UNCHANGED admission
    ELSE /\ active' = active
         /\ call' = [settled EXCEPT ![Last(admission)].pc = "running"]
         /\ admission' = Front(admission)

(* release and drain: the slot goes to the first waiter.  *)
Release(settled) ==
    IF admission = <<>>
    THEN active' = active - 1 /\ call' = settled /\ UNCHANGED admission
    ELSE /\ active' = active
         /\ call' = [settled EXCEPT ![Head(admission)].pc = "running"]
         /\ admission' = Tail(admission)

Succeed(o) ==
    /\ call[o].pc = "running"
    /\ Release([call EXCEPT ![o].pc = "done"])
    /\ UNCHANGED aborted

(* Mutant: the failed attempts are not counted. *)
AfterFailureUncounted(o, error) ==
    LET c == call[o]
    IN  CASE error = "overload" ->
               [c EXCEPT !.pc = IF o \in RetryOverloadOps THEN "sleeping" ELSE "failed"]
          [] error = "network" ->
               [c EXCEPT !.pc = IF o \in RetryTransientOps THEN "sleeping" ELSE "failed"]
          [] OTHER -> [c EXCEPT !.pc = "failed"]

(* What run does with an error of the action. *)
AfterFailure(o, error) ==
    LET c == call[o]
    IN  CASE error = "overload" ->
               [c EXCEPT !.overloads = @ + 1,
                         !.pc = IF o \in RetryOverloadOps /\ c.overloads + 1 < OverloadAttempts
                                THEN "sleeping" ELSE "failed"]
          [] error = "network" /\ o \in RetryTransientOps ->
               [c EXCEPT !.networks = @ + 1,
                         !.pc = IF c.networks + 1 < NetworkAttempts THEN "sleeping" ELSE "failed"]
          [] OTHER -> [c EXCEPT !.pc = "failed"]

(* The slot is released before the back-off. *)
Fail(o, error) ==
    /\ call[o].pc = "running"
    /\ Release([call EXCEPT ![o] = AfterFailure(o, error)])
    /\ UNCHANGED aborted

WakeUp(o) ==
    /\ call[o].pc = "sleeping"
    /\ call' = [call EXCEPT ![o].pc = "acquire"]
    /\ UNCHANGED <<active, admission, aborted>>

AdmissionNext ==
    \/ \E o \in Operations : Acquire(o)
    \/ \E o \in Operations : AdmissionTimeout(o)
    \/ \E o \in Operations : AbortOperation(o)
    \/ \E o \in Operations : Succeed(o)
    \/ \E o \in Operations, error \in {"overload", "network", "query"} : Fail(o, error)
    \/ \E o \in Operations : WakeUp(o)

AdmissionSpec == AdmissionInit /\ [][AdmissionNext]_admissionVars

(* What a call does of itself; no waiter's timer is among it. *)
OperationSteps(o) ==
    Acquire(o) \/ Succeed(o) \/ WakeUp(o) \/ \E error \in {"overload", "network", "query"} : Fail(o, error)

-----------------------------------------------------------------------------
(* Type invariant. *)
AdmissionTypeOK ==
    /\ active \in 0..MaxConcurrent
    /\ admission \in Seq(Operations)
    /\ call \in [Operations -> [pc : {"acquire", "queued", "running", "sleeping", "done", "rejected", "failed"},
                                overloads : Nat, networks : Nat]]
    /\ aborted \subseteq Operations

(* Through hand-overs, timeouts, aborts and retries, the counter of leases *)
(* is the number of running actions, the queue holds each waiting call     *)
(* once, and nobody waits while a slot is free.                            *)
SlotsExact ==
    /\ active = Cardinality({o \in Operations : call[o].pc = "running"})
    /\ ToSet(admission) = {o \in Operations : call[o].pc = "queued"}
    /\ Len(admission) = Cardinality(ToSet(admission))
    /\ admission # <<>> => active = MaxConcurrent

(* No call is admitted before one that waits longer. *)
FirstComeFirstServed ==
    [][\A o \in Operations :
          call[o].pc # "running" /\ call'[o].pc = "running" /\ admission # <<>> => o = Head(admission)]_admissionVars

(* Every call is answered, also without the timeout of its wait. *)
EveryCallSettles == <>(\A o \in Operations : call[o].pc \in {"done", "rejected", "failed"})
=============================================================================
