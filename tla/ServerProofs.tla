---------------------------- MODULE ServerProofs ----------------------------
(***************************************************************************)
(* What the server's controllers keep for any values of their constants:   *)
(* the admission controller of the ClickHouse client for any calls, slots  *)
(* and retry limits; the outbox for any keys, flushers, batches and limits *)
(* - its types, that a delivered batch is not leased again, and, as long   *)
(* as usage_hourly_rollup remembers the token of every batch that may      *)
(* still be inserted, that an event is counted once and delivered          *)
(* completely; the utilization cache for any users, pods and changers; the *)
(* cutover of the rollup layers and the tasks for any tasks and limits.    *)
(***************************************************************************)
EXTENDS ClickHouseAdmission, UsageOutbox, UtilizationCache, RollupCoordinator,
        SequenceTheorems, FiniteSetTheorems, TLAPS

-----------------------------------------------------------------------------
(* Admission: the queue and the slots.                                     *)
CallRows == [pc : {"acquire", "queued", "running", "sleeping", "done", "rejected", "failed"},
          overloads : Nat, networks : Nat]

Running == {o \in Operations : call[o].pc = "running"}
Queued == {o \in Operations : call[o].pc = "queued"}

(* The inductive invariant: SlotsExact with the queue's entries told apart *)
(* by their places, and finitely many actions running.                     *)
SlotsInv ==
    /\ AdmissionTypeOK
    /\ IsFiniteSet(Running) /\ active = Cardinality(Running)
    /\ ToSet(admission) = Queued
    /\ IsInjective(admission)
    /\ admission # <<>> => active = MaxConcurrent

-----------------------------------------------------------------------------
(* A queue whose entries differ has as many entries as elements.           *)
LEMMA InjectiveCounts ==
    ASSUME NEW S, NEW s \in Seq(S), IsInjective(s)
    PROVE  IsFiniteSet(ToSet(s)) /\ Cardinality(ToSet(s)) = Len(s)
<1>1. Len(s) \in Nat /\ s \in [1..Len(s) -> S] /\ DOMAIN s = 1..Len(s)
  BY LenProperties
<1>2. s \in [1..Len(s) -> ToSet(s)]
  BY <1>1 DEF ToSet
<1>3. \A i, j \in 1..Len(s) : s[i] = s[j] => i = j
  BY <1>1 DEF IsInjective
<1>4. \A t \in ToSet(s) : \E i \in 1..Len(s) : s[i] = t
  BY <1>1 DEF ToSet
<1>5. s \in Bijection(1..Len(s), ToSet(s))
  BY <1>2, <1>3, <1>4 DEF Bijection, Injection, Surjection
<1>6. ExistsBijection(1..Len(s), ToSet(s))
  BY <1>5 DEF ExistsBijection
<1> QED  BY <1>1, <1>6, FS_NatBijection, FS_CountingElements

(* Taking one entry out of such a queue leaves the others, each once.      *)
LEMMA RemovedOnce ==
    ASSUME NEW S, NEW s \in Seq(S), IsInjective(s), NEW i \in 1..Len(s)
    PROVE  /\ RemoveAt(s, i) \in Seq(S)
           /\ ToSet(RemoveAt(s, i)) = ToSet(s) \ {s[i]}
           /\ IsInjective(RemoveAt(s, i))
<1> DEFINE r == RemoveAt(s, i)
<1>1. Len(s) \in Nat /\ DOMAIN s = 1..Len(s) /\ i \in Nat
  BY LenProperties
<1>2. SubSeq(s, 1, i - 1) \in Seq(S) /\ Len(SubSeq(s, 1, i - 1)) = i - 1
      /\ \A j \in 1..(i - 1) : SubSeq(s, 1, i - 1)[j] = s[j]
  OBVIOUS
<1>3. SubSeq(s, i + 1, Len(s)) \in Seq(S) /\ Len(SubSeq(s, i + 1, Len(s))) = Len(s) - i
      /\ \A j \in 1..(Len(s) - i) : SubSeq(s, i + 1, Len(s))[j] = s[i + j]
  OBVIOUS
<1>4. r \in Seq(S) /\ Len(r) = Len(s) - 1
      /\ \A j \in 1..(Len(s) - 1) : r[j] = IF j < i THEN s[j] ELSE s[j + 1]
  <2> DEFINE t == SubSeq(s, 1, i - 1)  u == SubSeq(s, i + 1, Len(s))
  <2>1. t \in Seq(S) /\ Len(t) = i - 1 /\ \A j \in 1..(i - 1) : t[j] = s[j]
    BY <1>2
  <2>2. u \in Seq(S) /\ Len(u) = Len(s) - i /\ \A j \in 1..(Len(s) - i) : u[j] = s[i + j]
    BY <1>3
  <2>3. r = t \o u
    BY DEF RemoveAt
  <2> HIDE DEF r, t, u
  <2>4. r \in Seq(S) /\ Len(r) = Len(t) + Len(u)
        /\ \A j \in 1..(Len(t) + Len(u)) : r[j] = IF j <= Len(t) THEN t[j] ELSE u[j - Len(t)]
    BY <2>1, <2>2, <2>3, ConcatProperties
  <2>5. Len(t) + Len(u) = Len(s) - 1
    BY <1>1, <2>1, <2>2
  <2>6. ASSUME NEW j \in 1..(Len(s) - 1)
        PROVE  r[j] = IF j < i THEN s[j] ELSE s[j + 1]
    <3>1. CASE j < i
      BY <1>1, <2>1, <2>4, <2>5, <3>1
    <3>2. CASE ~(j < i)
      <4>1. j - Len(t) \in 1..(Len(s) - i) /\ i + (j - Len(t)) = j + 1 /\ ~(j <= Len(t))
        BY <1>1, <2>1, <3>2
      <4> QED  BY <2>2, <2>4, <2>5, <3>2, <4>1
    <3> QED  BY <3>1, <3>2
  <2> QED  BY <2>4, <2>5, <2>6
<1> HIDE DEF r
<1>5. DOMAIN r = 1..(Len(s) - 1)
  BY <1>4, LenProperties
<1>6. \A j, k \in 1..Len(s) : s[j] = s[k] => j = k
  BY <1>1 DEF IsInjective
<1>7. IsInjective(r)
  <2> SUFFICES ASSUME NEW j \in 1..(Len(s) - 1), NEW k \in 1..(Len(s) - 1), r[j] = r[k]
               PROVE  j = k
    BY <1>5 DEF IsInjective
  <2> DEFINE at(l) == IF l < i THEN l ELSE l + 1
  <2>1. /\ at(j) \in 1..Len(s) /\ at(k) \in 1..Len(s)
        /\ at(j) = at(k) => j = k
    BY <1>1
  <2>2. r[j] = s[at(j)] /\ r[k] = s[at(k)]
    BY <1>4
  <2> QED  BY <1>6, <2>1, <2>2
<1>8. ToSet(r) \subseteq ToSet(s) \ {s[i]}
  <2>1. ASSUME NEW j \in 1..(Len(s) - 1)
        PROVE  r[j] \in ToSet(s) \ {s[i]}
    <3>1. PICK k \in 1..Len(s) : r[j] = s[k] /\ k # i
      <4>1. CASE j < i
        BY <1>1, <1>4, <4>1
      <4>2. CASE ~(j < i)
        <5>1. j + 1 \in 1..Len(s) /\ j + 1 # i
          BY <1>1, <4>2
        <5> QED  BY <1>4, <4>2, <5>1
      <4> QED  BY <4>1, <4>2
    <3>2. s[k] # s[i]
      BY <1>6, <3>1
    <3> QED  BY <1>1, <3>1, <3>2 DEF ToSet
  <2> QED  BY <1>5, <2>1 DEF ToSet
<1>9. ToSet(s) \ {s[i]} \subseteq ToSet(r)
  <2> SUFFICES ASSUME NEW k \in 1..Len(s), k # i
               PROVE  s[k] \in ToSet(r)
    BY <1>1 DEF ToSet
  <2>1. PICK j \in 1..(Len(s) - 1) : r[j] = s[k]
    <3>1. CASE k < i
      BY <1>1, <1>4, <3>1
    <3>2. CASE k > i
      <4>1. k - 1 \in 1..(Len(s) - 1) /\ ~(k - 1 < i) /\ (k - 1) + 1 = k
        BY <1>1, <3>2
      <4> QED  BY <4>1, <1>4
    <3> QED  BY <1>1, <3>1, <3>2
  <2> QED  BY <1>5, <2>1 DEF ToSet
<1> QED  BY <1>4, <1>7, <1>8, <1>9 DEF r

(* The first waiter leaves the queue in the same way.                      *)
LEMMA TailOnce ==
    ASSUME NEW S, NEW s \in Seq(S), IsInjective(s), s # <<>>
    PROVE  /\ Tail(s) \in Seq(S) /\ Head(s) \in ToSet(s)
           /\ ToSet(Tail(s)) = ToSet(s) \ {Head(s)}
           /\ IsInjective(Tail(s))
<1>1. Len(s) \in Nat \ {0} /\ DOMAIN s = 1..Len(s)
  BY LenProperties, EmptySeq
<1>2. /\ Tail(s) \in Seq(S) /\ Len(Tail(s)) = Len(s) - 1
      /\ \A j \in 1..(Len(s) - 1) : Tail(s)[j] = s[j + 1]
      /\ Head(s) = s[1]
  BY HeadTailProperties
<1>3. DOMAIN Tail(s) = 1..(Len(s) - 1)
  BY <1>2, LenProperties
<1>4. \A j, k \in 1..Len(s) : s[j] = s[k] => j = k
  BY <1>1 DEF IsInjective
<1>5. IsInjective(Tail(s))
  <2> SUFFICES ASSUME NEW j \in 1..(Len(s) - 1), NEW k \in 1..(Len(s) - 1), Tail(s)[j] = Tail(s)[k]
               PROVE  j = k
    BY <1>3 DEF IsInjective
  <2> QED  BY <1>1, <1>2, <1>4
<1>6. ToSet(Tail(s)) \subseteq ToSet(s) \ {Head(s)}
  <2> SUFFICES ASSUME NEW j \in 1..(Len(s) - 1)
               PROVE  Tail(s)[j] \in ToSet(s) \ {Head(s)}
    BY <1>3 DEF ToSet
  <2>1. j + 1 \in 1..Len(s) /\ j + 1 # 1 /\ 1 \in 1..Len(s)
    BY <1>1
  <2> QED  BY <1>1, <1>2, <1>4, <2>1 DEF ToSet
<1>7. ToSet(s) \ {Head(s)} \subseteq ToSet(Tail(s))
  <2> SUFFICES ASSUME NEW k \in 1..Len(s), k # 1
               PROVE  s[k] \in ToSet(Tail(s))
    BY <1>1, <1>2 DEF ToSet
  <2>1. k - 1 \in 1..(Len(s) - 1) /\ (k - 1) + 1 = k
    BY <1>1
  <2> QED  BY <1>2, <1>3, <2>1 DEF ToSet
<1>8. Head(s) \in ToSet(s)
  BY <1>1, <1>2 DEF ToSet
<1> QED  BY <1>2, <1>5, <1>6, <1>7, <1>8

(* A call that is not in the queue joins it at the end.                    *)
LEMMA AppendOnce ==
    ASSUME NEW S, NEW s \in Seq(S), IsInjective(s), NEW e \in S, e \notin ToSet(s)
    PROVE  /\ Append(s, e) \in Seq(S)
           /\ ToSet(Append(s, e)) = ToSet(s) \union {e}
           /\ IsInjective(Append(s, e))
<1> DEFINE a == Append(s, e)
<1>1. Len(s) \in Nat /\ DOMAIN s = 1..Len(s)
  BY LenProperties
<1>2. a \in Seq(S) /\ Len(a) = Len(s) + 1 /\ a[Len(s) + 1] = e
      /\ \A j \in 1..Len(s) : a[j] = s[j]
  BY AppendProperties
<1>3. DOMAIN a = 1..(Len(s) + 1)
  BY <1>2, LenProperties
<1>4. \A j, k \in 1..Len(s) : s[j] = s[k] => j = k
  BY <1>1 DEF IsInjective
<1> HIDE DEF a
<1>5. \A j \in 1..Len(s) : s[j] \in ToSet(s)
  BY <1>1 DEF ToSet
<1>6. IsInjective(a)
  <2> SUFFICES ASSUME NEW j \in 1..(Len(s) + 1), NEW k \in 1..(Len(s) + 1), a[j] = a[k]
               PROVE  j = k
    BY <1>3 DEF IsInjective
  <2>1. j \in 1..Len(s) \/ j = Len(s) + 1
    BY <1>1
  <2>2. k \in 1..Len(s) \/ k = Len(s) + 1
    BY <1>1
  <2> QED  BY <1>2, <1>4, <1>5, <2>1, <2>2
<1>7. ToSet(a) = ToSet(s) \union {e}
  <2>1. \A x : x \in ToSet(a) <=> \E j \in 1..(Len(s) + 1) : x = a[j]
    BY <1>3 DEF ToSet
  <2>2. \A x : x \in ToSet(s) <=> \E j \in 1..Len(s) : x = s[j]
    BY <1>1 DEF ToSet
  <2>3. \A j : j \in 1..(Len(s) + 1) <=> j \in 1..Len(s) \/ j = Len(s) + 1
    BY <1>1
  <2> QED  BY <1>2, <2>1, <2>2, <2>3
<1> QED  BY <1>2, <1>6, <1>7 DEF a

-----------------------------------------------------------------------------
(* A call leaves the state "running" and its slot is released: handed to   *)
(* the first waiter, or back to the counter.                               *)
LEMMA ReleaseKeeps ==
    ASSUME SlotsInv, NEW o \in Operations, call[o].pc = "running",
           NEW c \in CallRows, c.pc \in {"done", "sleeping", "failed"},
           Release([call EXCEPT ![o] = c]), UNCHANGED aborted
    PROVE  SlotsInv'
<1> DEFINE settled == [call EXCEPT ![o] = c]
<1>1. call \in [Operations -> CallRows] /\ active \in 0..MaxConcurrent /\ admission \in Seq(Operations)
  BY DEF SlotsInv, AdmissionTypeOK, CallRows
<1>2. settled \in [Operations -> CallRows]
      /\ \A p \in Operations : settled[p] = IF p = o THEN c ELSE call[p]
  BY <1>1
<1>3. o \in Running /\ IsFiniteSet(Running) /\ active = Cardinality(Running)
  BY DEF SlotsInv, Running
<1>4. IsFiniteSet(Running \ {o}) /\ Cardinality(Running \ {o}) = active - 1
  BY <1>3, FS_RemoveElement
<1>5. Cardinality(Running \ {o}) \in Nat
  BY <1>4, FS_CardinalityType
<1>6. CASE admission = <<>>
  <2>1. active' = active - 1 /\ call' = settled /\ admission' = admission
    BY <1>6 DEF Release
  <2>2. Running' = Running \ {o} /\ Queued' = Queued
    BY <1>2, <2>1, <1>3 DEF Running, Queued
  <2>3. active' \in 0..MaxConcurrent
    BY <1>1, <1>4, <1>5, <2>1, AdmissionAssumption
  <2>4. AdmissionTypeOK'
    BY <1>1, <1>2, <2>1, <2>3 DEF SlotsInv, AdmissionTypeOK, CallRows
  <2>5. ToSet(admission)' = Queued' /\ IsInjective(admission)'
        /\ (admission # <<>> => active = MaxConcurrent)'
    BY <1>6, <2>1, <2>2 DEF SlotsInv
  <2> QED  BY <1>4, <2>1, <2>2, <2>4, <2>5 DEF SlotsInv
<1>7. CASE admission # <<>>
  <2> DEFINE h == Head(admission)
  <2>1. active' = active /\ call' = [settled EXCEPT ![h].pc = "running"] /\ admission' = Tail(admission)
    BY <1>7 DEF Release
  <2>2. IsInjective(admission) /\ ToSet(admission) = Queued /\ active = MaxConcurrent
    BY <1>7 DEF SlotsInv
  <2>3. Tail(admission) \in Seq(Operations) /\ h \in ToSet(admission)
        /\ ToSet(Tail(admission)) = ToSet(admission) \ {h} /\ IsInjective(Tail(admission))
    BY <1>1, <1>7, <2>2, TailOnce
  <2>4. h \in Operations /\ call[h].pc = "queued" /\ h # o
    BY <2>2, <2>3 DEF Queued
  <2> HIDE DEF settled, h
  <2>5. call' \in [Operations -> CallRows]
    BY <1>2, <2>1, <2>4 DEF CallRows
  <2>6. \A p \in Operations : call'[p].pc = IF p = h THEN "running" ELSE settled[p].pc
    BY <1>2, <2>1, <2>4 DEF CallRows
  <2>7. Running' = (Running \ {o}) \union {h}
    BY <1>2, <2>4, <2>6 DEF Running
  <2>8. Queued' = Queued \ {h}
    BY <1>2, <1>3, <2>4, <2>6 DEF Queued, Running
  <2>9. h \notin Running \ {o}
    BY <2>4 DEF Running
  <2>10. IsFiniteSet(Running') /\ Cardinality(Running') = (active - 1) + 1
    BY <1>4, <2>7, <2>9, FS_AddElement
  <2>11. Cardinality(Running') = active'
    BY <1>1, <2>1, <2>10
  <2>12. AdmissionTypeOK'
    BY <1>1, <2>1, <2>3, <2>5 DEF SlotsInv, AdmissionTypeOK, CallRows
  <2>13. ToSet(admission)' = Queued' /\ IsInjective(admission)'
         /\ (admission # <<>> => active = MaxConcurrent)'
    BY <2>1, <2>2, <2>3, <2>8
  <2> QED  BY <2>10, <2>11, <2>12, <2>13 DEF SlotsInv
<1> QED  BY <1>6, <1>7

(* acquire rejects, admits or queues the call.                             *)
LEMMA AcquireKeeps ==
    ASSUME SlotsInv, NEW o \in Operations, Acquire(o)
    PROVE  SlotsInv'
<1>1. call \in [Operations -> CallRows] /\ active \in 0..MaxConcurrent /\ admission \in Seq(Operations)
      /\ call[o].pc = "acquire" /\ aborted' = aborted
  BY DEF SlotsInv, AdmissionTypeOK, CallRows, Acquire
<1>2. IsFiniteSet(Running) /\ active = Cardinality(Running) /\ o \notin Running /\ o \notin Queued
      /\ IsInjective(admission) /\ ToSet(admission) = Queued
  BY <1>1 DEF SlotsInv, Running, Queued
<1>3. ASSUME NEW s \in {"rejected", "running", "queued"}, call' = [call EXCEPT ![o].pc = s]
      PROVE  /\ call' \in [Operations -> CallRows]
             /\ Running' = IF s = "running" THEN Running \union {o} ELSE Running
             /\ Queued' = IF s = "queued" THEN Queued \union {o} ELSE Queued
  <2>1. call' \in [Operations -> CallRows] /\ \A p \in Operations : call'[p].pc = IF p = o THEN s ELSE call[p].pc
    BY <1>1, <1>3 DEF CallRows
  <2> QED  BY <1>1, <2>1 DEF Running, Queued
<1>4. CASE o \in aborted /\ call' = [call EXCEPT ![o].pc = "rejected"] /\ UNCHANGED <<active, admission>>
  <2>1. call' \in [Operations -> CallRows] /\ Running' = Running /\ Queued' = Queued
    BY <1>3, <1>4
  <2>2. AdmissionTypeOK'
    BY <1>1, <1>4, <2>1 DEF SlotsInv, AdmissionTypeOK, CallRows
  <2> QED  BY <1>4, <2>1, <2>2 DEF SlotsInv
<1>5. CASE active < MaxConcurrent /\ active' = active + 1
           /\ call' = [call EXCEPT ![o].pc = "running"] /\ UNCHANGED admission
  <2>1. call' \in [Operations -> CallRows] /\ Running' = Running \union {o} /\ Queued' = Queued
    BY <1>3, <1>5
  <2>2. IsFiniteSet(Running') /\ Cardinality(Running') = active'
    BY <1>2, <1>5, <2>1, FS_AddElement
  <2>3. active' \in 0..MaxConcurrent /\ admission = <<>>
    BY <1>1, <1>5, AdmissionAssumption DEF SlotsInv
  <2>4. AdmissionTypeOK'
    BY <1>1, <1>5, <2>1, <2>3 DEF SlotsInv, AdmissionTypeOK, CallRows
  <2> QED  BY <1>2, <1>5, <2>1, <2>2, <2>3, <2>4 DEF SlotsInv
<1>6. CASE active >= MaxConcurrent /\ admission' = Append(admission, o)
           /\ call' = [call EXCEPT ![o].pc = "queued"] /\ UNCHANGED active
  <2>1. call' \in [Operations -> CallRows] /\ Running' = Running /\ Queued' = Queued \union {o}
    BY <1>3, <1>6
  <2>2. admission' \in Seq(Operations) /\ ToSet(admission') = Queued' /\ IsInjective(admission')
    BY <1>1, <1>2, <1>6, <2>1, AppendOnce
  <2>3. active' = MaxConcurrent
    BY <1>1, <1>6, AdmissionAssumption
  <2>4. AdmissionTypeOK'
    BY <1>1, <1>6, <2>1, <2>2 DEF SlotsInv, AdmissionTypeOK, CallRows
  <2> QED  BY <1>2, <1>6, <2>1, <2>2, <2>3, <2>4 DEF SlotsInv
<1> QED  BY <1>4, <1>5, <1>6 DEF Acquire

(* A queued entry is taken out by its timer or by its caller.              *)
LEMMA RejectedKeeps ==
    ASSUME SlotsInv, NEW o \in Operations, Rejected(o), UNCHANGED active, aborted' \subseteq Operations
    PROVE  SlotsInv'
<1>1. call \in [Operations -> CallRows] /\ admission \in Seq(Operations) /\ call[o].pc = "queued"
      /\ call' = [call EXCEPT ![o].pc = "rejected"]
      /\ IsInjective(admission) /\ ToSet(admission) = Queued
  BY DEF SlotsInv, AdmissionTypeOK, CallRows, Rejected
<1>2. PICK i \in DOMAIN admission : admission[i] = o /\ admission' = RemoveAt(admission, i)
  BY DEF Rejected
<1>3. i \in 1..Len(admission) /\ admission # <<>>
  BY <1>1, <1>2, LenProperties, EmptySeq
<1>4. admission' \in Seq(Operations) /\ ToSet(admission') = Queued \ {o} /\ IsInjective(admission')
  BY <1>1, <1>2, <1>3, RemovedOnce
<1>5. call' \in [Operations -> CallRows]
      /\ \A p \in Operations : call'[p].pc = IF p = o THEN "rejected" ELSE call[p].pc
  BY <1>1 DEF CallRows
<1>6. Running' = Running /\ Queued' = Queued \ {o}
  BY <1>1, <1>5 DEF Running, Queued
<1>7. AdmissionTypeOK'
  BY <1>4, <1>5 DEF SlotsInv, AdmissionTypeOK, CallRows
<1> QED  BY <1>3, <1>4, <1>6, <1>7 DEF SlotsInv

(* What an error leaves of a call is a call that does not run.             *)
LEMMA AfterFailureTyped ==
    ASSUME AdmissionTypeOK, NEW o \in Operations, NEW error \in {"overload", "network", "query"}
    PROVE  /\ AfterFailure(o, error) \in CallRows
           /\ AfterFailure(o, error).pc \in {"done", "sleeping", "failed"}
<1> DEFINE c == call[o]
<1>1. c \in CallRows
  BY DEF AdmissionTypeOK, CallRows
<1> HIDE DEF c
<1>2. ASSUME NEW s \in {"sleeping", "failed"}
      PROVE  /\ [c EXCEPT !.overloads = @ + 1, !.pc = s] \in CallRows
             /\ [c EXCEPT !.overloads = @ + 1, !.pc = s].pc = s
             /\ [c EXCEPT !.networks = @ + 1, !.pc = s] \in CallRows
             /\ [c EXCEPT !.networks = @ + 1, !.pc = s].pc = s
             /\ [c EXCEPT !.pc = s] \in CallRows
             /\ [c EXCEPT !.pc = s].pc = s
  <2>1. [c EXCEPT !.overloads = @ + 1, !.pc = s] \in CallRows /\ [c EXCEPT !.overloads = @ + 1, !.pc = s].pc = s
    <3> DEFINE n == c.overloads + 1
    <3>1. n \in Nat
      BY <1>1 DEF CallRows
    <3> HIDE DEF n
    <3>2. [c EXCEPT !.overloads = n, !.pc = s] \in CallRows /\ [c EXCEPT !.overloads = n, !.pc = s].pc = s
      BY <1>1, <3>1 DEF CallRows
    <3> QED  BY <3>2 DEF n
  <2>2. [c EXCEPT !.networks = @ + 1, !.pc = s] \in CallRows /\ [c EXCEPT !.networks = @ + 1, !.pc = s].pc = s
    <3> DEFINE n == c.networks + 1
    <3>1. n \in Nat
      BY <1>1 DEF CallRows
    <3> HIDE DEF n
    <3>2. [c EXCEPT !.networks = n, !.pc = s] \in CallRows /\ [c EXCEPT !.networks = n, !.pc = s].pc = s
      BY <1>1, <3>1 DEF CallRows
    <3> QED  BY <3>2 DEF n
  <2>3. [c EXCEPT !.pc = s] \in CallRows /\ [c EXCEPT !.pc = s].pc = s
    BY <1>1 DEF CallRows
  <2> QED  BY <2>1, <2>2, <2>3
<1>3. CASE error = "overload"
  <2> DEFINE s == IF o \in RetryOverloadOps /\ c.overloads + 1 < OverloadAttempts
                  THEN "sleeping" ELSE "failed"
  <2>1. AfterFailure(o, error) = [c EXCEPT !.overloads = @ + 1, !.pc = s]
    BY <1>3 DEF AfterFailure, c
  <2>2. s \in {"sleeping", "failed"}
    OBVIOUS
  <2> QED  BY <1>2, <2>1, <2>2
<1>4. CASE error = "network" /\ o \in RetryTransientOps
  <2> DEFINE s == IF c.networks + 1 < NetworkAttempts THEN "sleeping" ELSE "failed"
  <2>1. AfterFailure(o, error) = [c EXCEPT !.networks = @ + 1, !.pc = s]
    BY <1>4 DEF AfterFailure, c
  <2>2. s \in {"sleeping", "failed"}
    OBVIOUS
  <2> QED  BY <1>2, <2>1, <2>2
<1>5. CASE error # "overload" /\ ~(error = "network" /\ o \in RetryTransientOps)
  <2>1. AfterFailure(o, error) = [c EXCEPT !.pc = "failed"]
    BY <1>5 DEF AfterFailure, c
  <2> QED  BY <1>2, <2>1
<1> QED  BY <1>3, <1>4, <1>5

(* The invariant holds at the start ...                                    *)
LEMMA SlotsInvInit == AdmissionInit => SlotsInv
<1> SUFFICES ASSUME AdmissionInit PROVE SlotsInv
  OBVIOUS
<1>1. AdmissionTypeOK
  BY AdmissionAssumption DEF AdmissionInit, AdmissionTypeOK
<1>2. Running = {} /\ Queued = {} /\ ToSet(admission) = {} /\ IsInjective(admission)
  BY DEF AdmissionInit, Running, Queued, ToSet, IsInjective
<1> QED  BY <1>1, <1>2, FS_EmptySet DEF SlotsInv, AdmissionInit

(* ... and through every step.                                             *)
LEMMA SlotsInvNext == SlotsInv /\ [AdmissionNext]_admissionVars => SlotsInv'
<1> SUFFICES ASSUME SlotsInv, [AdmissionNext]_admissionVars PROVE SlotsInv'
  OBVIOUS
<1>0. AdmissionTypeOK /\ call \in [Operations -> CallRows]
  BY DEF SlotsInv, AdmissionTypeOK, CallRows
<1>1. ASSUME NEW o \in Operations, Acquire(o) PROVE SlotsInv'
  BY <1>1, AcquireKeeps
<1>2. ASSUME NEW o \in Operations, AdmissionTimeout(o) PROVE SlotsInv'
  BY <1>0, <1>2, RejectedKeeps DEF AdmissionTimeout, AdmissionTypeOK
<1>3. ASSUME NEW o \in Operations, AbortOperation(o) PROVE SlotsInv'
  <2>1. aborted' \subseteq Operations /\ UNCHANGED active
    BY <1>0, <1>3 DEF AbortOperation, AdmissionTypeOK
  <2>2. CASE Rejected(o)
    BY <2>1, <2>2, RejectedKeeps
  <2>3. CASE UNCHANGED <<admission, call>>
    <3>1. AdmissionTypeOK' /\ Running' = Running /\ Queued' = Queued
      BY <1>0, <2>1, <2>3 DEF AdmissionTypeOK, Running, Queued
    <3> QED  BY <2>1, <2>3, <3>1 DEF SlotsInv
  <2> QED  BY <1>3, <2>2, <2>3 DEF AbortOperation
<1>4. ASSUME NEW o \in Operations, Succeed(o) PROVE SlotsInv'
  <2>1. [call[o] EXCEPT !.pc = "done"] \in CallRows /\ [call[o] EXCEPT !.pc = "done"].pc = "done"
    BY <1>0 DEF CallRows
  <2>2. [call EXCEPT ![o].pc = "done"] = [call EXCEPT ![o] = [call[o] EXCEPT !.pc = "done"]]
    OBVIOUS
  <2>3. Release([call EXCEPT ![o] = [call[o] EXCEPT !.pc = "done"]])
    BY <1>4, <2>2 DEF Succeed
  <2> QED  BY <1>4, <2>1, <2>3, ReleaseKeeps DEF Succeed
<1>5. ASSUME NEW o \in Operations, NEW error \in {"overload", "network", "query"}, Fail(o, error)
      PROVE  SlotsInv'
  BY <1>0, <1>5, AfterFailureTyped, ReleaseKeeps DEF Fail
<1>6. ASSUME NEW o \in Operations, WakeUp(o) PROVE SlotsInv'
  <2>1. call' \in [Operations -> CallRows]
        /\ \A p \in Operations : call'[p].pc = IF p = o THEN "acquire" ELSE call[p].pc
    BY <1>0, <1>6 DEF WakeUp, CallRows
  <2>2. Running' = Running /\ Queued' = Queued
    BY <1>6, <2>1 DEF Running, Queued, WakeUp
  <2>3. AdmissionTypeOK'
    BY <1>0, <1>6, <2>1 DEF WakeUp, AdmissionTypeOK, CallRows
  <2> QED  BY <1>6, <2>2, <2>3 DEF SlotsInv, WakeUp
<1>7. CASE UNCHANGED admissionVars
  <2>1. AdmissionTypeOK' /\ Running' = Running /\ Queued' = Queued
    BY <1>0, <1>7 DEF AdmissionTypeOK, Running, Queued, admissionVars
  <2> QED  BY <1>7, <2>1 DEF SlotsInv, admissionVars
<1> QED  BY <1>1, <1>2, <1>3, <1>4, <1>5, <1>6, <1>7 DEF AdmissionNext

(* The slots are exact in every reachable state.                           *)
LEMMA SlotsInvAlways == AdmissionSpec => []SlotsInv
<1> QED  BY SlotsInvInit, SlotsInvNext, PTL DEF AdmissionSpec

-----------------------------------------------------------------------------
(* Every reachable state of the controller is well typed; in particular    *)
(* no more than MaxConcurrent leases are ever out.                         *)
THEOREM AdmissionTyped == AdmissionSpec => []AdmissionTypeOK
<1>1. SlotsInv => AdmissionTypeOK
  BY DEF SlotsInv
<1> QED  BY <1>1, SlotsInvAlways, PTL

(* The counter of leases is the number of running actions, the queue holds *)
(* each waiting call once, and nobody waits while a slot is free: for any  *)
(* calls, slots, retry limits, timeouts and aborts.                        *)
THEOREM AdmissionExact == AdmissionSpec => []SlotsExact
<1>1. SlotsInv => SlotsExact
  <2> SUFFICES ASSUME SlotsInv PROVE SlotsExact
    OBVIOUS
  <2>1. Len(admission) = Cardinality(ToSet(admission))
    BY InjectiveCounts DEF SlotsInv, AdmissionTypeOK
  <2> QED  BY <2>1 DEF SlotsInv, SlotsExact, Running, Queued
<1> QED  BY <1>1, SlotsInvAlways, PTL

(* release hands the slot to the call at the head of the queue, and        *)
(* acquire takes one only while nobody waits: first come, first served.    *)
THEOREM AdmissionInOrder == AdmissionSpec => FirstComeFirstServed
<1> DEFINE InOrder == \A o \in Operations :
                         call[o].pc # "running" /\ call'[o].pc = "running" /\ admission # <<>>
                         => o = Head(admission)
<1>1. ASSUME SlotsInv, [AdmissionNext]_admissionVars PROVE [InOrder]_admissionVars
  <2> SUFFICES ASSUME AdmissionNext, NEW p \in Operations, call[p].pc # "running",
                      call'[p].pc = "running", admission # <<>>
               PROVE  p = Head(admission)
    BY <1>1
  <2>0. call \in [Operations -> CallRows] /\ admission \in Seq(Operations) /\ active = MaxConcurrent
        /\ Head(admission) \in Operations
    BY <1>1, HeadTailProperties DEF SlotsInv, AdmissionTypeOK, CallRows
  <2>1. ASSUME NEW o \in Operations, Acquire(o) PROVE p = Head(admission)
    <3>1. ~(active < MaxConcurrent)
      BY <2>0, AdmissionAssumption
    <3>2. call' = [call EXCEPT ![o].pc = "rejected"] \/ call' = [call EXCEPT ![o].pc = "queued"]
      BY <2>1, <3>1 DEF Acquire
    <3> QED  BY <2>0, <3>2 DEF CallRows
  <2>2. ASSUME NEW o \in Operations, Rejected(o) PROVE p = Head(admission)
    BY <2>0, <2>2 DEF Rejected, CallRows
  <2>3. ASSUME NEW o \in Operations, AbortOperation(o) PROVE p = Head(admission)
    BY <2>2, <2>3 DEF AbortOperation
  <2>4. ASSUME NEW settled \in [Operations -> CallRows], settled[p].pc # "running", Release(settled)
        PROVE  p = Head(admission)
    BY <2>0, <2>4 DEF Release, CallRows
  <2>5. ASSUME NEW o \in Operations, Succeed(o) PROVE p = Head(admission)
    BY <2>0, <2>4, <2>5 DEF Succeed, CallRows
  <2>6. ASSUME NEW o \in Operations, NEW error \in {"overload", "network", "query"}, Fail(o, error)
        PROVE  p = Head(admission)
    <3>1. AfterFailure(o, error) \in CallRows /\ AfterFailure(o, error).pc # "running"
      BY <1>1, AfterFailureTyped DEF SlotsInv
    <3> QED  BY <2>0, <2>4, <2>6, <3>1 DEF Fail
  <2>7. ASSUME NEW o \in Operations, WakeUp(o) PROVE p = Head(admission)
    BY <2>0, <2>7 DEF WakeUp, CallRows
  <2> QED  BY <2>1, <2>2, <2>3, <2>5, <2>6, <2>7 DEF AdmissionNext, AdmissionTimeout
<1> QED  BY <1>1, SlotsInvAlways, PTL DEF AdmissionSpec, FirstComeFirstServed

-----------------------------------------------------------------------------
(* The outbox: batches, leases and tokens.                                 *)
BatchRecord == [status : {"pending", "inflight", "delivered"}, delivered : BOOLEAN,
                lease : {"none", "fresh", "expired"}]
FlushRecord == [pc : {"idle", "next", "rows", "events", "hourly"},
                todo : SUBSET (1..MaxBatches), at : 0..MaxBatches, rows : SUBSET OutboxKeys]

Busy == {"rows", "events", "hourly"}

(* A key was answered when it got its row, and only a key with a row is    *)
(* counted.                                                                *)
AnsweredRows ==
    /\ answered = {k \in OutboxKeys : rowBatch[k] # 0}
    /\ \A k \in OutboxKeys : hourly[k] # 0 => rowBatch[k] # 0

(* A flusher holds batches that exist and the rows of the one it is at.    *)
HeldBatches ==
    \A f \in Flushers :
        /\ flush[f].todo \subseteq DOMAIN batches
        /\ flush[f].pc \in Busy => flush[f].at \in flush[f].todo /\ flush[f].rows = RowsOf(flush[f].at)

(* Past the first insert, and under a remembered token, the rows are in    *)
(* usage_events.                                                           *)
RowsVisible ==
    /\ \A f \in Flushers : flush[f].pc \in {"events", "hourly"} => flush[f].rows \subseteq events
    /\ \A b \in ToSet(eventTokens) : b \in DOMAIN batches /\ RowsOf(b) \subseteq events
    /\ \A b \in ToSet(hourlyTokens) : b \in DOMAIN batches

DeliveredNotLeased == \A b \in DOMAIN batches : batches[b].delivered => batches[b].status # "inflight"

OutboxInv == OutboxTypeOK /\ AnsweredRows /\ HeldBatches /\ RowsVisible /\ DeliveredNotLeased

-----------------------------------------------------------------------------
(* What a table remembers after an insert: nothing but the old tokens and  *)
(* the new one, and all of them while they fit in the window.              *)
LEMMA RememberFacts ==
    ASSUME NEW S, NEW tokens \in Seq(S), NEW t \in S, Len(tokens) <= Window
    PROVE  /\ Remember(tokens, t) \in Seq(S)
           /\ Len(Remember(tokens, t)) <= Window
           /\ ToSet(Remember(tokens, t)) \subseteq ToSet(tokens) \union {t}
           /\ Len(tokens) < Window => Remember(tokens, t) = Append(tokens, t)
           /\ \A x : x \in ToSet(Append(tokens, t)) <=> x \in ToSet(tokens) \/ x = t
<1> DEFINE all == Append(tokens, t)
<1>1. Len(tokens) \in Nat /\ DOMAIN tokens = 1..Len(tokens) /\ Window \in Nat \ {0}
  BY LenProperties, OutboxAssumption
<1>2. all \in Seq(S) /\ Len(all) = Len(tokens) + 1 /\ all[Len(tokens) + 1] = t
      /\ \A j \in 1..Len(tokens) : all[j] = tokens[j]
  BY AppendProperties
<1>3. DOMAIN all = 1..(Len(tokens) + 1)
  BY <1>2, LenProperties
<1>4. \A x : x \in ToSet(all) <=> x \in ToSet(tokens) \/ x = t
  <2>1. \A x : x \in ToSet(all) <=> \E j \in 1..(Len(tokens) + 1) : x = all[j]
    BY <1>3 DEF ToSet
  <2>2. \A x : x \in ToSet(tokens) <=> \E j \in 1..Len(tokens) : x = tokens[j]
    BY <1>1 DEF ToSet
  <2>3. \A j : j \in 1..(Len(tokens) + 1) <=> j \in 1..Len(tokens) \/ j = Len(tokens) + 1
    BY <1>1
  <2> QED  BY <1>2, <2>1, <2>2, <2>3
<1>0. Remember(tokens, t) = SubSeq(all, IF Len(all) > Window THEN Len(all) - Window + 1 ELSE 1, Len(all))
  BY DEF Remember
<1> HIDE DEF all
<1>5. CASE Len(tokens) < Window
  <2>0. ~(Len(all) > Window)
    BY <1>1, <1>2, <1>5
  <2>1. Remember(tokens, t) = SubSeq(all, 1, Len(all))
    BY <1>0, <2>0
  <2>2. Remember(tokens, t) = all
    BY <1>2, <2>1, SubSeqFull
  <2>3. Len(all) <= Window
    BY <1>1, <1>2, <1>5
  <2>4. ToSet(all) \subseteq ToSet(tokens) \union {t}
    BY <1>4
  <2> QED  BY <1>2, <1>4, <2>2, <2>3, <2>4 DEF all
<1>6. CASE ~(Len(tokens) < Window)
  <2>1. Len(tokens) = Window /\ Len(all) = Window + 1
    <3>1. \A m, n \in Nat : m <= n /\ ~(m < n) => m = n
      OBVIOUS
    <3>2. Len(tokens) = Window
      BY <1>1, <1>6, <3>1
    <3> QED  BY <1>2, <3>2
  <2>0. Len(all) > Window /\ Len(all) - Window + 1 = 2
    BY <1>1, <2>1
  <2>2. Remember(tokens, t) = SubSeq(all, 2, Len(all))
    BY <1>0, <2>0
  <2>3. SubSeq(all, 2, Len(all)) \in Seq(S) /\ Len(SubSeq(all, 2, Len(all))) = Window
        /\ \A j \in 1..Window : SubSeq(all, 2, Len(all))[j] = all[j + 1]
    BY <1>1, <1>2, <2>1
  <2>4. DOMAIN SubSeq(all, 2, Len(all)) = 1..Window
    BY <2>3, LenProperties
  <2>5. ToSet(Remember(tokens, t)) \subseteq ToSet(all)
    <3>1. \A j \in 1..Window : j + 1 \in 1..(Len(tokens) + 1)
      BY <1>1, <2>1
    <3> QED  BY <1>3, <2>2, <2>3, <2>4, <3>1 DEF ToSet
  <2>6. Len(Remember(tokens, t)) <= Window
    BY <1>1, <2>2, <2>3
  <2> QED  BY <1>4, <1>6, <2>2, <2>3, <2>5, <2>6 DEF all
<1> QED  BY <1>5, <1>6

(* The rows of a batch that exists stay its rows when a new one is stored. *)
LEMMA EnqueueTyped ==
    ASSUME OutboxInv, NEW S \in SUBSET OutboxKeys, EnqueueEvents(S)
    PROVE  /\ batches' = Append(batches, Batch("pending", FALSE, "none"))
           /\ Len(batches) \in Nat /\ Len(batches') = Len(batches) + 1 /\ Len(batches') <= MaxBatches
           /\ DOMAIN batches = 1..Len(batches) /\ DOMAIN batches' = 1..Len(batches')
           /\ batches' \in Seq(BatchRecord)
           /\ \A b \in DOMAIN batches : batches'[b] = batches[b] /\ RowsOf(b)' = RowsOf(b)
           /\ \A b \in DOMAIN batches' : b \notin DOMAIN batches => batches'[b] = Batch("pending", FALSE, "none")
           /\ rowBatch' \in [OutboxKeys -> 0..Len(batches')]
           /\ \A k \in OutboxKeys : rowBatch'[k] = IF k \in S /\ rowBatch[k] = 0 THEN Len(batches) + 1
                                                   ELSE rowBatch[k]
<1> DEFINE B == Batch("pending", FALSE, "none")
<1>1. batches \in Seq(BatchRecord) /\ rowBatch \in [OutboxKeys -> 0..Len(batches)]
  BY DEF OutboxInv, OutboxTypeOK, BatchRecord
<1>2. B \in BatchRecord
  BY DEF Batch, BatchRecord
<1>3. Len(batches) \in Nat /\ DOMAIN batches = 1..Len(batches) /\ MaxBatches \in Nat
  BY <1>1, LenProperties, OutboxAssumption
<1>4. batches' = Append(batches, B) /\ Len(batches) < MaxBatches
      /\ rowBatch' = [k \in OutboxKeys |-> IF k \in {j \in S : rowBatch[j] = 0} THEN Len(batches) + 1
                                           ELSE rowBatch[k]]
  BY DEF EnqueueEvents
<1> HIDE DEF B
<1>5. batches' \in Seq(BatchRecord) /\ Len(batches') = Len(batches) + 1
      /\ batches'[Len(batches) + 1] = B /\ \A b \in 1..Len(batches) : batches'[b] = batches[b]
  BY <1>1, <1>2, <1>4, AppendProperties
<1>6. DOMAIN batches' = 1..Len(batches') /\ Len(batches') <= MaxBatches
  BY <1>3, <1>4, <1>5, LenProperties
<1>7. \A k \in OutboxKeys : rowBatch'[k] = IF k \in S /\ rowBatch[k] = 0 THEN Len(batches) + 1
                                           ELSE rowBatch[k]
  BY <1>4
<1>8. rowBatch' \in [OutboxKeys -> 0..Len(batches')]
  <2>1. Len(batches) + 1 \in 0..Len(batches') /\ \A n \in 0..Len(batches) : n \in 0..Len(batches')
    BY <1>3, <1>5
  <2> QED  BY <1>1, <1>4, <2>1
<1>9. ASSUME NEW b \in DOMAIN batches PROVE RowsOf(b)' = RowsOf(b)
  <2>1. b # 0 /\ b # Len(batches) + 1
    BY <1>3
  <2> QED  BY <1>7, <2>1 DEF RowsOf
<1>10. \A b \in DOMAIN batches' : b \notin DOMAIN batches => b = Len(batches) + 1
  BY <1>3, <1>5, <1>6
<1> QED  BY <1>3, <1>4, <1>5, <1>6, <1>7, <1>8, <1>9, <1>10 DEF B

(* Facts about a state of the invariant that every step uses. *)
LEMMA OutboxFacts ==
    ASSUME OutboxInv
    PROVE  /\ batches \in Seq(BatchRecord) /\ Len(batches) \in 0..MaxBatches
           /\ DOMAIN batches = 1..Len(batches) /\ DOMAIN batches \subseteq 1..MaxBatches
           /\ rowBatch \in [OutboxKeys -> 0..Len(batches)]
           /\ flush \in [Flushers -> FlushRecord]
           /\ hourly \in [OutboxKeys -> Nat]
           /\ eventTokens \in Seq(1..MaxBatches) /\ Len(eventTokens) <= Window
           /\ hourlyTokens \in Seq(1..MaxBatches) /\ Len(hourlyTokens) <= Window
           /\ \A f \in Flushers : flush[f].pc \in Busy =>
                 flush[f].at \in DOMAIN batches /\ flush[f].at \in flush[f].todo
                 /\ flush[f].rows = RowsOf(flush[f].at)
<1>1. batches \in Seq(BatchRecord) /\ Len(batches) <= MaxBatches
      /\ rowBatch \in [OutboxKeys -> 0..Len(batches)] /\ hourly \in [OutboxKeys -> Nat]
      /\ flush \in [Flushers -> FlushRecord]
  BY DEF OutboxInv, OutboxTypeOK, BatchRecord, FlushRecord
<1>2. Len(batches) \in Nat /\ DOMAIN batches = 1..Len(batches) /\ MaxBatches \in Nat
  BY <1>1, LenProperties, OutboxAssumption
<1>3. Len(batches) \in 0..MaxBatches /\ DOMAIN batches \subseteq 1..MaxBatches
  BY <1>1, <1>2
<1>4. /\ eventTokens \in Seq(1..MaxBatches) /\ Len(eventTokens) <= Window
      /\ hourlyTokens \in Seq(1..MaxBatches) /\ Len(hourlyTokens) <= Window
  BY DEF OutboxInv, OutboxTypeOK
<1>5. \A f \in Flushers : flush[f].pc \in Busy =>
         flush[f].at \in DOMAIN batches /\ flush[f].at \in flush[f].todo
         /\ flush[f].rows = RowsOf(flush[f].at)
  BY DEF OutboxInv, HeldBatches
<1> QED  BY <1>1, <1>2, <1>3, <1>4, <1>5

(* A step that changes batches one by one and flushers keeps the batches   *)
(* that exist, and with them the invariant, when the flushers still hold   *)
(* batches that exist and nobody leases a delivered one.                   *)
LEMMA BatchStep ==
    ASSUME OutboxInv,
           batches' \in [DOMAIN batches -> BatchRecord],
           flush' \in [Flushers -> FlushRecord],
           HeldBatches',
           \A f \in Flushers : flush'[f].pc \in {"events", "hourly"} =>
              flush[f].pc \in {"events", "hourly"} /\ flush'[f].rows = flush[f].rows,
           DeliveredNotLeased',
           rowDone' \subseteq OutboxKeys, marked' \subseteq OutboxKeys, repairAsked' \subseteq Unpriced,
           UNCHANGED <<rowBatch, clickhouse, answered>>
    PROVE  OutboxInv'
<1>1. DOMAIN batches = 1..Len(batches) /\ Len(batches) \in Nat /\ Len(batches) <= MaxBatches
  BY OutboxFacts, OutboxAssumption
<1>2. batches' \in Seq(BatchRecord) /\ DOMAIN batches' = DOMAIN batches /\ Len(batches') = Len(batches)
  <2>1. batches' \in Seq(BatchRecord)
    BY <1>1, SeqDef
  <2>2. DOMAIN batches' = 1..Len(batches') /\ Len(batches') \in Nat
    BY <2>1, LenProperties
  <2> QED  BY <1>1, <2>1, <2>2
<1>3. UNCHANGED <<rowBatch, events, hourly, eventTokens, hourlyTokens, answered>>
  BY DEF clickhouse
<1>4. OutboxTypeOK'
  BY <1>1, <1>2, <1>3 DEF OutboxInv, OutboxTypeOK, BatchRecord, FlushRecord
<1>5. AnsweredRows'
  BY <1>3 DEF OutboxInv, AnsweredRows
<1>6. RowsVisible'
  BY <1>2, <1>3 DEF OutboxInv, RowsVisible, RowsOf
<1> QED  BY <1>4, <1>5, <1>6 DEF OutboxInv

(* Rows are inserted with their batch and marks (enqueueUsageOutbox).      *)
LEMMA EnqueueKeeps ==
    ASSUME OutboxInv, NEW S \in SUBSET OutboxKeys, EnqueueEvents(S)
    PROVE  OutboxInv'
<1>1. UNCHANGED <<rowDone, marked, repairAsked, events, hourly, eventTokens, hourlyTokens, flush, flushFails>>
      /\ answered' = answered \union {k \in S : rowBatch[k] = 0}
  BY DEF EnqueueEvents, clickhouse
<1>2. OutboxTypeOK'
  BY <1>1, EnqueueTyped DEF OutboxInv, OutboxTypeOK, BatchRecord
<1>3. AnsweredRows'
  <2>0. Len(batches) + 1 # 0
    BY OutboxFacts
  <2>1. ASSUME NEW k \in OutboxKeys
        PROVE  rowBatch'[k] # 0 <=> rowBatch[k] # 0 \/ (k \in S /\ rowBatch[k] = 0)
    <3>1. rowBatch'[k] = IF k \in S /\ rowBatch[k] = 0 THEN Len(batches) + 1 ELSE rowBatch[k]
      BY EnqueueTyped
    <3> QED  BY <2>0, <3>1
  <2> QED  BY <1>1, <2>1 DEF OutboxInv, AnsweredRows
<1>4. DOMAIN batches \subseteq DOMAIN batches'
  <2>1. \A n \in Nat : \A b \in 1..n : b \in 1..(n + 1)
    OBVIOUS
  <2> QED  BY EnqueueTyped, <2>1
<1>5. HeldBatches'
  BY <1>1, <1>4, EnqueueTyped DEF OutboxInv, HeldBatches
<1>6. RowsVisible'
  BY <1>1, <1>4, EnqueueTyped DEF OutboxInv, RowsVisible
<1>7. DeliveredNotLeased'
  BY EnqueueTyped DEF OutboxInv, DeliveredNotLeased, Batch
<1> QED  BY <1>2, <1>3, <1>5, <1>6, <1>7 DEF OutboxInv

(* A flusher leases batches (claimUsageOutboxBatches).                     *)
LEMMA ClaimKeeps ==
    ASSUME OutboxInv, NEW f \in Flushers, Claim(f)
    PROVE  OutboxInv'
<1> DEFINE mine == Oldest({b \in DOMAIN batches : Claimable(b)}, BatchLimit)
           held == [pc |-> "next", todo |-> mine, at |-> 0, rows |-> {}]
<1>1. mine \subseteq DOMAIN batches
  BY DEF Oldest
<1>2. /\ batches' = [b \in DOMAIN batches |->
                       IF b \in mine THEN Batch("inflight", FALSE, "fresh") ELSE batches[b]]
      /\ flush' = [flush EXCEPT ![f] = held]
      /\ UNCHANGED <<rowBatch, rowDone, marked, repairAsked, clickhouse, answered>>
  BY DEF Claim
<1> HIDE DEF mine
<1>3. Batch("inflight", FALSE, "fresh") \in BatchRecord
      /\ ~Batch("inflight", FALSE, "fresh").delivered
  BY DEF Batch, BatchRecord
<1>4. batches' \in [DOMAIN batches -> BatchRecord]
  <2>1. \A b \in DOMAIN batches : batches[b] \in BatchRecord
    BY OutboxFacts, ElementOfSeq
  <2> QED  BY <1>2, <1>3, <2>1
<1>5. held \in FlushRecord
  BY <1>1, OutboxFacts, OutboxAssumption DEF FlushRecord
<1>6. flush' \in [Flushers -> FlushRecord] /\ \A g \in Flushers : flush'[g] = IF g = f THEN held ELSE flush[g]
  BY <1>2, <1>5, OutboxFacts
<1>7. DOMAIN batches' = DOMAIN batches /\ rowBatch' = rowBatch
  BY <1>2
<1>8. HeldBatches'
  BY <1>1, <1>6, <1>7 DEF OutboxInv, HeldBatches, Busy, RowsOf
<1>9. DeliveredNotLeased'
  BY <1>2, <1>3 DEF OutboxInv, DeliveredNotLeased
<1>10. rowDone' \subseteq OutboxKeys /\ marked' \subseteq OutboxKeys /\ repairAsked' \subseteq Unpriced
  BY <1>2 DEF OutboxInv, OutboxTypeOK
<1> QED  BY <1>2, <1>4, <1>6, <1>8, <1>9, <1>10, BatchStep

(* It goes on to one of them and reads its rows.                           *)
LEMMA ReadBatchKeeps ==
    ASSUME OutboxInv, NEW f \in Flushers, ReadBatch(f)
    PROVE  OutboxInv'
<1>1. batches' = batches /\ rowBatch' = rowBatch
      /\ UNCHANGED <<rowBatch, rowDone, marked, repairAsked, clickhouse, answered>>
  BY DEF ReadBatch, postgres
<1> DEFINE Taken(held) ==
                         /\ flush' = [flush EXCEPT ![f] = held]
                         /\ held.todo \subseteq flush[f].todo
                         /\ held.pc \notin {"events", "hourly"}
                         /\ held.pc \in Busy => held.at \in held.todo /\ held.rows = RowsOf(held.at)
<1>2. PICK held \in FlushRecord : Taken(held)
  <2>1. CASE flush[f].todo = {} /\ flush' = [flush EXCEPT ![f] = NoFlush]
    <3>1. NoFlush \in FlushRecord /\ NoFlush.todo = {} /\ NoFlush.pc = "idle"
      BY OutboxAssumption DEF NoFlush, FlushRecord
    <3> QED  BY <2>1, <3>1 DEF Busy
  <2>2. ASSUME NEW b \in flush[f].todo,
               flush' = [flush EXCEPT ![f] = [@ EXCEPT !.pc = "rows", !.at = b, !.rows = RowsOf(b)]]
        PROVE  \E held \in FlushRecord : Taken(held)
    <3> DEFINE held == [flush[f] EXCEPT !.pc = "rows", !.at = b, !.rows = RowsOf(b)]
    <3>1. flush[f] \in FlushRecord /\ b \in 1..MaxBatches /\ RowsOf(b) \subseteq OutboxKeys
      BY OutboxFacts DEF FlushRecord, RowsOf
    <3>2. b \in 0..MaxBatches
      BY <3>1
    <3>3. held \in FlushRecord /\ held.todo = flush[f].todo /\ held.pc = "rows" /\ held.at = b
          /\ held.rows = RowsOf(b)
      BY <3>1, <3>2 DEF FlushRecord
    <3>4. flush' = [flush EXCEPT ![f] = held]
      BY <2>2
    <3> HIDE DEF held
    <3> QED  BY <3>3, <3>4
  <2>3. \/ flush[f].todo = {} /\ flush' = [flush EXCEPT ![f] = NoFlush]
        \/ \E b \in flush[f].todo :
             flush' = [flush EXCEPT ![f] = [@ EXCEPT !.pc = "rows", !.at = b, !.rows = RowsOf(b)]]
    BY DEF ReadBatch
  <2> HIDE DEF Taken
  <2> QED  BY <2>1, <2>2, <2>3
<1>3. flush' \in [Flushers -> FlushRecord] /\ \A g \in Flushers : flush'[g] = IF g = f THEN held ELSE flush[g]
  BY <1>2, OutboxFacts
<1>4. HeldBatches'
  BY <1>1, <1>2, <1>3 DEF OutboxInv, HeldBatches, RowsOf
<1>5. DeliveredNotLeased'
  BY <1>1 DEF OutboxInv, DeliveredNotLeased
<1>6. batches' \in [DOMAIN batches -> BatchRecord]
  BY <1>1, OutboxFacts, LenProperties
<1>7. rowDone' \subseteq OutboxKeys /\ marked' \subseteq OutboxKeys /\ repairAsked' \subseteq Unpriced
  BY <1>1 DEF OutboxInv, OutboxTypeOK
<1> QED  BY <1>1, <1>2, <1>3, <1>4, <1>5, <1>6, <1>7, BatchStep

(* A flusher goes on with the batch it is at: what that changes of its     *)
(* record is its place only.                                               *)
LEMMA GoesOn ==
    ASSUME OutboxInv, NEW f \in Flushers, flush[f].pc \in Busy, NEW s \in Busy,
           flush' = [flush EXCEPT ![f].pc = s], UNCHANGED <<batches, rowBatch>>
    PROVE  /\ flush' \in [Flushers -> FlushRecord]
           /\ \A g \in Flushers : /\ flush'[g].pc = IF g = f THEN s ELSE flush[g].pc
                                  /\ flush'[g].todo = flush[g].todo /\ flush'[g].at = flush[g].at
                                  /\ flush'[g].rows = flush[g].rows
           /\ HeldBatches'
<1>1. flush \in [Flushers -> FlushRecord]
  BY OutboxFacts
<1>2. flush' \in [Flushers -> FlushRecord]
      /\ \A g \in Flushers : /\ flush'[g].pc = IF g = f THEN s ELSE flush[g].pc
                             /\ flush'[g].todo = flush[g].todo /\ flush'[g].at = flush[g].at
                             /\ flush'[g].rows = flush[g].rows
  BY <1>1 DEF FlushRecord, Busy
<1>3. HeldBatches'
  BY <1>2 DEF OutboxInv, HeldBatches, RowsOf
<1> QED  BY <1>2, <1>3

(* The first insert of a batch leaves its rows visible.                    *)
LEMMA InsertEventsKeeps ==
    ASSUME OutboxInv, NEW f \in Flushers, InsertEvents(f)
    PROVE  OutboxInv'
<1> DEFINE b == CurrentBatch(f)
<1>1. UNCHANGED <<batches, rowBatch, rowDone, marked, repairAsked, hourly, hourlyTokens, answered>>
      /\ flush[f].pc \in Busy /\ flush' = [flush EXCEPT ![f].pc = "events"] /\ "events" \in Busy
  BY DEF InsertEvents, postgres, Busy
<1>2. /\ flush' \in [Flushers -> FlushRecord] /\ HeldBatches'
      /\ \A g \in Flushers : /\ flush'[g].pc = IF g = f THEN "events" ELSE flush[g].pc
                             /\ flush'[g].rows = flush[g].rows
  BY <1>1, GoesOn
<1>3. b \in DOMAIN batches /\ b \in 1..MaxBatches /\ flush[f].rows = RowsOf(b)
      /\ RowsOf(b) \subseteq OutboxKeys
  BY <1>1, OutboxFacts DEF CurrentBatch, RowsOf
<1>4. /\ events \subseteq events' /\ events' \subseteq OutboxKeys /\ flush[f].rows \subseteq events'
      /\ eventTokens' \in Seq(1..MaxBatches) /\ Len(eventTokens') <= Window
      /\ \A t \in ToSet(eventTokens') : t \in ToSet(eventTokens) \/ t = b
  <2>1. CASE (flush[f].rows = {} \/ b \in ToSet(eventTokens)) /\ UNCHANGED <<events, eventTokens>>
    BY <1>3, <2>1, OutboxFacts DEF OutboxInv, RowsVisible, OutboxTypeOK
  <2>2. CASE /\ events' = events \union flush[f].rows
             /\ eventTokens' = Remember(eventTokens, b)
    <3>1. /\ Remember(eventTokens, b) \in Seq(1..MaxBatches) /\ Len(Remember(eventTokens, b)) <= Window
          /\ ToSet(Remember(eventTokens, b)) \subseteq ToSet(eventTokens) \union {b}
      <4> DEFINE T == 1..MaxBatches
      <4>1. eventTokens \in Seq(T) /\ Len(eventTokens) <= Window /\ b \in T
        BY <1>3, OutboxFacts
      <4> HIDE DEF b, T
      <4>2. Remember(eventTokens, b) \in Seq(T) /\ Len(Remember(eventTokens, b)) <= Window
            /\ ToSet(Remember(eventTokens, b)) \subseteq ToSet(eventTokens) \union {b}
        BY <4>1, RememberFacts
      <4> QED  BY <4>2 DEF T
    <3>2. events \subseteq OutboxKeys
      BY DEF OutboxInv, OutboxTypeOK
    <3> QED  BY <1>3, <2>2, <3>1, <3>2
  <2> QED  BY <2>1, <2>2 DEF InsertEvents
<1>5. OutboxTypeOK'
  BY <1>1, <1>2, <1>4 DEF OutboxInv, OutboxTypeOK, FlushRecord
<1>6. AnsweredRows' /\ DeliveredNotLeased'
  BY <1>1 DEF OutboxInv, AnsweredRows, DeliveredNotLeased
<1>7. RowsVisible'
  BY <1>1, <1>2, <1>3, <1>4 DEF OutboxInv, RowsVisible, RowsOf
<1> QED  BY <1>2, <1>5, <1>6, <1>7 DEF OutboxInv

(* The second insert.                                                      *)
LEMMA InsertHourlyKeeps ==
    ASSUME OutboxInv, NEW f \in Flushers, InsertHourly(f)
    PROVE  OutboxInv'
<1> DEFINE b == CurrentBatch(f)
<1>1. UNCHANGED <<batches, rowBatch, rowDone, marked, repairAsked, events, eventTokens, answered>>
      /\ flush[f].pc = "events" /\ flush[f].pc \in Busy
      /\ flush' = [flush EXCEPT ![f].pc = "hourly"] /\ "hourly" \in Busy
  BY DEF InsertHourly, postgres, Busy
<1>2. /\ flush' \in [Flushers -> FlushRecord] /\ HeldBatches'
      /\ \A g \in Flushers : /\ flush'[g].pc = IF g = f THEN "hourly" ELSE flush[g].pc
                             /\ flush'[g].rows = flush[g].rows
  BY <1>1, GoesOn
<1>3. b \in DOMAIN batches /\ b \in 1..MaxBatches /\ flush[f].rows = RowsOf(b)
      /\ \A k \in RowsOf(b) : rowBatch[k] # 0
  BY <1>1, OutboxFacts DEF CurrentBatch, RowsOf
<1>4. /\ hourly' \in [OutboxKeys -> Nat]
      /\ \A k \in OutboxKeys : hourly'[k] = hourly[k] \/ k \in flush[f].rows
      /\ hourlyTokens' \in Seq(1..MaxBatches) /\ Len(hourlyTokens') <= Window
      /\ \A t \in ToSet(hourlyTokens') : t \in ToSet(hourlyTokens) \/ t = b
  <2>1. CASE UNCHANGED <<hourly, hourlyTokens>>
    BY <2>1, OutboxFacts
  <2>2. CASE /\ hourly' = [k \in OutboxKeys |-> hourly[k] + IF k \in flush[f].rows THEN 1 ELSE 0]
             /\ hourlyTokens' = Remember(hourlyTokens, b)
    <3>1. hourly' \in [OutboxKeys -> Nat]
          /\ \A k \in OutboxKeys : hourly'[k] = hourly[k] \/ k \in flush[f].rows
      BY <2>2, OutboxFacts
    <3>2. /\ Remember(hourlyTokens, b) \in Seq(1..MaxBatches) /\ Len(Remember(hourlyTokens, b)) <= Window
          /\ ToSet(Remember(hourlyTokens, b)) \subseteq ToSet(hourlyTokens) \union {b}
      <4> DEFINE T == 1..MaxBatches
      <4>1. hourlyTokens \in Seq(T) /\ Len(hourlyTokens) <= Window /\ b \in T
        BY <1>3, OutboxFacts
      <4> HIDE DEF b, T
      <4>2. Remember(hourlyTokens, b) \in Seq(T) /\ Len(Remember(hourlyTokens, b)) <= Window
            /\ ToSet(Remember(hourlyTokens, b)) \subseteq ToSet(hourlyTokens) \union {b}
        BY <4>1, RememberFacts
      <4> QED  BY <4>2 DEF T
    <3> QED  BY <2>2, <3>1, <3>2
  <2> QED  BY <2>1, <2>2 DEF InsertHourly
<1>5. OutboxTypeOK'
  BY <1>1, <1>2, <1>4 DEF OutboxInv, OutboxTypeOK, FlushRecord
<1>6. AnsweredRows' /\ DeliveredNotLeased'
  BY <1>1, <1>3, <1>4 DEF OutboxInv, AnsweredRows, DeliveredNotLeased
<1>7. RowsVisible'
  BY <1>1, <1>2, <1>3, <1>4 DEF OutboxInv, RowsVisible, RowsOf
<1> QED  BY <1>2, <1>5, <1>6, <1>7 DEF OutboxInv

(* The batch is delivered and its lease is over.                           *)
LEMMA CommitBatchKeeps ==
    ASSUME OutboxInv, NEW f \in Flushers, CommitBatch(f)
    PROVE  OutboxInv'
<1> DEFINE b == flush[f].at
           held == [pc |-> "next", todo |-> flush[f].todo \ {b}, at |-> 0, rows |-> {}]
<1>1. /\ batches' = [batches EXCEPT ![b] = Batch("delivered", TRUE, "none")]
      /\ rowDone' = rowDone \union RowsOf(b) /\ marked' = marked \union flush[f].rows
      /\ repairAsked' = repairAsked \union (flush[f].rows \intersect Unpriced)
      /\ flush' = [flush EXCEPT ![f] = held]
      /\ UNCHANGED <<rowBatch, clickhouse, answered>>
      /\ flush[f].pc \in Busy
  BY DEF CommitBatch, CurrentBatch, Busy
<1>2. b \in DOMAIN batches /\ flush[f].rows = RowsOf(b) /\ RowsOf(b) \subseteq OutboxKeys
  BY <1>1, OutboxFacts DEF RowsOf
<1>3. Batch("delivered", TRUE, "none") \in BatchRecord /\ Batch("delivered", TRUE, "none").status # "inflight"
  BY DEF Batch, BatchRecord
<1>4. batches \in [DOMAIN batches -> BatchRecord]
  BY OutboxFacts, LenProperties
<1>5. batches' \in [DOMAIN batches -> BatchRecord] /\ DOMAIN batches' = DOMAIN batches
  BY <1>1, <1>3, <1>4
<1>6. DeliveredNotLeased'
  BY <1>1, <1>3, <1>4, <1>5 DEF OutboxInv, DeliveredNotLeased
<1>7. held \in FlushRecord
  BY OutboxFacts, OutboxAssumption DEF FlushRecord
<1>8. flush' \in [Flushers -> FlushRecord] /\ \A g \in Flushers : flush'[g] = IF g = f THEN held ELSE flush[g]
  BY <1>1, <1>7, OutboxFacts
<1>9. HeldBatches'
  BY <1>1, <1>5, <1>8 DEF OutboxInv, HeldBatches, Busy, RowsOf
<1>10. rowDone' \subseteq OutboxKeys /\ marked' \subseteq OutboxKeys /\ repairAsked' \subseteq Unpriced
  BY <1>1, <1>2 DEF OutboxInv, OutboxTypeOK
<1> QED  BY <1>1, <1>5, <1>6, <1>8, <1>9, <1>10, BatchStep

(* A flush that ends in any way holds nothing any more.                    *)
LEMMA FlushEnds ==
    ASSUME OutboxInv, NEW f \in Flushers, flush' = [flush EXCEPT ![f] = NoFlush],
           DOMAIN batches' = DOMAIN batches, rowBatch' = rowBatch
    PROVE  /\ flush' \in [Flushers -> FlushRecord] /\ HeldBatches'
           /\ \A g \in Flushers : flush'[g].pc \in {"events", "hourly"} => flush'[g] = flush[g]
<1>1. NoFlush \in FlushRecord /\ NoFlush.todo = {} /\ NoFlush.pc = "idle"
  BY OutboxAssumption DEF NoFlush, FlushRecord
<1>2. flush' \in [Flushers -> FlushRecord] /\ \A g \in Flushers : flush'[g] = IF g = f THEN NoFlush ELSE flush[g]
  BY <1>1, OutboxFacts
<1>3. HeldBatches'
  BY <1>1, <1>2 DEF OutboxInv, HeldBatches, Busy, RowsOf
<1> QED  BY <1>1, <1>2, <1>3

(* A flush that fails gives its batches back.                              *)
LEMMA FlushFailsKeeps ==
    ASSUME OutboxInv, NEW f \in Flushers, FlushFails(f)
    PROVE  OutboxInv'
<1> DEFINE b == flush[f].at
<1>1. /\ batches' = [batches EXCEPT ![b].status = "pending", ![b].lease = "none"]
      /\ flush' = [flush EXCEPT ![f] = NoFlush]
      /\ UNCHANGED <<rowBatch, rowDone, marked, repairAsked, clickhouse, answered>>
      /\ flush[f].pc \in Busy
  BY DEF FlushFails, CurrentBatch, Busy
<1>2. batches \in [DOMAIN batches -> BatchRecord] /\ b \in DOMAIN batches
  BY <1>1, OutboxFacts, LenProperties
<1>3. /\ batches' \in [DOMAIN batches -> BatchRecord] /\ DOMAIN batches' = DOMAIN batches
      /\ \A c \in DOMAIN batches : batches'[c].status = (IF c = b THEN "pending" ELSE batches[c].status)
      /\ \A c \in DOMAIN batches : batches'[c].delivered = batches[c].delivered
  <2> DEFINE r == [batches[b] EXCEPT !.status = "pending", !.lease = "none"]
  <2>1. batches' = [batches EXCEPT ![b] = r]
    BY <1>1
  <2>2. r \in BatchRecord /\ r.status = "pending" /\ r.delivered = batches[b].delivered
    <3>1. batches[b] \in BatchRecord
      BY <1>2
    <3> QED  BY <3>1 DEF BatchRecord
  <2> HIDE DEF r, b
  <2> QED  BY <1>2, <2>1, <2>2
<1>4. DeliveredNotLeased'
  <2> SUFFICES ASSUME NEW c \in DOMAIN batches, batches'[c].delivered
               PROVE  batches'[c].status # "inflight"
    BY <1>3 DEF DeliveredNotLeased
  <2> HIDE DEF b
  <2> QED  BY <1>3 DEF OutboxInv, DeliveredNotLeased
<1>5. rowDone' \subseteq OutboxKeys /\ marked' \subseteq OutboxKeys /\ repairAsked' \subseteq Unpriced
  BY <1>1 DEF OutboxInv, OutboxTypeOK
<1> QED  BY <1>1, <1>3, <1>4, <1>5, FlushEnds, BatchStep

(* A flusher that dies holds nothing.                                      *)
LEMMA FlusherDiesKeeps ==
    ASSUME OutboxInv, NEW f \in Flushers, FlusherDies(f)
    PROVE  OutboxInv'
<1>1. /\ flush' = [flush EXCEPT ![f] = NoFlush]
      /\ UNCHANGED <<batches, rowBatch, rowDone, marked, repairAsked, clickhouse, answered>>
  BY DEF FlusherDies, postgres
<1>2. batches' \in [DOMAIN batches -> BatchRecord]
  BY <1>1, OutboxFacts, LenProperties
<1>3. DeliveredNotLeased' /\ rowDone' \subseteq OutboxKeys /\ marked' \subseteq OutboxKeys
      /\ repairAsked' \subseteq Unpriced
  BY <1>1 DEF OutboxInv, OutboxTypeOK, DeliveredNotLeased
<1> QED  BY <1>1, <1>2, <1>3, FlushEnds, BatchStep

(* A lease that expires is still one of its batch.                         *)
LEMMA LeaseExpiresKeeps ==
    ASSUME OutboxInv, NEW b \in 1..MaxBatches, LeaseExpires(b)
    PROVE  OutboxInv'
<1>1. /\ batches' = [batches EXCEPT ![b].lease = "expired"] /\ b \in DOMAIN batches
      /\ UNCHANGED <<rowBatch, rowDone, marked, repairAsked, clickhouse, flush, answered>>
  BY DEF LeaseExpires
<1>2. batches \in [DOMAIN batches -> BatchRecord]
  BY OutboxFacts, LenProperties
<1>3. batches' \in [DOMAIN batches -> BatchRecord] /\ DOMAIN batches' = DOMAIN batches
      /\ \A c \in DOMAIN batches : batches'[c].status = batches[c].status
                                   /\ batches'[c].delivered = batches[c].delivered
  BY <1>1, <1>2 DEF BatchRecord
<1>4. DeliveredNotLeased'
  BY <1>3 DEF OutboxInv, DeliveredNotLeased
<1>5. rowDone' \subseteq OutboxKeys /\ marked' \subseteq OutboxKeys /\ repairAsked' \subseteq Unpriced
  BY <1>1 DEF OutboxInv, OutboxTypeOK
<1>6. HeldBatches' /\ flush' \in [Flushers -> FlushRecord]
  BY <1>1, <1>3, OutboxFacts DEF OutboxInv, HeldBatches, RowsOf
<1> QED  BY <1>1, <1>3, <1>4, <1>5, <1>6, BatchStep

(* The invariant holds at the start ...                                    *)
LEMMA OutboxInvInit == OutboxInit => OutboxInv
<1> SUFFICES ASSUME OutboxInit PROVE OutboxInv
  OBVIOUS
<1>1. NoFlush \in FlushRecord /\ NoFlush.todo = {} /\ NoFlush.pc = "idle"
  BY OutboxAssumption DEF NoFlush, FlushRecord
<1>2. /\ batches = <<>> /\ Len(batches) = 0 /\ DOMAIN batches = {} /\ batches \in Seq(BatchRecord)
      /\ eventTokens = <<>> /\ eventTokens \in Seq(1..MaxBatches) /\ ToSet(eventTokens) = {}
      /\ hourlyTokens = <<>> /\ hourlyTokens \in Seq(1..MaxBatches) /\ ToSet(hourlyTokens) = {}
      /\ Len(eventTokens) = 0 /\ Len(hourlyTokens) = 0
  BY DEF OutboxInit, ToSet
<1>3. OutboxTypeOK
  BY <1>1, <1>2, OutboxAssumption DEF OutboxInit, OutboxTypeOK, BatchRecord, FlushRecord
<1>4. AnsweredRows /\ HeldBatches /\ RowsVisible /\ DeliveredNotLeased
  BY <1>1, <1>2 DEF OutboxInit, AnsweredRows, HeldBatches, RowsVisible, DeliveredNotLeased, Busy
<1> QED  BY <1>3, <1>4 DEF OutboxInv

(* ... every step keeps it ...                                             *)
LEMMA OutboxInvNext == OutboxInv /\ [OutboxNext]_outboxVars => OutboxInv'
<1> SUFFICES ASSUME OutboxInv, [OutboxNext]_outboxVars PROVE OutboxInv'
  OBVIOUS
<1>1. CASE UNCHANGED outboxVars
  BY <1>1 DEF outboxVars, OutboxInv, OutboxTypeOK, AnsweredRows, HeldBatches, RowsVisible,
              DeliveredNotLeased, RowsOf
<1> QED  BY <1>1, EnqueueKeeps, ClaimKeeps, ReadBatchKeeps, InsertEventsKeeps, InsertHourlyKeeps,
            CommitBatchKeeps, FlushFailsKeeps, FlusherDiesKeeps, LeaseExpiresKeeps DEF OutboxNext

(* ... and so it holds in every reachable state.                           *)
LEMMA OutboxInvAlways == OutboxSpec => []OutboxInv
<1> QED  BY OutboxInvInit, OutboxInvNext, PTL DEF OutboxSpec

-----------------------------------------------------------------------------
(* The hourly table remembers the token of a counted batch as long as a    *)
(* flusher holds the batch.                                                *)
TokensRemembered ==
    \A f \in Flushers, k \in OutboxKeys :
        rowBatch[k] \in flush[f].todo /\ hourly[k] # 0 => rowBatch[k] \in ToSet(hourlyTokens)

(* Under a remembered token, and past the second insert, every row of the  *)
(* batch was counted, and none twice.                                      *)
TokenInv ==
    /\ \A k \in OutboxKeys : hourly[k] \in {0, 1}
    /\ \A b \in ToSet(hourlyTokens) : \A k \in RowsOf(b) : hourly[k] = 1
    /\ \A f \in Flushers : flush[f].pc = "hourly" => \A k \in flush[f].rows : hourly[k] = 1
    /\ DeliveredComplete

(* What a step of InsertHourly does while the tokens are remembered:       *)
(* nothing to the table, or every row of the batch is counted for the      *)
(* first time.                                                             *)
LEMMA CountsForTheFirstTime ==
    ASSUME OutboxInv, TokenInv, TokensRemembered, NEW f \in Flushers, InsertHourly(f)
    PROVE  /\ flush[f].at \in DOMAIN batches /\ flush[f].rows = RowsOf(flush[f].at)
           /\ \/ UNCHANGED <<hourly, hourlyTokens>> /\ \A k \in flush[f].rows : hourly[k] = 1
              \/ /\ flush[f].rows # {} /\ \A k \in flush[f].rows : hourly[k] = 0
                 /\ \A k \in OutboxKeys : hourly'[k] = IF k \in flush[f].rows THEN 1 ELSE hourly[k]
                 /\ \A t \in ToSet(hourlyTokens') : t \in ToSet(hourlyTokens) \/ t = flush[f].at
<1> DEFINE b == flush[f].at
<1>1. flush[f].pc = "events" /\ flush[f].pc \in Busy
  BY DEF InsertHourly, Busy
<1>2. b \in DOMAIN batches /\ b \in flush[f].todo /\ flush[f].rows = RowsOf(b)
      /\ RowsOf(b) \subseteq OutboxKeys /\ \A k \in RowsOf(b) : rowBatch[k] = b
  BY <1>1, OutboxFacts DEF RowsOf
<1>3. CASE (flush[f].rows = {} \/ b \in ToSet(hourlyTokens)) /\ UNCHANGED <<hourly, hourlyTokens>>
  BY <1>2, <1>3 DEF TokenInv
<1>4. CASE /\ flush[f].rows # {} /\ b \notin ToSet(hourlyTokens)
           /\ hourly' = [k \in OutboxKeys |-> hourly[k] + IF k \in flush[f].rows THEN 1 ELSE 0]
           /\ hourlyTokens' = Remember(hourlyTokens, b)
  <2>1. \A k \in flush[f].rows : hourly[k] = 0
    BY <1>2, <1>4 DEF TokensRemembered
  <2>2. \A k \in OutboxKeys : hourly'[k] = IF k \in flush[f].rows THEN 1 ELSE hourly[k]
    BY <1>4, <2>1 DEF TokenInv
  <2>3. ToSet(hourlyTokens') \subseteq ToSet(hourlyTokens) \union {b}
    <3> DEFINE T == 1..MaxBatches
    <3>1. hourlyTokens \in Seq(T) /\ Len(hourlyTokens) <= Window /\ b \in T
      BY <1>2, OutboxFacts
    <3> HIDE DEF b, T
    <3> QED  BY <1>4, <3>1, RememberFacts
  <2> QED  BY <1>2, <1>4, <2>1, <2>2, <2>3
<1>5. \/ (flush[f].rows = {} \/ b \in ToSet(hourlyTokens)) /\ UNCHANGED <<hourly, hourlyTokens>>
      \/ /\ flush[f].rows # {} /\ b \notin ToSet(hourlyTokens)
         /\ hourly' = [k \in OutboxKeys |-> hourly[k] + IF k \in flush[f].rows THEN 1 ELSE 0]
         /\ hourlyTokens' = Remember(hourlyTokens, b)
  BY DEF InsertHourly, CurrentBatch
<1> QED  BY <1>2, <1>3, <1>4, <1>5

(* Nothing is counted at the start.                                        *)
LEMMA TokenInvInit == OutboxInit => TokenInv
<1> SUFFICES ASSUME OutboxInit PROVE TokenInv
  OBVIOUS
<1>1. ToSet(hourlyTokens) = {}
  BY DEF OutboxInit, ToSet
<1> QED  BY <1>1 DEF OutboxInit, TokenInv, DeliveredComplete, NoFlush

(* A step from a state whose tokens are remembered counts no event twice.  *)
LEMMA TokenInvNext == OutboxInv /\ TokenInv /\ TokensRemembered /\ [OutboxNext]_outboxVars => TokenInv'
<1> SUFFICES ASSUME OutboxInv, TokenInv, TokensRemembered, [OutboxNext]_outboxVars PROVE TokenInv'
  OBVIOUS
<1>1. ASSUME UNCHANGED <<rowBatch, rowDone, events, hourly, hourlyTokens, marked, repairAsked>>,
             \A f \in Flushers : flush'[f].pc = "hourly" =>
                flush[f].pc = "hourly" /\ flush'[f].rows = flush[f].rows
      PROVE  TokenInv'
  BY <1>1 DEF TokenInv, DeliveredComplete, RowsOf
<1>2. ASSUME NEW S \in SUBSET OutboxKeys, EnqueueEvents(S) PROVE TokenInv'
  <2>1. UNCHANGED <<rowDone, marked, repairAsked, events, hourly, hourlyTokens, flush>>
    BY <1>2 DEF EnqueueEvents, clickhouse
  <2>2. \A b \in ToSet(hourlyTokens) : RowsOf(b)' = RowsOf(b)
    BY <1>2, EnqueueTyped DEF OutboxInv, RowsVisible
  <2> QED  BY <2>1, <2>2 DEF TokenInv, DeliveredComplete
<1>3. ASSUME NEW f \in Flushers, Claim(f) PROVE TokenInv'
  <2>1. UNCHANGED <<rowBatch, rowDone, events, hourly, hourlyTokens, marked, repairAsked>>
    BY <1>3 DEF Claim, clickhouse
  <2>2. \A g \in Flushers : flush'[g] = flush[g] \/ flush'[g].pc = "next"
    BY <1>3, OutboxFacts DEF Claim
  <2> QED  BY <1>1, <2>1, <2>2
<1>4. ASSUME NEW f \in Flushers, ReadBatch(f) PROVE TokenInv'
  <2>1. UNCHANGED <<rowBatch, rowDone, events, hourly, hourlyTokens, marked, repairAsked>>
    BY <1>4 DEF ReadBatch, clickhouse, postgres
  <2>2. \A g \in Flushers : flush'[g] = flush[g] \/ flush'[g].pc \in {"idle", "rows"}
    <3>1. flush \in [Flushers -> FlushRecord] /\ NoFlush.pc = "idle"
      BY OutboxFacts DEF NoFlush
    <3> QED  BY <1>4, <3>1 DEF ReadBatch, FlushRecord
  <2> QED  BY <1>1, <2>1, <2>2
<1>5. ASSUME NEW f \in Flushers, InsertEvents(f) PROVE TokenInv'
  <2>1. UNCHANGED <<rowBatch, rowDone, hourly, hourlyTokens, marked, repairAsked>>
        /\ events \subseteq events'
    BY <1>5 DEF InsertEvents, postgres
  <2>2. flush[f].pc \in Busy /\ "events" \in Busy /\ flush' = [flush EXCEPT ![f].pc = "events"]
        /\ UNCHANGED <<batches, rowBatch>>
    BY <1>5 DEF InsertEvents, postgres, Busy
  <2>3. \A g \in Flushers : flush'[g].pc = (IF g = f THEN "events" ELSE flush[g].pc)
                            /\ flush'[g].rows = flush[g].rows
    BY <2>2, GoesOn
  <2> QED  BY <2>1, <2>3 DEF TokenInv, DeliveredComplete, RowsOf
<1>6. ASSUME NEW f \in Flushers, InsertHourly(f) PROVE TokenInv'
  <2>1. UNCHANGED <<batches, rowBatch, rowDone, events, marked, repairAsked>>
    BY <1>6 DEF InsertHourly, postgres
  <2>2. flush[f].pc \in Busy /\ "hourly" \in Busy /\ flush' = [flush EXCEPT ![f].pc = "hourly"]
    BY <1>6 DEF InsertHourly, Busy
  <2>3. \A g \in Flushers : flush'[g].pc = (IF g = f THEN "hourly" ELSE flush[g].pc)
                            /\ flush'[g].rows = flush[g].rows
    BY <2>1, <2>2, GoesOn
  <2>4. \A k \in OutboxKeys : hourly'[k] = hourly[k] \/ (hourly[k] = 0 /\ hourly'[k] = 1)
    BY <1>6, CountsForTheFirstTime
  <2>5. \A k \in flush[f].rows : k \in OutboxKeys /\ hourly'[k] = 1
    BY <1>6, CountsForTheFirstTime DEF RowsOf
  <2>6. \A b \in ToSet(hourlyTokens') : b \in ToSet(hourlyTokens) \/ RowsOf(b) = flush[f].rows
    BY <1>6, CountsForTheFirstTime
  <2>7. \A b \in ToSet(hourlyTokens') : \A k \in RowsOf(b)' : hourly'[k] = 1
    <3>1. \A b : RowsOf(b)' = RowsOf(b) /\ RowsOf(b) \subseteq OutboxKeys
      BY <2>1 DEF RowsOf
    <3> QED  BY <2>4, <2>5, <2>6, <3>1 DEF TokenInv
  <2>8. \A g \in Flushers : flush'[g].pc = "hourly" => \A k \in flush'[g].rows : hourly'[k] = 1
    <3>1. \A g \in Flushers : flush[g].rows \subseteq OutboxKeys
      BY OutboxFacts DEF FlushRecord
    <3> QED  BY <2>3, <2>4, <2>5, <3>1 DEF TokenInv
  <2>9. DeliveredComplete'
    <3>1. rowDone \subseteq OutboxKeys
      BY DEF OutboxInv, OutboxTypeOK
    <3> QED  BY <2>1, <2>4, <3>1 DEF TokenInv, DeliveredComplete
  <2> QED  BY <2>4, <2>7, <2>8, <2>9 DEF TokenInv
<1>7. ASSUME NEW f \in Flushers, CommitBatch(f) PROVE TokenInv'
  <2> DEFINE b == flush[f].at
  <2>1. /\ rowDone' = rowDone \union RowsOf(b) /\ marked' = marked \union flush[f].rows
        /\ repairAsked' = repairAsked \union (flush[f].rows \intersect Unpriced)
        /\ UNCHANGED <<rowBatch, events, hourly, hourlyTokens>>
        /\ flush[f].pc = "hourly" /\ flush[f].pc \in Busy
    BY <1>7 DEF CommitBatch, CurrentBatch, clickhouse, Busy
  <2>2. \A g \in Flushers : flush'[g] = flush[g] \/ flush'[g].pc = "next"
    BY <1>7, OutboxFacts DEF CommitBatch
  <2>3. flush[f].rows = RowsOf(b) /\ flush[f].rows \subseteq events
        /\ \A k \in flush[f].rows : hourly[k] = 1
    BY <2>1, OutboxFacts DEF OutboxInv, RowsVisible, TokenInv
  <2>4. DeliveredComplete'
    BY <2>1, <2>3 DEF TokenInv, DeliveredComplete
  <2> QED  BY <2>1, <2>2, <2>4 DEF TokenInv, RowsOf
<1>8. ASSUME NEW f \in Flushers, FlushFails(f) \/ FlusherDies(f) PROVE TokenInv'
  <2>1. UNCHANGED <<rowBatch, rowDone, events, hourly, hourlyTokens, marked, repairAsked>>
    BY <1>8 DEF FlushFails, FlusherDies, clickhouse, postgres
  <2>2. \A g \in Flushers : flush'[g] = flush[g] \/ flush'[g].pc = "idle"
    BY <1>8, OutboxFacts DEF FlushFails, FlusherDies, NoFlush
  <2> QED  BY <1>1, <2>1, <2>2
<1>9. ASSUME NEW b \in 1..MaxBatches, LeaseExpires(b) PROVE TokenInv'
  <2>1. UNCHANGED <<rowBatch, rowDone, events, hourly, hourlyTokens, marked, repairAsked, flush>>
    BY <1>9 DEF LeaseExpires, clickhouse
  <2> QED  BY <1>1, <2>1
<1>10. CASE UNCHANGED outboxVars
  BY <1>1, <1>10 DEF outboxVars
<1> QED  BY <1>2, <1>3, <1>4, <1>5, <1>6, <1>7, <1>8, <1>9, <1>10 DEF OutboxNext

(* So while the tokens are remembered nothing is ever counted twice.       *)
LEMMA TokenInvAlways == OutboxSpec /\ []TokensRemembered => []TokenInv
<1> QED  BY OutboxInvAlways, TokenInvInit, TokenInvNext, PTL DEF OutboxSpec

-----------------------------------------------------------------------------
(* Every reachable state of the outbox is well typed, for any keys,        *)
(* flushers and limits, however flushers fail.                             *)
THEOREM OutboxTyped == OutboxSpec => []OutboxTypeOK
<1>1. OutboxInv => OutboxTypeOK
  BY DEF OutboxInv
<1> QED  BY <1>1, OutboxInvAlways, PTL

(* flushUsageOutbox never leases a delivered batch again, whatever the     *)
(* late failure of a slow flusher makes of its status.                     *)
THEOREM DeliveredNeverLeased == OutboxSpec => DeliveredStays
<1> DEFINE Stays == \A b \in DOMAIN batches : batches[b].delivered => batches'[b].status # "inflight"
<1>1. ASSUME OutboxInv, OutboxInv', [OutboxNext]_outboxVars PROVE Stays
  <2> SUFFICES ASSUME NEW b \in DOMAIN batches, batches[b].delivered
               PROVE  batches'[b].status # "inflight"
    OBVIOUS
  <2>0. batches[b].status # "inflight" /\ batches \in [DOMAIN batches -> BatchRecord]
    BY <1>1, OutboxFacts, LenProperties DEF OutboxInv, DeliveredNotLeased
  <2>1. ASSUME batches' = batches PROVE batches'[b].status # "inflight"
    BY <2>0, <2>1
  <2>2. ASSUME NEW S \in SUBSET OutboxKeys, EnqueueEvents(S) PROVE batches'[b].status # "inflight"
    BY <1>1, <2>0, <2>2, EnqueueTyped
  <2>3. ASSUME NEW f \in Flushers, Claim(f) PROVE batches'[b].status # "inflight"
    <3>1. b \notin Oldest({c \in DOMAIN batches : Claimable(c)}, BatchLimit)
      BY DEF Oldest, Claimable
    <3> QED  BY <2>0, <2>3, <3>1 DEF Claim
  <2>4. ASSUME NEW f \in Flushers, CommitBatch(f) PROVE batches'[b].status # "inflight"
    BY <2>0, <2>4 DEF CommitBatch, Batch
  <2>5. ASSUME NEW f \in Flushers, FlushFails(f) PROVE batches'[b].status # "inflight"
    <3> DEFINE c == CurrentBatch(f)
    <3>1. batches' = [batches EXCEPT ![c].status = "pending", ![c].lease = "none"]
      BY <2>5 DEF FlushFails
    <3> HIDE DEF c
    <3> QED  BY <2>0, <3>1 DEF BatchRecord
  <2>6. ASSUME NEW c \in 1..MaxBatches, LeaseExpires(c) PROVE batches'[b].status # "inflight"
    BY <2>0, <2>6 DEF LeaseExpires, BatchRecord
  <2>7. \/ batches' = batches
        \/ \E S \in SUBSET OutboxKeys : EnqueueEvents(S)
        \/ \E f \in Flushers : Claim(f) \/ CommitBatch(f) \/ FlushFails(f)
        \/ \E c \in 1..MaxBatches : LeaseExpires(c)
    BY <1>1 DEF OutboxNext, outboxVars, ReadBatch, InsertEvents, InsertHourly, FlusherDies, postgres
  <2> QED  BY <2>1, <2>2, <2>3, <2>4, <2>5, <2>6, <2>7
<1>2. OutboxInv /\ OutboxInv' /\ [OutboxNext]_outboxVars => [Stays]_outboxVars
  BY <1>1
<1> QED  BY <1>2, OutboxInvAlways, PTL DEF OutboxSpec, DeliveredStays

-----------------------------------------------------------------------------
(* While all batches fit in the window the table forgets none: every       *)
(* counted key has its token there, and no token is there twice.           *)
AllRemembered ==
    /\ IsFiniteSet(ToSet(hourlyTokens)) /\ Cardinality(ToSet(hourlyTokens)) = Len(hourlyTokens)
    /\ \A k \in OutboxKeys : hourly[k] # 0 => rowBatch[k] \in ToSet(hourlyTokens)

(* A window as large as the number of batches forgets no token.            *)
LEMMA AllRememberedNext ==
    ASSUME MaxBatches <= Window, OutboxInv, AllRemembered, [OutboxNext]_outboxVars
    PROVE  AllRemembered'
<1>1. ASSUME UNCHANGED <<hourly, hourlyTokens>>, \A k \in OutboxKeys : rowBatch[k] # 0 => rowBatch'[k] = rowBatch[k]
      PROVE  AllRemembered'
  BY <1>1 DEF AllRemembered, OutboxInv, AnsweredRows
<1>2. ASSUME NEW S \in SUBSET OutboxKeys, EnqueueEvents(S) PROVE AllRemembered'
  <2>1. UNCHANGED <<hourly, hourlyTokens>>
    BY <1>2 DEF EnqueueEvents, clickhouse
  <2>2. \A k \in OutboxKeys : rowBatch[k] # 0 => rowBatch'[k] = rowBatch[k]
    BY <1>2, EnqueueTyped
  <2> QED  BY <1>1, <2>1, <2>2
<1>3. ASSUME NEW f \in Flushers, InsertHourly(f) PROVE AllRemembered'
  <2> DEFINE b == flush[f].at  T == 1..MaxBatches
  <2>1. rowBatch' = rowBatch /\ flush[f].pc \in Busy
    BY <1>3 DEF InsertHourly, postgres, Busy
  <2>2. b \in DOMAIN batches /\ flush[f].rows = RowsOf(b) /\ b \in T
    BY <2>1, OutboxFacts
  <2>3. CASE UNCHANGED <<hourly, hourlyTokens>>
    BY <1>1, <2>1, <2>3
  <2>4. CASE /\ b \notin ToSet(hourlyTokens)
             /\ hourly' = [k \in OutboxKeys |-> hourly[k] + IF k \in flush[f].rows THEN 1 ELSE 0]
             /\ hourlyTokens' = Remember(hourlyTokens, b)
    <3> DEFINE R == ToSet(hourlyTokens)
    <3>1. hourlyTokens \in Seq(T) /\ Len(hourlyTokens) <= Window /\ Len(hourlyTokens) \in Nat
      BY OutboxFacts, LenProperties
    <3>2. R \subseteq DOMAIN batches /\ DOMAIN batches = 1..Len(batches) /\ Len(batches) \in 0..MaxBatches
      BY OutboxFacts DEF OutboxInv, RowsVisible
    <3>3. IsFiniteSet(R) /\ Cardinality(R) = Len(hourlyTokens)
      BY DEF AllRemembered
    <3>4. IsFiniteSet(R \union {b}) /\ Cardinality(R \union {b}) = Len(hourlyTokens) + 1
      BY <2>4, <3>3, FS_AddElement
    <3>5. IsFiniteSet(1..Len(batches)) /\ Cardinality(1..Len(batches)) = Len(batches)
      <4>1. 1 \in Int /\ Len(batches) \in Int /\ (IF 1 > Len(batches) THEN 0 ELSE Len(batches) - 1 + 1) = Len(batches)
        BY <3>2, OutboxAssumption
      <4> QED  BY <4>1, FS_Interval
    <3>6. Cardinality(R \union {b}) <= Len(batches)
      BY <2>2, <3>2, <3>5, FS_Subset
    <3>7. Len(hourlyTokens) < Window
      BY <3>1, <3>2, <3>4, <3>6, OutboxAssumption
    <3> HIDE DEF b, T
    <3>8. hourlyTokens' = Append(hourlyTokens, b) /\ ToSet(hourlyTokens') = R \union {b}
      BY <2>2, <2>4, <3>1, <3>7, RememberFacts
    <3>9. Len(hourlyTokens') = Len(hourlyTokens) + 1
      BY <2>2, <3>1, <3>8, AppendProperties
    <3>10. \A k \in OutboxKeys : hourly'[k] = hourly[k] \/ rowBatch[k] = b
      <4>1. \A k \in OutboxKeys : k \notin flush[f].rows => hourly'[k] = hourly[k]
        BY <2>4, OutboxFacts
      <4> QED  BY <2>2, <4>1 DEF RowsOf
    <3> QED  BY <2>1, <3>4, <3>8, <3>9, <3>10 DEF AllRemembered
  <2> QED  BY <1>3, <2>3, <2>4 DEF InsertHourly, CurrentBatch
<1>4. \/ UNCHANGED <<hourly, hourlyTokens, rowBatch>>
      \/ \E S \in SUBSET OutboxKeys : EnqueueEvents(S)
      \/ \E f \in Flushers : InsertHourly(f)
  BY DEF OutboxNext, outboxVars, Claim, ReadBatch, InsertEvents, CommitBatch, FlushFails, FlusherDies,
         LeaseExpires, clickhouse, postgres
<1> QED  BY <1>1, <1>2, <1>3, <1>4

(* The hypothesis of the two theorems below is met by any behaviour whose  *)
(* batches fit in non_replicated_deduplication_window.                     *)
THEOREM RememberedWhileTheyFit ==
    ASSUME MaxBatches <= Window
    PROVE  OutboxSpec => []TokensRemembered
<1>1. OutboxInit => AllRemembered
  <2>1. OutboxInit => ToSet(hourlyTokens) = {} /\ Len(hourlyTokens) = 0
    BY DEF OutboxInit, ToSet
  <2> QED  BY <2>1, FS_EmptySet DEF OutboxInit, AllRemembered
<1>2. OutboxInv /\ AllRemembered /\ [OutboxNext]_outboxVars => AllRemembered'
  BY AllRememberedNext
<1>3. AllRemembered => TokensRemembered
  BY DEF AllRemembered, TokensRemembered
<1> QED  BY <1>1, <1>2, <1>3, OutboxInvAlways, PTL DEF OutboxSpec

(* The outbox implements UsageAccounting: however flushers fail, die or    *)
(* run out of their leases, an event is accepted once and counted at most  *)
(* once - as long as the table remembers the tokens of the batches that    *)
(* flushers hold.                                                          *)
THEOREM OutboxCountsOnce == OutboxSpec /\ []TokensRemembered => CountedOnce
<1>1. OutboxInit => Accounting!Init
  BY DEF OutboxInit, Accounting!Init
<1>2. ASSUME OutboxInv, TokenInv, TokensRemembered, [OutboxNext]_outboxVars
      PROVE  [Accounting!Next]_<<answered, hourly>>
  <2>1. ASSUME NEW S \in SUBSET OutboxKeys, EnqueueEvents(S) PROVE Accounting!Next
    <3> DEFINE new == {k \in S : rowBatch[k] = 0}
    <3>1. new # {} /\ answered' = answered \union new /\ hourly' = hourly
      BY <2>1 DEF EnqueueEvents, clickhouse
    <3>2. new \intersect answered = {} /\ new \in SUBSET OutboxKeys
      BY <1>2 DEF OutboxInv, AnsweredRows
    <3>3. Accounting!Accept(new)
      BY <3>1, <3>2 DEF Accounting!Accept
    <3> QED  BY <3>2, <3>3 DEF Accounting!Next
  <2>2. ASSUME NEW f \in Flushers, InsertHourly(f) PROVE [Accounting!Next]_<<answered, hourly>>
    <3> DEFINE R == flush[f].rows
    <3>0. answered' = answered
      BY <2>2 DEF InsertHourly
    <3>1. flush[f].at \in DOMAIN batches /\ R = RowsOf(flush[f].at)
      BY <1>2, <2>2, CountsForTheFirstTime
    <3>2. R \in SUBSET OutboxKeys /\ R \subseteq answered
      <4>1. flush[f].at # 0
        BY <1>2, <3>1, OutboxFacts
      <4> QED  BY <1>2, <3>1, <4>1 DEF RowsOf, OutboxInv, AnsweredRows
    <3>3. CASE UNCHANGED hourly
      BY <3>0, <3>3
    <3>4. CASE /\ R # {} /\ \A k \in R : hourly[k] = 0
               /\ \A k \in OutboxKeys : hourly'[k] = IF k \in R THEN 1 ELSE hourly[k]
      <4>1. hourly' \in [OutboxKeys -> Nat]
        BY <1>2, OutboxInvNext DEF OutboxInv, OutboxTypeOK
      <4>2. hourly' = [k \in OutboxKeys |-> IF k \in R THEN 1 ELSE hourly[k]]
        BY <3>4, <4>1
      <4>3. Accounting!Count(R)
        BY <3>0, <3>2, <3>4, <4>2 DEF Accounting!Count
      <4> QED  BY <3>2, <4>3 DEF Accounting!Next
    <3> QED  BY <1>2, <2>2, <3>3, <3>4, CountsForTheFirstTime
  <2>3. \/ UNCHANGED <<answered, hourly>>
        \/ \E S \in SUBSET OutboxKeys : EnqueueEvents(S)
        \/ \E f \in Flushers : InsertHourly(f)
    BY <1>2 DEF OutboxNext, outboxVars, Claim, ReadBatch, InsertEvents, CommitBatch, FlushFails, FlusherDies,
                LeaseExpires, clickhouse
  <2> QED  BY <2>1, <2>2, <2>3
<1> QED  BY <1>1, <1>2, OutboxInvAlways, TokenInvAlways, PTL DEF OutboxSpec, CountedOnce, Accounting!Spec

(* A delivered row is in both tables once, its bucket was marked and its   *)
(* repair asked for, also when several flushers worked on its batch - as   *)
(* long as the tokens of held batches are remembered.                      *)
THEOREM OutboxDeliversComplete == OutboxSpec /\ []TokensRemembered => []DeliveredComplete
<1>1. TokenInv => DeliveredComplete
  BY DEF TokenInv
<1> QED  BY <1>1, TokenInvAlways, PTL

(* Both without the hypothesis, when all batches fit in the window.        *)
THEOREM OutboxExactWhileTokensFit ==
    ASSUME MaxBatches <= Window
    PROVE  OutboxSpec => CountedOnce /\ []DeliveredComplete
<1> QED  BY RememberedWhileTheyFit, OutboxCountsOnce, OutboxDeliversComplete, PTL

-----------------------------------------------------------------------------
(* The utilization cache: counters, leases and entries.                    *)
Gens == CacheUsers \union {AllUsers, Org}
ChangeRecord == [pc : {"idle", "begun", "stored", "flushing", "inserted", "changed", "dead"},
                 of : CacheUsers \union {AllUsers, None}, batch : CacheUsers \union {None}]
LeaseRecord == [on : CacheUsers \union {AllUsers, None}, recent : BOOLEAN]

(* A read has all five fields, whatever it holds in them. *)
IsRead(r) == r = [pc |-> r.pc, subject |-> r.subject, key |-> r.key, bypass |-> r.bypass, view |-> r.view]

(* The types of the counters, leases, changes and reads. *)
CacheTyped ==
    /\ generation \in [Gens -> Nat]
    /\ leases \in [Leases -> LeaseRecord]
    /\ userUsage \in [CacheUsers -> Nat]
    /\ outbox \in [CacheUsers -> {"none", "pending", "inserted"}]
    /\ changer \in [Changers -> ChangeRecord]
    /\ reader = [p \in Pods |-> reader[p]] /\ \A p \in Pods : IsRead(reader[p])
    /\ cache = [p \in Pods |-> cache[p]]
    /\ \A p \in Pods : reader[p].pc = "computed" => DOMAIN reader[p].view = Covered(reader[p].subject)
    /\ \A p \in Pods : \A e \in cache[p] : DOMAIN e.view = Covered(e.subject)

(* A lease belongs to what its holder is doing: the one of a change is on  *)
(* the subject of the change, the one of a flush is there for as long as   *)
(* the flush at most, and a process at rest has none.                      *)
LeaseOf(c) ==
    /\ changer[c].pc = "idle" => changer[c] = NoChange
    /\ changer[c].pc \in {"begun", "changed"} => changer[c].of # None
    /\ changer[c].pc = "stored" => changer[c].of \in CacheUsers
    /\ changer[c].pc \in {"flushing", "inserted"} => changer[c].of # AllUsers
    /\ changer[c].batch \in CacheUsers <=> changer[c].pc \in {"flushing", "inserted"}
    /\ leases[<<c, "change">>].on \in {changer[c].of, None}
    /\ leases[<<c, "flush">>].on \in {AllUsers, None}
    /\ leases[<<c, "flush">>].on # None => changer[c].pc \in {"flushing", "inserted", "dead"}
LeaseInv == \A c \in Changers : LeaseOf(c)

-----------------------------------------------------------------------------
(* Two generations give a subject one key.                                 *)
SameKey(g, h, s) == g[s] = h[s] /\ (s # Org => g[AllUsers] = h[AllUsers])

(* A change of the user is under way: a lease announces it, or has been    *)
(* lost.                                                                   *)
OpenOf(u) == (\E l \in Leases : leases[l].on \in {u, AllUsers}) \/ Unannounced(u)

(* What is known of an entry, and of a view that was computed and may yet  *)
(* be stored: its key was the subject's once, and if it still is, the view *)
(* shows each user as it is or a change of that user is under way.         *)
Earlier == {g \in [Gens -> Nat] : \A s \in Gens : g[s] <= generation[s]}
Right(e) ==
    /\ e.subject \in Subjects
    /\ DOMAIN e.view = Covered(e.subject)
    /\ \E g \in Earlier :
          /\ e.key = CacheKey(g, e.subject)
          /\ SameKey(g, generation, e.subject) =>
                \A u \in Covered(e.subject) : e.view[u] = userUsage[u] \/ OpenOf(u)

Keyed(r) == r.subject \in Subjects /\ \E g \in Earlier : r.key = CacheKey(g, r.subject)

EntriesInv ==
    /\ \A p \in Pods : \A e \in cache[p] : Right(e)
    /\ \A p \in Pods : /\ reader[p].pc \in {"idle", "keyed", "computed"}
                       /\ reader[p].pc = "keyed" => Keyed(reader[p])
                       /\ reader[p].pc = "computed" => Right(reader[p])

CacheShape == CacheTyped /\ LeaseInv

-----------------------------------------------------------------------------
(* Keys are equal when the counters in them are.                           *)
LEMMA KeysEqual ==
    ASSUME NEW g, NEW h, NEW s
    PROVE  CacheKey(g, s) = CacheKey(h, s) <=> SameKey(g, h, s)
BY DEF CacheKey, SameKey

(* Collecting leases never moves a counter back, and moves those in the    *)
(* key of every subject whose lease it collects.                           *)
LEMMA CollectedMoves ==
    ASSUME CacheTyped
    PROVE  /\ Collected \in [Gens -> Nat]
           /\ \A s \in Gens : Collected[s] >= generation[s]
           /\ \A l \in StaleLeases :
                 /\ Collected[Org] > generation[Org]
                 /\ Collected[leases[l].on] > generation[leases[l].on]
<1>1. IsFiniteSet(Leases)
  <2>1. IsFiniteSet({"change", "flush"})
    <3>1. {"change", "flush"} = ({} \union {"change"}) \union {"flush"}
      OBVIOUS
    <3>2. IsFiniteSet({} \union {"change"})
      BY ONLY FS_EmptySet, FS_AddElement
    <3>3. IsFiniteSet(({} \union {"change"}) \union {"flush"})
      BY ONLY <3>2, FS_AddElement
    <3> QED  BY ONLY <3>1, <3>3
  <2>2. IsFiniteSet(Changers)
    BY CacheAssumption DEF CacheAssumption
  <2>3. IsFiniteSet(Changers \X {"change", "flush"})
    BY ONLY <2>1, <2>2, FS_Product
  <2> QED  BY ONLY <2>3 DEF Leases
<1> DEFINE Of(s) == {l \in StaleLeases : s = Org \/ leases[l].on = s}
<1>2. ASSUME NEW s \in Gens
      PROVE  /\ Cardinality(Of(s)) \in Nat
             /\ Of(s) # {} => Cardinality(Of(s)) > 0
  <2>1. IsFiniteSet(Of(s))
    BY <1>1, FS_Subset DEF StaleLeases
  <2> QED  BY <2>1, FS_CardinalityType, FS_EmptySet
<1>3. DOMAIN generation = Gens /\ \A s \in Gens : generation[s] \in Nat
  BY DEF CacheTyped
<1>4. Collected = [s \in Gens |-> generation[s] + Cardinality(Of(s))]
  BY <1>3 DEF Collected
<1>5. ASSUME NEW l \in StaleLeases
      PROVE  leases[l].on \in Gens /\ l \in Of(Org) /\ l \in Of(leases[l].on)
  BY DEF StaleLeases, CacheTyped, LeaseRecord, Gens
<1> HIDE DEF Of
<1>6. ASSUME NEW s \in Gens
      PROVE  Collected[s] \in Nat /\ Collected[s] >= generation[s]
             /\ (Of(s) # {} => Collected[s] > generation[s])
  BY <1>2, <1>3, <1>4
<1>7. Collected \in [Gens -> Nat]
  BY <1>4, <1>6
<1>8. Org \in Gens
  BY DEF Gens
<1>9. ASSUME NEW l \in StaleLeases
      PROVE  Collected[Org] > generation[Org] /\ Collected[leases[l].on] > generation[leases[l].on]
  BY <1>5, <1>6, <1>8
<1> QED  BY <1>6, <1>7, <1>9

(* What a step does to the views: where the key of a subject stays, the    *)
(* usage of a user stays and a change stays open, or one is open.          *)
Grows == generation' \in [Gens -> Nat] /\ \A s \in Gens : generation'[s] >= generation[s]
Announces ==
    \A s \in Subjects : SameKey(generation, generation', s) =>
        \A u \in Covered(s) : (userUsage'[u] = userUsage[u] /\ (OpenOf(u) => OpenOf(u)')) \/ OpenOf(u)'

(* Such a step keeps what is known of views.                               *)
LEMMA RightStays ==
    ASSUME CacheTyped, Grows, Announces, NEW e, Right(e)
    PROVE  Right(e)'
<1>1. PICK g \in Earlier :
          /\ e.key = CacheKey(g, e.subject)
          /\ SameKey(g, generation, e.subject) =>
                \A u \in Covered(e.subject) : e.view[u] = userUsage[u] \/ OpenOf(u)
  BY DEF Right
<1>2. g \in [Gens -> Nat] /\ (\A s \in Gens : g[s] <= generation[s]) /\ g \in Earlier'
  BY DEF Grows, Earlier, CacheTyped
<1>3. e.subject \in Subjects /\ e.subject \in Gens /\ AllUsers \in Gens /\ DOMAIN e.view = Covered(e.subject)
  BY DEF Right, Subjects, Gens
<1>4. ASSUME SameKey(g, generation', e.subject)
      PROVE  SameKey(g, generation, e.subject) /\ SameKey(generation, generation', e.subject)
  BY <1>2, <1>3, <1>4 DEF SameKey, Grows, CacheTyped
<1>5. ASSUME SameKey(g, generation', e.subject), NEW u \in Covered(e.subject)
      PROVE  e.view[u] = userUsage'[u] \/ OpenOf(u)'
  BY <1>1, <1>3, <1>4, <1>5 DEF Announces
<1> QED  BY <1>1, <1>2, <1>3, <1>5 DEF Right

(* A key that was the subject's once stays one.                            *)
LEMMA KeyedStays ==
    ASSUME CacheTyped, Grows, NEW e, Keyed(e)
    PROVE  Keyed(e)'
BY DEF Keyed, Grows, Earlier, CacheTyped

(* A step that leaves caches and readers alone, moves no counter back and  *)
(* announces what it does keeps the entries right.                         *)
LEMMA EntriesStay ==
    ASSUME CacheTyped, EntriesInv, Grows, Announces, UNCHANGED <<cache, reader>>
    PROVE  EntriesInv'
<1>1. ASSUME NEW p \in Pods, NEW e \in cache'[p]  PROVE Right(e)'
  BY <1>1, RightStays DEF EntriesInv
<1>2. ASSUME NEW p \in Pods
      PROVE  /\ reader'[p].pc \in {"idle", "keyed", "computed"}
             /\ reader'[p].pc = "keyed" => Keyed(reader[p])'
             /\ reader'[p].pc = "computed" => Right(reader[p])'
  <2>1. \A e : Right(e) => Right(e)'
    BY RightStays
  <2>2. \A e : Keyed(e) => Keyed(e)'
    BY KeyedStays
  <2> QED  BY <2>1, <2>2 DEF EntriesInv, Right, Keyed
<1> QED  BY <1>1, <1>2 DEF EntriesInv

-----------------------------------------------------------------------------
(* Counters that are raised stay numbers.                                  *)
LEMMA AdvancedGrows ==
    ASSUME NEW g \in [Gens -> Nat], NEW s \in Gens \ {Org}
    PROVE  /\ Advanced(g, s) \in [Gens -> Nat]
           /\ \A t \in Gens : Advanced(g, s)[t] >= g[t]
           /\ Advanced(g, s)[s] > g[s] /\ Advanced(g, s)[Org] > g[Org]
<1>1. Org \in Gens
  BY DEF Gens
<1> QED  BY <1>1 DEF Advanced

(* The trigger moves no counter back.                                      *)
LEMMA TriggeredGrows ==
    ASSUME CacheTyped, NEW u \in CacheUsers
    PROVE  Triggered(u) \in [Gens -> Nat] /\ \A s \in Gens : Triggered(u)[s] >= generation[s]
<1>1. u \in Gens \ {Org}
  BY CacheAssumption DEF Gens
<1>2. generation \in [Gens -> Nat]
  BY DEF CacheTyped
<1>3. Triggered(u) \in {generation, Advanced(generation, u)}
  BY DEF Triggered
<1> QED  BY <1>1, <1>2, <1>3, AdvancedGrows

(* A step of one changer: the record it gets, and the records and leases   *)
(* of the others.                                                          *)
Steps(c, n) == changer' = [changer EXCEPT ![c] = n]
Leased(c, kind, n) == leases' = [leases EXCEPT ![<<c, kind>>] = n]

(* A step of one changer changes its record only ...                       *)
LEMMA ChangerTyped ==
    ASSUME CacheTyped, NEW c \in Changers, NEW n \in ChangeRecord, Steps(c, n)
    PROVE  changer' \in [Changers -> ChangeRecord] /\ changer'[c] = n
           /\ \A d \in Changers : d # c => changer'[d] = changer[d]
BY DEF CacheTyped, Steps

(* ... and one lease.                                                      *)
LEMMA LeaseTyped ==
    ASSUME CacheTyped, NEW c \in Changers, NEW kind \in {"change", "flush"},
           NEW n \in LeaseRecord, Leased(c, kind, n)
    PROVE  leases' \in [Leases -> LeaseRecord] /\ leases'[<<c, kind>>] = n
           /\ \A l \in Leases : l # <<c, kind>> => leases'[l] = leases[l]
<1>1. <<c, kind>> \in Leases
  BY DEF Leases
<1> QED  BY <1>1 DEF CacheTyped, Leased

(* Moves changes the place of one changer.                                 *)
LEMMA MovesSteps ==
    ASSUME CacheTyped, NEW c \in Changers,
           NEW pc \in {"idle", "begun", "stored", "flushing", "inserted", "changed", "dead"}, Moves(c, pc)
    PROVE  \E n \in ChangeRecord :
              n = [pc |-> pc, of |-> changer[c].of, batch |-> changer[c].batch] /\ Steps(c, n)
<1>1. changer[c] \in ChangeRecord
  BY DEF CacheTyped
<1>2. ASSUME NEW v \in ChangeRecord, NEW n, n = [v EXCEPT !.pc = pc]
      PROVE  n = [pc |-> pc, of |-> v.of, batch |-> v.batch]
  BY <1>2 DEF ChangeRecord
<1> DEFINE n == [changer[c] EXCEPT !.pc = pc]
<1>3. n = [pc |-> pc, of |-> changer[c].of, batch |-> changer[c].batch]
  BY <1>1, <1>2
<1>4. Steps(c, n)
  BY DEF Moves, Steps
<1>5. n \in ChangeRecord
  BY <1>1, <1>3 DEF ChangeRecord
<1> QED  BY <1>3, <1>4, <1>5

(* The other changers and their leases stay as they are.                   *)
LEMMA LeaseParts ==
    ASSUME CacheTyped, LeaseInv, NEW c \in Changers,
           \A d \in Changers : d # c => changer'[d] = changer[d],
           \A l \in Leases : l \notin {<<c, "change">>, <<c, "flush">>} => leases'[l] = leases[l],
           LeaseOf(c)'
    PROVE  LeaseInv'
<1>1. ASSUME NEW d \in Changers, d # c  PROVE LeaseOf(d)'
  <2>1. /\ changer'[d] = changer[d] /\ leases'[<<d, "change">>] = leases[<<d, "change">>]
        /\ leases'[<<d, "flush">>] = leases[<<d, "flush">>]
    BY <1>1 DEF Leases
  <2> QED  BY <2>1 DEF LeaseInv, LeaseOf
<1> QED  BY <1>1 DEF LeaseInv, LeaseOf

(* The changer whose change of the user is no longer announced.            *)
LostBy(c, u) ==
    \/ changer[c].pc = "inserted" /\ changer[c].batch = u /\ leases[<<c, "flush">>].on = None
    \/ /\ changer[c].pc = "changed" /\ changer[c].of \in {u, AllUsers}
       /\ leases[<<c, "change">>].on = None

(* A change that is no longer announced is under way.                      *)
LEMMA LostOpens ==
    ASSUME NEW c \in Changers, NEW u, LostBy(c, u)'
    PROVE  OpenOf(u)'
BY DEF LostBy, OpenOf, Unannounced

(* What one changer does leaves the changes of the user open: the others   *)
(* stay, and its own leases and what it has lost.                          *)
OnlyChanger(c) ==
    /\ \A d \in Changers : d # c => changer'[d] = changer[d]
    /\ \A l \in Leases : l \notin {<<c, "change">>, <<c, "flush">>} => leases'[l] = leases[l]

(* A user's changes stay open when what this changer has of them does.     *)
LEMMA OpenStays ==
    ASSUME NEW c \in Changers, NEW u, OnlyChanger(c),
           \A kind \in {"change", "flush"} :
              leases[<<c, kind>>].on \in {u, AllUsers} => leases'[<<c, kind>>].on \in {u, AllUsers},
           LostBy(c, u) => LostBy(c, u)' \/ OpenOf(u)'
    PROVE  OpenOf(u) => OpenOf(u)'
<1>1. ASSUME NEW l \in Leases, leases[l].on \in {u, AllUsers}
      PROVE  leases'[l].on \in {u, AllUsers}
  <2>1. CASE l = <<c, "change">>
    BY <1>1, <2>1
  <2>2. CASE l = <<c, "flush">>
    BY <1>1, <2>2
  <2>3. CASE l \notin {<<c, "change">>, <<c, "flush">>}
    BY <1>1, <2>3 DEF OnlyChanger
  <2> QED  BY <2>1, <2>2, <2>3
<1>2. ASSUME NEW d \in Changers, LostBy(d, u)
      PROVE  LostBy(d, u)' \/ OpenOf(u)'
  <2>1. CASE d = c
    BY <1>2, <2>1
  <2>2. CASE d # c
    <3>1. /\ changer'[d] = changer[d] /\ leases'[<<d, "change">>] = leases[<<d, "change">>]
          /\ leases'[<<d, "flush">>] = leases[<<d, "flush">>]
      BY <2>2 DEF Leases, OnlyChanger
    <3> QED  BY <1>2, <3>1 DEF LostBy
  <2> QED  BY <2>1, <2>2
<1>3. ASSUME NEW d \in Changers, LostBy(d, u)'  PROVE OpenOf(u)'
  BY <1>3, LostOpens
<1> QED  BY <1>1, <1>2, <1>3 DEF OpenOf, Unannounced, LostBy

(* A step of one changer that moves no counter, and either changes no      *)
(* usage of a user and leaves its changes open, or opens one.              *)
LEMMA Announced ==
    ASSUME CacheTyped, UNCHANGED generation,
           \A u \in CacheUsers : \/ userUsage'[u] = userUsage[u] /\ (OpenOf(u) => OpenOf(u)')
                                 \/ OpenOf(u)'
    PROVE  Grows /\ Announces
<1>1. ASSUME NEW s \in Subjects  PROVE Covered(s) \subseteq CacheUsers
  BY DEF Covered, Subjects
<1> QED  BY <1>1 DEF Grows, Announces, CacheTyped

(* The begin of a change, which takes its lease.                           *)
LEMMA BeginChangeKeeps ==
    ASSUME CacheShape, NEW c \in Changers, NEW s \in CacheUsers \union {AllUsers}, BeginChange(c, s)
    PROVE  CacheShape' /\ (EntriesInv => EntriesInv')
<1>1. CacheTyped /\ LeaseInv /\ LeaseOf(c)
  BY DEF CacheShape, LeaseInv
<1> DEFINE m == [pc |-> "begun", of |-> s, batch |-> None]
           n == [on |-> s, recent |-> TRUE]
<1>2. m \in ChangeRecord /\ n \in LeaseRecord /\ s # None
  BY CacheAssumption DEF ChangeRecord, LeaseRecord, None
<1>3. Steps(c, m) /\ Leased(c, "change", n)
  BY DEF BeginChange, Steps, Leased
<1>4. /\ changer' \in [Changers -> ChangeRecord] /\ changer'[c] = m
      /\ leases' \in [Leases -> LeaseRecord] /\ leases'[<<c, "change">>] = n
      /\ leases'[<<c, "flush">>] = leases[<<c, "flush">>] /\ OnlyChanger(c)
  <2>1. <<c, "flush">> \in Leases /\ <<c, "flush">> # <<c, "change">>
    BY DEF Leases
  <2> HIDE DEF m, n
  <2> QED  BY <1>1, <1>2, <1>3, <2>1, ChangerTyped, LeaseTyped DEF OnlyChanger
<1>5. changer[c] = NoChange
  BY <1>1 DEF BeginChange, LeaseOf
<1>6. LeaseInv'
  <2>1. LeaseOf(c)'
    BY <1>1, <1>2, <1>4, <1>5, CacheAssumption DEF LeaseOf, NoChange, None
  <2> QED  BY <1>1, <1>4, <2>1, LeaseParts DEF OnlyChanger
<1>7. CacheTyped'
  BY <1>1, <1>4 DEF CacheTyped, BeginChange
<1>8. ASSUME NEW u \in CacheUsers  PROVE OpenOf(u) => OpenOf(u)'
  <2>1. leases[<<c, "change">>].on = None /\ None \notin {u, AllUsers}
    BY <1>1, <1>5, CacheAssumption DEF LeaseOf, NoChange, None
  <2>2. ~LostBy(c, u)
    BY <1>5 DEF LostBy, NoChange
  <2> QED  BY <1>4, <2>1, <2>2, OpenStays
<1>9. ASSUME EntriesInv  PROVE EntriesInv'
  BY <1>9, <1>1, <1>8, Announced, EntriesStay DEF BeginChange
<1> QED  BY <1>6, <1>7, <1>9 DEF CacheShape

(* The rows of a request, which are not yet shown.                         *)
LEMMA StoreBatchKeeps ==
    ASSUME CacheShape, NEW c \in Changers, StoreBatch(c)
    PROVE  CacheShape' /\ (EntriesInv => EntriesInv')
<1>1. CacheTyped /\ LeaseInv /\ LeaseOf(c)
  BY DEF CacheShape, LeaseInv
<1>2. PICK m \in ChangeRecord :
          m = [pc |-> "stored", of |-> changer[c].of, batch |-> changer[c].batch] /\ Steps(c, m)
  BY <1>1, MovesSteps DEF StoreBatch
<1>3. /\ changer' \in [Changers -> ChangeRecord] /\ changer'[c] = m /\ OnlyChanger(c) /\ leases' = leases
  BY <1>1, <1>2, ChangerTyped DEF OnlyChanger, StoreBatch
<1>4. changer[c].pc = "begun" /\ changer[c].of \in CacheUsers
  BY DEF StoreBatch
<1>5. LeaseInv'
  <2>1. LeaseOf(c)'
    BY <1>1, <1>2, <1>3, <1>4, CacheAssumption DEF LeaseOf
  <2> QED  BY <1>1, <1>3, <2>1, LeaseParts DEF OnlyChanger
<1>6. Grows
  <2>1. generation' \in {generation, Triggered(changer[c].of)}
    BY DEF StoreBatch
  <2> QED  BY <1>1, <1>4, <2>1, TriggeredGrows DEF Grows, CacheTyped
<1>7. CacheTyped'
  <2>1. outbox' \in [CacheUsers -> {"none", "pending", "inserted"}]
    <3>1. outbox' \in {outbox, [outbox EXCEPT ![changer[c].of] = "pending"]}
      BY DEF StoreBatch
    <3> QED  BY <1>1, <3>1 DEF CacheTyped
  <2> QED  BY <1>1, <1>3, <1>6, <2>1 DEF CacheTyped, StoreBatch, Grows
<1>8. ASSUME NEW u \in CacheUsers  PROVE OpenOf(u) => OpenOf(u)'
  <2>1. ~LostBy(c, u)
    BY <1>4 DEF LostBy
  <2> QED  BY <1>3, <2>1, OpenStays
<1>9. Announces
  <2>1. ASSUME NEW s \in Subjects  PROVE Covered(s) \subseteq CacheUsers
    BY DEF Covered, Subjects
  <2> QED  BY <1>8, <2>1 DEF Announces, StoreBatch
<1>10. ASSUME EntriesInv  PROVE EntriesInv'
  BY <1>10, <1>1, <1>6, <1>9, EntriesStay DEF StoreBatch
<1> QED  BY <1>5, <1>7, <1>10 DEF CacheShape

(* A change of the usage, under the lease of its changer.                  *)
LEMMA ChangeUsageKeeps ==
    ASSUME CacheShape, NEW c \in Changers, NEW users \in SUBSET CacheUsers, ChangeUsage(c, users)
    PROVE  CacheShape' /\ (EntriesInv => EntriesInv')
<1>1. CacheTyped /\ LeaseInv /\ LeaseOf(c)
  BY DEF CacheShape, LeaseInv
<1>2. PICK m \in ChangeRecord :
          m = [pc |-> "changed", of |-> changer[c].of, batch |-> changer[c].batch] /\ Steps(c, m)
  BY <1>1, MovesSteps DEF ChangeUsage
<1>3. /\ changer' \in [Changers -> ChangeRecord] /\ changer'[c] = m /\ OnlyChanger(c) /\ leases' = leases
  BY <1>1, <1>2, ChangerTyped DEF OnlyChanger, ChangeUsage
<1>4. changer[c].pc = "begun" /\ changer[c].of # None /\ changer[c] \in ChangeRecord
  BY <1>1 DEF ChangeUsage, LeaseOf, CacheTyped
<1>5. LeaseInv'
  <2>1. LeaseOf(c)'
    BY <1>1, <1>2, <1>3, <1>4, CacheAssumption DEF LeaseOf
  <2> QED  BY <1>1, <1>3, <2>1, LeaseParts DEF OnlyChanger
<1>6. userUsage' = [u \in CacheUsers |-> IF u \in users THEN userUsage[u] + 1 ELSE userUsage[u]]
  BY DEF ChangeUsage
<1>7. CacheTyped'
  BY <1>1, <1>3, <1>6 DEF CacheTyped, ChangeUsage
<1>8. ASSUME NEW u \in CacheUsers  PROVE (userUsage'[u] = userUsage[u] /\ (OpenOf(u) => OpenOf(u)')) \/ OpenOf(u)'
  <2>1. CASE u \in users
    <3>1. changer[c].of \in {u, AllUsers}
      BY <1>4, <2>1 DEF ChangeUsage, ChangeRecord
    <3>2. CASE leases[<<c, "change">>].on = None
      <4>1. LostBy(c, u)'
        BY <1>2, <1>3, <3>1, <3>2 DEF LostBy
      <4> QED  BY <4>1, LostOpens
    <3>3. CASE leases[<<c, "change">>].on = changer[c].of
      BY <1>3, <3>1, <3>3 DEF OpenOf, Leases
    <3> QED  BY <1>1, <3>2, <3>3 DEF LeaseOf
  <2>2. CASE u \notin users
    <3>1. ~LostBy(c, u)
      BY <1>4 DEF LostBy
    <3> QED  BY <1>3, <1>6, <2>2, <3>1, OpenStays
  <2> QED  BY <2>1, <2>2
<1>9. ASSUME EntriesInv  PROVE EntriesInv'
  BY <1>9, <1>1, <1>8, Announced, EntriesStay DEF ChangeUsage
<1> QED  BY <1>5, <1>7, <1>9 DEF CacheShape

(* The begin of a flush, which takes a lease on all users.                 *)
LEMMA BeginFlushKeeps ==
    ASSUME CacheShape, NEW c \in Changers, NEW b \in CacheUsers, BeginFlush(c, b)
    PROVE  CacheShape' /\ (EntriesInv => EntriesInv')
<1>1. CacheTyped /\ LeaseInv /\ LeaseOf(c)
  BY DEF CacheShape, LeaseInv
<1> DEFINE m == [pc |-> "flushing", of |-> changer[c].of, batch |-> b]
           n == [on |-> AllUsers, recent |-> TRUE]
<1>2. changer[c] \in ChangeRecord /\ changer[c].pc \in {"idle", "stored"}
  BY <1>1 DEF BeginFlush, CacheTyped
<1>3. m \in ChangeRecord /\ n \in LeaseRecord
  BY <1>2 DEF ChangeRecord, LeaseRecord
<1>4. Steps(c, m) /\ Leased(c, "flush", n)
  <2>1. ASSUME NEW v \in ChangeRecord, NEW w, w = [v EXCEPT !.pc = "flushing", !.batch = b]
        PROVE  w = [pc |-> "flushing", of |-> v.of, batch |-> b]
    BY <2>1 DEF ChangeRecord
  <2>2. PICK w : w = [changer[c] EXCEPT !.pc = "flushing", !.batch = b]
    OBVIOUS
  <2>3. w = m
    BY <1>2, <2>1, <2>2
  <2>4. changer' = [changer EXCEPT ![c] = w]
    BY <2>2 DEF BeginFlush
  <2> QED  BY <2>3, <2>4 DEF BeginFlush, Steps, Leased
<1>5. /\ changer' \in [Changers -> ChangeRecord] /\ changer'[c] = m
      /\ leases' \in [Leases -> LeaseRecord] /\ leases'[<<c, "flush">>] = n
      /\ leases'[<<c, "change">>] = leases[<<c, "change">>] /\ OnlyChanger(c)
  <2>1. <<c, "change">> \in Leases /\ <<c, "flush">> # <<c, "change">>
    BY DEF Leases
  <2> HIDE DEF m, n
  <2> QED  BY <1>1, <1>3, <1>4, <2>1, ChangerTyped, LeaseTyped DEF OnlyChanger
<1>6. LeaseInv'
  <2>1. LeaseOf(c)'
    BY <1>1, <1>2, <1>5, CacheAssumption DEF LeaseOf, NoChange, None
  <2> QED  BY <1>1, <1>5, <2>1, LeaseParts DEF OnlyChanger
<1>7. CacheTyped'
  BY <1>1, <1>5 DEF CacheTyped, BeginFlush
<1>8. ASSUME NEW u \in CacheUsers  PROVE OpenOf(u) => OpenOf(u)'
  <2>1. ~LostBy(c, u)
    BY <1>2 DEF LostBy
  <2>2. leases'[<<c, "flush">>].on \in {u, AllUsers}
    BY <1>5
  <2> QED  BY <1>5, <2>1, <2>2, OpenStays
<1>9. ASSUME EntriesInv  PROVE EntriesInv'
  BY <1>9, <1>1, <1>8, Announced, EntriesStay DEF BeginFlush
<1> QED  BY <1>6, <1>7, <1>9 DEF CacheShape

(* A request that has nothing to flush.                                    *)
LEMMA SkipFlushKeeps ==
    ASSUME CacheShape, NEW c \in Changers, SkipFlush(c)
    PROVE  CacheShape' /\ (EntriesInv => EntriesInv')
<1>1. CacheTyped /\ LeaseInv /\ LeaseOf(c)
  BY DEF CacheShape, LeaseInv
<1>2. PICK m \in ChangeRecord :
          m = [pc |-> "changed", of |-> changer[c].of, batch |-> changer[c].batch] /\ Steps(c, m)
  BY <1>1, MovesSteps DEF SkipFlush
<1>3. /\ changer' \in [Changers -> ChangeRecord] /\ changer'[c] = m /\ OnlyChanger(c) /\ leases' = leases
  BY <1>1, <1>2, ChangerTyped DEF OnlyChanger, SkipFlush
<1>4. changer[c].pc = "stored"
  BY DEF SkipFlush
<1>5. LeaseInv'
  <2>1. LeaseOf(c)'
    BY <1>1, <1>2, <1>3, <1>4, CacheAssumption DEF LeaseOf, None
  <2> QED  BY <1>1, <1>3, <2>1, LeaseParts DEF OnlyChanger
<1>6. CacheTyped'
  BY <1>1, <1>3 DEF CacheTyped, SkipFlush
<1>7. ASSUME NEW u \in CacheUsers  PROVE OpenOf(u) => OpenOf(u)'
  <2>1. ~LostBy(c, u)
    BY <1>4 DEF LostBy
  <2> QED  BY <1>3, <2>1, OpenStays
<1>8. ASSUME EntriesInv  PROVE EntriesInv'
  BY <1>8, <1>1, <1>7, Announced, EntriesStay DEF SkipFlush
<1> QED  BY <1>5, <1>6, <1>8 DEF CacheShape

(* The insert of a batch, under the lease on all users.                    *)
LEMMA InsertBatchKeeps ==
    ASSUME CacheShape, NEW c \in Changers, InsertBatch(c)
    PROVE  CacheShape' /\ (EntriesInv => EntriesInv')
<1>1. CacheTyped /\ LeaseInv /\ LeaseOf(c)
  BY DEF CacheShape, LeaseInv
<1>2. PICK m \in ChangeRecord :
          m = [pc |-> "inserted", of |-> changer[c].of, batch |-> changer[c].batch] /\ Steps(c, m)
  BY <1>1, MovesSteps DEF InsertBatch
<1>3. /\ changer' \in [Changers -> ChangeRecord] /\ changer'[c] = m /\ OnlyChanger(c) /\ leases' = leases
  BY <1>1, <1>2, ChangerTyped DEF OnlyChanger, InsertBatch
<1>4. changer[c].pc = "flushing" /\ changer[c].batch \in CacheUsers
  BY <1>1 DEF InsertBatch, LeaseOf
<1>5. LeaseInv'
  <2>1. LeaseOf(c)'
    BY <1>1, <1>2, <1>3, <1>4, CacheAssumption DEF LeaseOf
  <2> QED  BY <1>1, <1>3, <2>1, LeaseParts DEF OnlyChanger
<1>6. /\ userUsage' \in [CacheUsers -> Nat]
      /\ \A u \in CacheUsers : u # changer[c].batch => userUsage'[u] = userUsage[u]
  <2> DEFINE b == changer[c].batch
             x == IF outbox[b] = "pending" THEN userUsage[b] + 1 ELSE userUsage[b]
  <2>1. userUsage' = [userUsage EXCEPT ![b] = x] /\ x \in Nat
    BY <1>1, <1>4 DEF InsertBatch, CacheTyped
  <2> QED  BY <1>1, <1>4, <2>1 DEF CacheTyped
<1>7. CacheTyped'
  BY <1>1, <1>3, <1>4, <1>6 DEF CacheTyped, InsertBatch
<1>8. ASSUME NEW u \in CacheUsers  PROVE (userUsage'[u] = userUsage[u] /\ (OpenOf(u) => OpenOf(u)')) \/ OpenOf(u)'
  <2>1. CASE u = changer[c].batch
    <3>1. CASE leases[<<c, "flush">>].on = None
      <4>1. LostBy(c, u)'
        BY <1>2, <1>3, <2>1, <3>1 DEF LostBy
      <4> QED  BY <4>1, LostOpens
    <3>2. CASE leases[<<c, "flush">>].on = AllUsers
      BY <1>3, <3>2 DEF OpenOf, Leases
    <3> QED  BY <1>1, <3>1, <3>2 DEF LeaseOf
  <2>2. CASE u # changer[c].batch
    <3>1. ~LostBy(c, u)
      BY <1>4 DEF LostBy
    <3> QED  BY <1>3, <1>6, <2>2, <3>1, OpenStays
  <2> QED  BY <2>1, <2>2
<1>9. ASSUME EntriesInv  PROVE EntriesInv'
  BY <1>9, <1>1, <1>8, Announced, EntriesStay DEF InsertBatch
<1> QED  BY <1>5, <1>7, <1>9 DEF CacheShape

(* The end of a flush: a counter of every key moves on.                    *)
LEMMA LeaseEnds ==
    ASSUME CacheShape, NEW c \in Changers, changer[c].pc \in {"flushing", "inserted"},
           NEW g \in [Gens -> Nat], \A s \in Gens : g[s] >= generation[s],
           generation' = Advanced(g, AllUsers),
           leases' = [leases EXCEPT ![<<c, "flush">>] = NoLease],
           changer' = [changer EXCEPT ![c] = AfterFlush(c)],
           outbox' \in [CacheUsers -> {"none", "pending", "inserted"}],
           UNCHANGED <<userUsage, reader, cache>>
    PROVE  CacheShape' /\ (EntriesInv => EntriesInv')
<1>1. CacheTyped /\ LeaseInv /\ LeaseOf(c)
  BY DEF CacheShape, LeaseInv
<1>2. changer[c] \in ChangeRecord
  BY <1>1 DEF CacheTyped
<1>3. PICK m : m = AfterFlush(c)
  OBVIOUS
<1>4. m = IF changer[c].of = None THEN NoChange ELSE [pc |-> "changed", of |-> changer[c].of, batch |-> None]
  <2>1. ASSUME NEW v \in ChangeRecord, NEW w, w = [v EXCEPT !.pc = "changed", !.batch = None]
        PROVE  w = [pc |-> "changed", of |-> v.of, batch |-> None]
    BY <2>1 DEF ChangeRecord
  <2> QED  BY <1>2, <1>3, <2>1 DEF AfterFlush
<1>5. m \in ChangeRecord /\ NoLease \in LeaseRecord
  BY <1>2, <1>4 DEF ChangeRecord, LeaseRecord, NoChange, NoLease
<1>6. /\ changer' \in [Changers -> ChangeRecord] /\ changer'[c] = m
      /\ leases' \in [Leases -> LeaseRecord] /\ leases'[<<c, "flush">>] = NoLease
      /\ leases'[<<c, "change">>] = leases[<<c, "change">>] /\ OnlyChanger(c)
  <2>1. <<c, "change">> \in Leases /\ <<c, "flush">> # <<c, "change">>
    BY DEF Leases
  <2>2. Steps(c, m) /\ Leased(c, "flush", NoLease)
    BY <1>3 DEF Steps, Leased
  <2> QED  BY <1>1, <1>5, <2>1, <2>2, ChangerTyped, LeaseTyped DEF OnlyChanger
<1>7. LeaseInv'
  <2>1. LeaseOf(c)'
    BY <1>1, <1>2, <1>4, <1>6, CacheAssumption DEF LeaseOf, NoChange, None, NoLease, ChangeRecord
  <2> QED  BY <1>1, <1>6, <2>1, LeaseParts DEF OnlyChanger
<1>8. /\ Grows
      /\ generation'[AllUsers] > generation[AllUsers] /\ generation'[Org] > generation[Org]
  <2>1. AllUsers \in Gens \ {Org} /\ Org \in Gens
    BY CacheAssumption DEF Gens
  <2>2. /\ generation' \in [Gens -> Nat]
        /\ \A t \in Gens : generation'[t] >= g[t]
        /\ generation'[AllUsers] > g[AllUsers] /\ generation'[Org] > g[Org]
    BY <2>1, AdvancedGrows
  <2>3. generation \in [Gens -> Nat]
    BY <1>1 DEF CacheTyped
  <2> QED  BY <2>1, <2>2, <2>3 DEF Grows
<1>9. Announces
  <2>1. generation \in [Gens -> Nat] /\ AllUsers \in Gens /\ Org \in Gens
    BY <1>1 DEF CacheTyped, Gens
  <2>2. ASSUME NEW s \in Subjects  PROVE ~SameKey(generation, generation', s)
    BY <1>8, <2>1 DEF SameKey, Grows
  <2> QED  BY <2>2 DEF Announces
<1>10. CacheTyped'
  BY <1>1, <1>6, <1>8 DEF CacheTyped, Grows
<1>11. ASSUME EntriesInv  PROVE EntriesInv'
  BY <1>11, <1>1, <1>8, <1>9, EntriesStay
<1> QED  BY <1>7, <1>10, <1>11 DEF CacheShape

(* The delivery of a batch, which raises the counters.                     *)
LEMMA MarkDeliveredKeeps ==
    ASSUME CacheShape, NEW c \in Changers, MarkDelivered(c)
    PROVE  CacheShape' /\ (EntriesInv => EntriesInv')
<1>1. changer[c].batch \in CacheUsers /\ CacheTyped
  BY DEF MarkDelivered, CacheShape, LeaseInv, LeaseOf
<1>2. PICK g : g = Triggered(changer[c].batch)
  OBVIOUS
<1>3. g \in [Gens -> Nat] /\ \A s \in Gens : g[s] >= generation[s]
  BY <1>1, <1>2, TriggeredGrows
<1>4. outbox' \in [CacheUsers -> {"none", "pending", "inserted"}]
  BY <1>1 DEF CacheTyped, MarkDelivered
<1> QED  BY <1>2, <1>3, <1>4, LeaseEnds DEF MarkDelivered

(* A flush that fails, which raises them too.                              *)
LEMMA BatchFailsKeeps ==
    ASSUME CacheShape, NEW c \in Changers, BatchFails(c)
    PROVE  CacheShape' /\ (EntriesInv => EntriesInv')
<1>1. generation \in [Gens -> Nat] /\ outbox' \in [CacheUsers -> {"none", "pending", "inserted"}]
  BY DEF CacheShape, CacheTyped, BatchFails
<1>2. \A s \in Gens : generation[s] >= generation[s]
  BY <1>1
<1> QED  BY <1>1, <1>2, LeaseEnds DEF BatchFails

(* The end of a change, which raises them before its lease is gone.        *)
LEMMA FinishChangeKeeps ==
    ASSUME CacheShape, NEW c \in Changers, FinishChange(c)
    PROVE  CacheShape' /\ (EntriesInv => EntriesInv')
<1>1. CacheTyped /\ LeaseInv /\ LeaseOf(c)
  BY DEF CacheShape, LeaseInv
<1>2. /\ changer[c] \in ChangeRecord /\ changer[c].pc = "changed" /\ changer[c].of # None
  BY <1>1 DEF CacheTyped, FinishChange, LeaseOf
<1>3. NoChange \in ChangeRecord /\ NoLease \in LeaseRecord /\ Steps(c, NoChange) /\ Leased(c, "change", NoLease)
  BY DEF ChangeRecord, LeaseRecord, NoChange, NoLease, FinishChange, Steps, Leased
<1>4. /\ changer' \in [Changers -> ChangeRecord] /\ changer'[c] = NoChange
      /\ leases' \in [Leases -> LeaseRecord] /\ leases'[<<c, "change">>] = NoLease
      /\ leases'[<<c, "flush">>] = leases[<<c, "flush">>] /\ OnlyChanger(c)
  <2>1. <<c, "flush">> \in Leases /\ <<c, "flush">> # <<c, "change">>
    BY DEF Leases
  <2> QED  BY <1>1, <1>3, <2>1, ChangerTyped, LeaseTyped DEF OnlyChanger
<1>5. LeaseInv'
  <2>1. LeaseOf(c)'
    BY <1>1, <1>2, <1>4, CacheAssumption DEF LeaseOf, NoChange, None, NoLease
  <2> QED  BY <1>1, <1>4, <2>1, LeaseParts DEF OnlyChanger
<1> DEFINE s == changer[c].of
<1>6. s \in Gens \ {Org} /\ s \in CacheUsers \union {AllUsers}
  BY <1>2, CacheAssumption DEF ChangeRecord, Gens
<1>7. /\ Grows /\ generation \in [Gens -> Nat]
      /\ generation'[s] > generation[s] /\ generation'[Org] > generation[Org]
  <2>1. generation \in [Gens -> Nat]
    BY <1>1 DEF CacheTyped
  <2> QED  BY <1>6, <2>1, AdvancedGrows DEF Grows, FinishChange
<1>8. CacheTyped'
  BY <1>1, <1>4, <1>7 DEF CacheTyped, FinishChange, Grows
<1>9. Announces
  <2> SUFFICES ASSUME NEW t \in Subjects, SameKey(generation, generation', t), NEW u \in Covered(t)
               PROVE  userUsage'[u] = userUsage[u] /\ (OpenOf(u) => OpenOf(u)')
    BY DEF Announces
  <2>1. t # Org /\ u = t
    BY <1>6, <1>7 DEF SameKey, Covered, Gens
  <2>2. s \notin {u, AllUsers}
    <3>1. t \in Gens /\ AllUsers \in Gens
      BY DEF Subjects, Gens
    <3> QED  BY <1>7, <2>1, <3>1 DEF SameKey
  <2>3. ~LostBy(c, u) /\ leases[<<c, "change">>].on \notin {u, AllUsers}
    <3>1. u \in CacheUsers
      BY <2>1 DEF Subjects
    <3> QED  BY <1>1, <1>2, <2>2, <3>1, CacheAssumption DEF LostBy, LeaseOf, None
  <2>4. OpenOf(u) => OpenOf(u)'
    BY <1>4, <2>3, OpenStays
  <2> QED  BY <2>4 DEF FinishChange
<1>10. ASSUME EntriesInv  PROVE EntriesInv'
  BY <1>10, <1>1, <1>7, <1>9, EntriesStay DEF FinishChange
<1> QED  BY <1>5, <1>8, <1>10 DEF CacheShape

(* No process dies between a change of the usage and its end while the     *)
(* lease that announces the change is lost.                                *)
DiesAnnounced ==
    \A c \in Changers : changer'[c].pc = "dead" =>
        /\ changer[c].pc = "changed" => leases[<<c, "change">>].on # None
        /\ changer[c].pc = "inserted" => leases[<<c, "flush">>].on # None

(* A death, which leaves the leases to be collected.                       *)
LEMMA ChangerDiesKeeps ==
    ASSUME CacheShape, NEW c \in Changers, ChangerDies(c)
    PROVE  CacheShape' /\ (EntriesInv /\ DiesAnnounced => EntriesInv')
<1>1. CacheTyped /\ LeaseInv /\ LeaseOf(c)
  BY DEF CacheShape, LeaseInv
<1> DEFINE m == [pc |-> "dead", of |-> changer[c].of, batch |-> None]
<1>2. changer[c] \in ChangeRecord
  BY <1>1 DEF CacheTyped
<1>3. m \in ChangeRecord /\ Steps(c, m)
  <2>1. ASSUME NEW v \in ChangeRecord, NEW w, w = [v EXCEPT !.pc = "dead", !.batch = None]
        PROVE  w = [pc |-> "dead", of |-> v.of, batch |-> None]
    BY <2>1 DEF ChangeRecord
  <2>2. PICK w : w = [changer[c] EXCEPT !.pc = "dead", !.batch = None]
    OBVIOUS
  <2>3. w = m
    BY <1>2, <2>1, <2>2
  <2>4. changer' = [changer EXCEPT ![c] = w]
    BY <2>2 DEF ChangerDies
  <2>5. m \in ChangeRecord
    BY <1>2 DEF ChangeRecord
  <2> QED  BY <2>3, <2>4, <2>5 DEF Steps
<1>4. /\ changer' \in [Changers -> ChangeRecord] /\ changer'[c] = m /\ leases' = leases /\ OnlyChanger(c)
  <2> HIDE DEF m
  <2> QED  BY <1>1, <1>3, ChangerTyped DEF OnlyChanger, ChangerDies
<1>5. LeaseInv'
  <2>1. LeaseOf(c)'
    BY <1>1, <1>4, CacheAssumption DEF LeaseOf, None
  <2> QED  BY <1>1, <1>4, <2>1, LeaseParts DEF OnlyChanger
<1>6. CacheTyped'
  BY <1>1, <1>4 DEF CacheTyped, ChangerDies
<1>7. ASSUME DiesAnnounced, NEW u \in CacheUsers  PROVE OpenOf(u) => OpenOf(u)'
  <2>1. ~LostBy(c, u)
    BY <1>4, <1>7 DEF LostBy, DiesAnnounced
  <2> QED  BY <1>4, <2>1, OpenStays
<1>8. ASSUME EntriesInv, DiesAnnounced  PROVE EntriesInv'
  BY <1>8, <1>1, <1>7, Announced, EntriesStay DEF ChangerDies
<1> QED  BY <1>5, <1>6, <1>8 DEF CacheShape

(* A lease without heartbeats is still one.                                *)
LEMMA HeartbeatStaleKeeps ==
    ASSUME CacheShape, NEW l \in Leases, HeartbeatStale(l)
    PROVE  CacheShape' /\ (EntriesInv => EntriesInv')
<1>1. CacheTyped /\ LeaseInv
  BY DEF CacheShape
<1>2. leases' \in [Leases -> LeaseRecord] /\ \A k \in Leases : leases'[k].on = leases[k].on
  <2>1. leases[l] \in LeaseRecord
    BY <1>1 DEF CacheTyped
  <2>2. ASSUME NEW v \in LeaseRecord, NEW w, w = [v EXCEPT !.recent = FALSE]
        PROVE  w \in LeaseRecord /\ w.on = v.on
    BY <2>2 DEF LeaseRecord
  <2>3. PICK w : w = [leases[l] EXCEPT !.recent = FALSE]
    OBVIOUS
  <2>4. w \in LeaseRecord /\ w.on = leases[l].on
    BY <2>1, <2>2, <2>3
  <2>5. leases' = [leases EXCEPT ![l] = w]
    BY <2>3 DEF HeartbeatStale
  <2> QED  BY <1>1, <2>4, <2>5 DEF CacheTyped
<1>3. CacheTyped'
  BY <1>1, <1>2 DEF CacheTyped, HeartbeatStale
<1>4. \A c \in Changers : <<c, "change">> \in Leases /\ <<c, "flush">> \in Leases
  BY DEF Leases
<1>5. LeaseInv'
  <2>1. ASSUME NEW c \in Changers  PROVE LeaseOf(c)'
    BY <1>1, <1>2, <1>4 DEF LeaseInv, LeaseOf, HeartbeatStale
  <2> QED  BY <2>1 DEF LeaseInv
<1>6. ASSUME NEW u \in CacheUsers, OpenOf(u)  PROVE OpenOf(u)'
  <2>1. CASE \E k \in Leases : leases[k].on \in {u, AllUsers}
    BY <1>2, <2>1 DEF OpenOf
  <2>2. CASE Unannounced(u)
    <3>1. PICK c \in Changers : LostBy(c, u)
      BY <2>2 DEF Unannounced, LostBy
    <3>2. LostBy(c, u)'
      BY <1>2, <1>4, <3>1 DEF LostBy, HeartbeatStale
    <3> QED  BY <3>2, LostOpens
  <2> QED  BY <1>6, <2>1, <2>2 DEF OpenOf
<1>7. ASSUME EntriesInv  PROVE EntriesInv'
  BY <1>7, <1>1, <1>6, Announced, EntriesStay DEF HeartbeatStale
<1> QED  BY <1>3, <1>5, <1>7 DEF CacheShape

-----------------------------------------------------------------------------
(* Readers.                                                                *)
Reads(p, n) == reader' = [reader EXCEPT ![p] = n]

(* A step of one reader changes its read only.                             *)
LEMMA ReadsTyped ==
    ASSUME CacheTyped, NEW p \in Pods, NEW n, IsRead(n), Reads(p, n)
    PROVE  /\ reader' = [q \in Pods |-> reader'[q]] /\ \A q \in Pods : IsRead(reader'[q])
           /\ reader'[p] = n /\ \A q \in Pods : q # p => reader'[q] = reader[q]
<1>1. reader = [q \in Pods |-> reader[q]] /\ \A q \in Pods : IsRead(reader[q])
  BY DEF CacheTyped
<1>2. reader'[p] = n /\ \A q \in Pods : q # p => reader'[q] = reader[q]
  BY <1>1 DEF Reads
<1>3. reader' = [q \in Pods |-> reader'[q]]
  BY <1>1 DEF Reads
<1>4. ASSUME NEW q \in Pods  PROVE IsRead(reader'[q])
  BY <1>1, <1>2 DEF IsRead
<1> QED  BY <1>2, <1>3, <1>4

(* A step of one reader that moves no counter back and announces what it   *)
(* does, leaves the other readers alone and adds to its cache right        *)
(* entries only.                                                           *)
LEMMA ReaderSteps ==
    ASSUME CacheTyped, EntriesInv, Grows, Announces, NEW p \in Pods,
           \A q \in Pods : q # p => reader'[q] = reader[q] /\ cache'[q] = cache[q],
           reader'[p].pc \in {"idle", "keyed", "computed"},
           reader'[p].pc = "keyed" => Keyed(reader[p])',
           reader'[p].pc = "computed" => Right(reader[p])',
           \A e \in cache'[p] : Right(e)'
    PROVE  EntriesInv'
<1>1. \A e : (Right(e) => Right(e)') /\ (Keyed(e) => Keyed(e)')
  BY RightStays, KeyedStays
<1>2. ASSUME NEW q \in Pods, NEW e \in cache'[q]  PROVE Right(e)'
  <2>1. CASE q = p
    BY <1>2, <2>1
  <2>2. CASE q # p
    BY <1>1, <1>2, <2>2 DEF EntriesInv
  <2> QED  BY <2>1, <2>2
<1>3. ASSUME NEW q \in Pods
      PROVE  /\ reader'[q].pc \in {"idle", "keyed", "computed"}
             /\ reader'[q].pc = "keyed" => Keyed(reader[q])'
             /\ reader'[q].pc = "computed" => Right(reader[q])'
  <2>1. CASE q = p
    BY <2>1
  <2>2. CASE q # p
    <3>1. reader'[q] = reader[q]
      BY <2>2
    <3>2. reader[q].pc \in {"idle", "keyed", "computed"} /\ (reader[q].pc = "keyed" => Keyed(reader[q]))
          /\ (reader[q].pc = "computed" => Right(reader[q]))
      BY DEF EntriesInv
    <3> QED  BY <1>1, <3>1, <3>2 DEF Right, Keyed
  <2> QED  BY <2>1, <2>2
<1> QED  BY <1>2, <1>3 DEF EntriesInv

(* Nothing but readers and caches.                                         *)
ReadersOnly == UNCHANGED <<generation, leases, userUsage, outbox, changer>>

(* A step of the readers alone changes no usage and ends no change.        *)
LEMMA ReadersOnlyKeep ==
    ASSUME CacheShape, ReadersOnly
    PROVE  /\ LeaseInv' /\ Grows /\ Announces
           /\ \A u : OpenOf(u) <=> OpenOf(u)'
<1>1. \A u : OpenOf(u) <=> OpenOf(u)'
  BY DEF OpenOf, Unannounced, ReadersOnly
<1>2. LeaseInv'
  BY DEF CacheShape, LeaseInv, LeaseOf, ReadersOnly
<1>3. Grows /\ Announces
  BY <1>1, Announced DEF CacheShape, ReadersOnly
<1> QED  BY <1>1, <1>2, <1>3

(* Views keep their users when one pod's read and entries change: the       *)
(* pod's new read, if it has a view, and its new entries have theirs.      *)
LEMMA ViewsStay ==
    ASSUME CacheTyped, NEW p \in Pods,
           \A q \in Pods : q # p => reader'[q] = reader[q] /\ cache'[q] = cache[q],
           reader'[p].pc = "computed" => DOMAIN reader'[p].view = Covered(reader'[p].subject),
           \A e \in cache'[p] : DOMAIN e.view = Covered(e.subject)
    PROVE  /\ \A q \in Pods : reader'[q].pc = "computed" =>
                  DOMAIN reader'[q].view = Covered(reader'[q].subject)
           /\ \A q \in Pods : \A e \in cache'[q] : DOMAIN e.view = Covered(e.subject)
<1>1. ASSUME NEW q \in Pods, reader'[q].pc = "computed"
      PROVE  DOMAIN reader'[q].view = Covered(reader'[q].subject)
  <2>1. CASE q = p
    BY <1>1, <2>1
  <2>2. CASE q # p
    <3>1. reader'[q] = reader[q]
      BY <2>2
    <3> QED  BY <1>1, <3>1 DEF CacheTyped
  <2> QED  BY <2>1, <2>2
<1>2. ASSUME NEW q \in Pods, NEW e \in cache'[q]
      PROVE  DOMAIN e.view = Covered(e.subject)
  <2>1. CASE q = p
    BY <1>2, <2>1
  <2>2. CASE q # p
    BY <1>2, <2>2 DEF CacheTyped
  <2> QED  BY <2>1, <2>2
<1> QED  BY <1>1, <1>2

(* A request that is answered from the cache.                              *)
LEMMA ReadHitKeeps ==
    ASSUME CacheShape, NEW p \in Pods, ReadHit(p)
    PROVE  CacheShape' /\ (EntriesInv => EntriesInv')
<1>1. ReadersOnly /\ Reads(p, NoRead) /\ IsRead(NoRead) /\ cache' = cache /\ CacheTyped
  BY DEF ReadHit, ReadersOnly, Reads, IsRead, NoRead, CacheShape
<1>2. LeaseInv' /\ Grows /\ Announces
  BY <1>1, ReadersOnlyKeep
<1>3. /\ reader' = [q \in Pods |-> reader'[q]] /\ \A q \in Pods : IsRead(reader'[q])
      /\ reader'[p] = NoRead /\ \A q \in Pods : q # p => reader'[q] = reader[q]
  BY <1>1, ReadsTyped
<1>4. CacheTyped'
  <2>1. \A e \in cache'[p] : DOMAIN e.view = Covered(e.subject)
    BY <1>1 DEF CacheTyped
  <2>2. reader'[p].pc # "computed"
    BY <1>3 DEF NoRead
  <2> QED  BY <1>1, <1>3, <2>1, <2>2, ViewsStay DEF CacheTyped, ReadersOnly, IsRead
<1>5. ASSUME EntriesInv  PROVE \A e \in cache'[p] : Right(e)'
  BY <1>1, <1>2, <1>5, RightStays DEF EntriesInv
<1>6. ASSUME EntriesInv  PROVE EntriesInv'
  BY <1>6, <1>1, <1>2, <1>3, <1>5, ReaderSteps DEF NoRead
<1> QED  BY <1>2, <1>4, <1>6 DEF CacheShape

(* A view is computed, from the usage as it is.                            *)
LEMMA ComputeViewKeeps ==
    ASSUME CacheShape, NEW p \in Pods, ComputeView(p)
    PROVE  CacheShape' /\ (EntriesInv => EntriesInv')
<1> DEFINE r == reader[p]
           n == [pc |-> "computed", subject |-> r.subject, key |-> r.key, bypass |-> r.bypass,
                 view |-> View(r.subject)]
<1>1. ReadersOnly /\ cache' = cache /\ CacheTyped /\ IsRead(r)
  BY DEF ComputeView, ReadersOnly, CacheShape, CacheTyped
<1>2. Reads(p, n)
  <2>1. reader' = [reader EXCEPT ![p] = [reader[p] EXCEPT !.pc = "computed", !.view = View(reader[p].subject)]]
    BY <1>1 DEF ComputeView, CacheTyped
  <2>2. ASSUME NEW v, IsRead(v), NEW x, NEW w, w = [v EXCEPT !.pc = "computed", !.view = x]
        PROVE  w = [pc |-> "computed", subject |-> v.subject, key |-> v.key, bypass |-> v.bypass, view |-> x]
    BY <2>2 DEF IsRead
  <2>3. PICK w : w = [reader[p] EXCEPT !.pc = "computed", !.view = View(reader[p].subject)]
    OBVIOUS
  <2>4. w = n
    BY <1>1, <2>2, <2>3
  <2> QED  BY <2>1, <2>3, <2>4 DEF Reads
<1>3. IsRead(n)
  BY DEF IsRead
<1>4. LeaseInv' /\ Grows /\ Announces
  BY <1>1, ReadersOnlyKeep
<1>5. /\ reader' = [q \in Pods |-> reader'[q]] /\ \A q \in Pods : IsRead(reader'[q])
      /\ reader'[p] = n /\ \A q \in Pods : q # p => reader'[q] = reader[q]
  <2> HIDE DEF n
  <2> QED  BY <1>1, <1>2, <1>3, ReadsTyped
<1>6. CacheTyped'
  <2>1. \A e \in cache'[p] : DOMAIN e.view = Covered(e.subject)
    BY <1>1 DEF CacheTyped
  <2>2. DOMAIN n.view = Covered(n.subject)
    BY DEF View
  <2>3. DOMAIN reader'[p].view = Covered(reader'[p].subject)
    BY <1>5, <2>2
  <2> HIDE DEF n
  <2> QED  BY <1>1, <1>5, <2>1, <2>3, ViewsStay DEF CacheTyped, ReadersOnly, IsRead
<1>7. ASSUME EntriesInv  PROVE \A e \in cache'[p] : Right(e)'
  BY <1>1, <1>4, <1>7, RightStays DEF EntriesInv
<1>8. ASSUME EntriesInv  PROVE Right(reader[p])'
  <2>1. Keyed(r) /\ r.subject \in Subjects
    BY <1>1, <1>8 DEF EntriesInv, ComputeView, Keyed
  <2>2. PICK g \in Earlier : r.key = CacheKey(g, r.subject)
    BY <2>1 DEF Keyed
  <2>3. View(r.subject) = [u \in Covered(r.subject) |-> userUsage'[u]]
    BY <1>1 DEF View, ReadersOnly
  <2>4. g \in Earlier'
    BY <1>1 DEF Earlier, ReadersOnly
  <2>5. PICK x : x = reader'[p]
    OBVIOUS
  <2>6. x.subject = r.subject /\ x.key = r.key /\ x.view = View(r.subject)
    BY <1>5, <2>5
  <2>7. Right(x)'
    BY <2>1, <2>2, <2>3, <2>4, <2>6 DEF Right
  <2> QED  BY <2>5, <2>7 DEF Right
<1>9. ASSUME EntriesInv  PROVE EntriesInv'
  <2>1. reader'[p].pc = "computed"
    BY <1>5
  <2> QED  BY <1>1, <1>4, <1>5, <1>7, <1>8, <1>9, <2>1, ReaderSteps
<1> QED  BY <1>4, <1>6, <1>9 DEF CacheShape

(* A view is stored under the key that was read before it was computed.    *)
LEMMA StoreViewKeeps ==
    ASSUME CacheShape, NEW p \in Pods, StoreView(p)
    PROVE  CacheShape' /\ (EntriesInv => EntriesInv')
<1>1. ReadersOnly /\ Reads(p, NoRead) /\ IsRead(NoRead) /\ CacheTyped
  BY DEF StoreView, ReadersOnly, Reads, IsRead, NoRead, CacheShape
<1>2. LeaseInv' /\ Grows /\ Announces
  BY <1>1, ReadersOnlyKeep
<1>3. /\ reader' = [q \in Pods |-> reader'[q]] /\ \A q \in Pods : IsRead(reader'[q])
      /\ reader'[p] = NoRead /\ \A q \in Pods : q # p => reader'[q] = reader[q]
  BY <1>1, ReadsTyped
<1>4. PICK v : v = [subject |-> reader[p].subject, key |-> reader[p].key, view |-> reader[p].view]
  OBVIOUS
<1>5. cache' \in {cache, [cache EXCEPT ![p] = cache[p] \union {v}]}
  BY <1>4 DEF StoreView
<1>6. cache = [q \in Pods |-> cache[q]]
  BY <1>1 DEF CacheTyped
<1>7. /\ cache' = [q \in Pods |-> cache'[q]] /\ cache'[p] \subseteq cache[p] \union {v}
      /\ \A q \in Pods : q # p => cache'[q] = cache[q]
  BY <1>5, <1>6
<1>8. CacheTyped'
  <2>1. DOMAIN v.view = Covered(v.subject)
    BY <1>1, <1>4 DEF CacheTyped, StoreView
  <2>2. \A e \in cache'[p] : DOMAIN e.view = Covered(e.subject)
    BY <1>1, <1>7, <2>1 DEF CacheTyped
  <2>3. reader'[p].pc # "computed"
    BY <1>3 DEF NoRead
  <2> QED  BY <1>1, <1>3, <1>7, <2>2, <2>3, ViewsStay DEF CacheTyped, ReadersOnly, IsRead
<1>9. ASSUME EntriesInv  PROVE Right(v)
  <2>1. Right(reader[p])
    BY <1>1, <1>9 DEF EntriesInv, StoreView
  <2>2. v.subject = reader[p].subject /\ v.key = reader[p].key /\ v.view = reader[p].view
    BY <1>4
  <2> QED  BY <2>1, <2>2 DEF Right
<1>10. ASSUME EntriesInv  PROVE \A e \in cache'[p] : Right(e)'
  <2>1. ASSUME NEW e, Right(e)  PROVE Right(e)'
    BY <1>1, <1>2, <2>1, RightStays
  <2>2. \A e \in cache[p] \union {v} : Right(e)
    BY <1>1, <1>9, <1>10 DEF EntriesInv
  <2> QED  BY <1>7, <2>1, <2>2
<1>11. ASSUME EntriesInv  PROVE EntriesInv'
  BY <1>11, <1>1, <1>2, <1>3, <1>7, <1>10, ReaderSteps DEF NoRead
<1> QED  BY <1>2, <1>8, <1>11 DEF CacheShape

(* The leases without heartbeats are collected, and the counters raised    *)
(* for each.                                                               *)
LEMMA ReadGenerationKeeps ==
    ASSUME CacheShape, NEW p \in Pods, NEW s \in Subjects, ReadGeneration(p, s)
    PROVE  CacheShape' /\ (EntriesInv => EntriesInv')
<1>1. CacheTyped /\ LeaseInv
  BY DEF CacheShape
<1> DEFINE held == [l \in Leases |-> IF l \in StaleLeases THEN NoLease ELSE leases[l]]
           n == [pc |-> "keyed", subject |-> s, key |-> CacheKey(Collected, s),
                 bypass |-> Pending(held, s), view |-> <<>>]
<1>2. leases' = held /\ generation' = Collected /\ cache' = [cache EXCEPT ![p] = Usable(p, Collected)]
  BY DEF ReadGeneration
<1>3. Reads(p, n)
  <2>1. n = [NoRead EXCEPT !.pc = "keyed", !.subject = s, !.key = CacheKey(Collected, s), !.bypass = Pending(held, s)]
    <3>1. ASSUME NEW v, v = NoRead, NEW k, NEW b, NEW w,
                 w = [v EXCEPT !.pc = "keyed", !.subject = s, !.key = k, !.bypass = b]
          PROVE  w = [pc |-> "keyed", subject |-> s, key |-> k, bypass |-> b, view |-> <<>>]
      BY <3>1 DEF NoRead
    <3> QED  BY <3>1
  <2>2. reader' = [reader EXCEPT ![p] = [NoRead EXCEPT !.pc = "keyed", !.subject = s,
                       !.key = CacheKey(Collected, s), !.bypass = Pending(held, s)]]
    BY DEF ReadGeneration
  <2> QED  BY <2>1, <2>2 DEF Reads
<1>4. IsRead(n)
  BY DEF IsRead
<1>5. /\ reader' = [q \in Pods |-> reader'[q]] /\ \A q \in Pods : IsRead(reader'[q])
      /\ reader'[p] = n /\ \A q \in Pods : q # p => reader'[q] = reader[q]
  <2> HIDE DEF n
  <2> QED  BY <1>1, <1>3, <1>4, ReadsTyped
<1>6. Grows /\ generation \in [Gens -> Nat]
  BY <1>1, <1>2, CollectedMoves DEF Grows, CacheTyped
<1>7. leases' \in [Leases -> LeaseRecord] /\ \A l \in Leases : leases'[l] = IF l \in StaleLeases THEN NoLease ELSE leases[l]
  BY <1>1, <1>2 DEF CacheTyped, LeaseRecord, NoLease
<1>8. /\ cache' = [q \in Pods |-> cache'[q]] /\ cache'[p] \subseteq cache[p]
      /\ \A q \in Pods : q # p => cache'[q] = cache[q]
  <2>1. Usable(p, Collected) \subseteq cache[p] /\ cache = [q \in Pods |-> cache[q]]
    BY <1>1 DEF Usable, CacheTyped
  <2> QED  BY <1>2, <2>1
<1>9. CacheTyped'
  <2>1. \A e \in cache'[p] : DOMAIN e.view = Covered(e.subject)
    BY <1>1, <1>8 DEF CacheTyped
  <2>2. reader'[p].pc # "computed"
    BY <1>5
  <2>3. userUsage' = userUsage /\ outbox' = outbox /\ changer' = changer
    BY DEF ReadGeneration
  <2> HIDE DEF n, held
  <2>4. /\ \A q \in Pods : reader'[q].pc = "computed" =>
                DOMAIN reader'[q].view = Covered(reader'[q].subject)
        /\ \A q \in Pods : \A e \in cache'[q] : DOMAIN e.view = Covered(e.subject)
    BY <1>1, <1>5, <1>8, <2>1, <2>2, ViewsStay
  <2> QED  BY <1>1, <1>5, <1>6, <1>7, <1>8, <2>3, <2>4 DEF CacheTyped, Grows, IsRead
<1>10. \A c \in Changers : <<c, "change">> \in Leases /\ <<c, "flush">> \in Leases
  BY DEF Leases
<1>11. LeaseInv'
  <2>1. \A l \in Leases : leases'[l].on \in {leases[l].on, None}
    BY <1>7 DEF NoLease
  <2>2. ASSUME NEW c \in Changers  PROVE LeaseOf(c)'
    <3>1. LeaseOf(c) /\ changer' = changer
      BY <1>1 DEF LeaseInv, ReadGeneration
    <3>2. leases'[<<c, "change">>].on \in {leases[<<c, "change">>].on, None}
          /\ leases'[<<c, "flush">>].on \in {leases[<<c, "flush">>].on, None}
      BY <1>10, <2>1
    <3> QED  BY <3>1, <3>2 DEF LeaseOf
  <2> QED  BY <2>2 DEF LeaseInv
<1>12. ASSUME NEW t \in Subjects, SameKey(generation, generation', t), NEW u \in Covered(t), OpenOf(u)
       PROVE  OpenOf(u)'
  <2>1. u \in CacheUsers /\ (t = Org \/ u = t) /\ u \in Gens /\ Org \in Gens /\ AllUsers \in Gens
    BY DEF Covered, Subjects, Gens
  <2>2. ASSUME NEW l \in Leases, leases[l].on \in {u, AllUsers}  PROVE OpenOf(u)'
    <3>1. l \notin StaleLeases
      BY <1>1, <1>2, <1>6, <1>12, <2>1, <2>2, CollectedMoves DEF SameKey
    <3> QED  BY <1>7, <2>2, <3>1 DEF OpenOf
  <2>3. ASSUME NEW c \in Changers, LostBy(c, u)  PROVE OpenOf(u)'
    <3>1. \A l \in Leases : leases[l].on = None => leases'[l].on = None
      BY <1>7 DEF NoLease
    <3>2. LostBy(c, u)'
      BY <1>10, <2>3, <3>1 DEF LostBy, ReadGeneration
    <3> QED  BY <3>2, LostOpens
  <2> QED  BY <1>12, <2>2, <2>3 DEF OpenOf, Unannounced, LostBy
<1>13. Announces
  BY <1>12 DEF Announces, ReadGeneration
<1>14. Keyed(reader[p])'
  <2>1. Collected \in Earlier'
    BY <1>1, <1>2, <1>6, CollectedMoves DEF Earlier
  <2>2. PICK x : x = reader'[p]
    OBVIOUS
  <2>3. x.subject = s /\ x.key = CacheKey(Collected, s)
    BY <1>5, <2>2
  <2>4. Keyed(x)'
    BY <2>1, <2>3 DEF Keyed
  <2> QED  BY <2>2, <2>4 DEF Keyed
<1>15. ASSUME EntriesInv  PROVE \A e \in cache'[p] : Right(e)'
  <2>1. ASSUME NEW e, Right(e)  PROVE Right(e)'
    BY <1>1, <1>6, <1>13, <2>1, RightStays
  <2> QED  BY <1>1, <1>8, <1>15, <2>1 DEF EntriesInv
<1>16. ASSUME EntriesInv  PROVE EntriesInv'
  <2>1. reader'[p].pc = "keyed"
    BY <1>5
  <2> QED  BY <1>1, <1>5, <1>6, <1>8, <1>13, <1>14, <1>15, <1>16, <2>1, ReaderSteps
<1> QED  BY <1>9, <1>11, <1>16 DEF CacheShape

-----------------------------------------------------------------------------
(* Both parts hold in the beginning.                                       *)
LEMMA CacheInvInit == CacheInit => CacheShape /\ EntriesInv
<1> SUFFICES ASSUME CacheInit PROVE CacheShape /\ EntriesInv
  OBVIOUS
<1>1. CacheTyped
  BY CacheAssumption DEF CacheInit, CacheTyped, Gens, ChangeRecord, LeaseRecord, NoLease, NoChange, NoRead, IsRead
<1>2. \A c \in Changers : <<c, "change">> \in Leases /\ <<c, "flush">> \in Leases
  BY DEF Leases
<1>3. ASSUME NEW c \in Changers  PROVE LeaseOf(c)
  BY <1>2, CacheAssumption DEF CacheInit, LeaseOf, NoLease, NoChange, None
<1>4. EntriesInv
  BY DEF CacheInit, EntriesInv, NoRead
<1> QED  BY <1>1, <1>3, <1>4 DEF CacheShape, LeaseInv

(* Every step keeps the shape, and one that lets no process die with a     *)
(* change that is no longer announced keeps the entries right.             *)
LEMMA CacheInvNext ==
    ASSUME CacheShape, [CacheNext]_cacheVars
    PROVE  CacheShape' /\ (EntriesInv /\ (DiesAnnounced \/ UNCHANGED cacheVars) => EntriesInv')
<1> DEFINE Kept == CacheShape' /\ (EntriesInv => EntriesInv')
<1>1. CASE UNCHANGED cacheVars
  <2>1. ReadersOnly /\ UNCHANGED <<reader, cache>>
    BY <1>1 DEF cacheVars, ReadersOnly
  <2>2. LeaseInv' /\ Grows /\ Announces
    BY <2>1, ReadersOnlyKeep
  <2>3. EntriesInv => EntriesInv'
    BY <2>1, <2>2, EntriesStay DEF CacheShape
  <2>4. CacheTyped'
    BY <2>1 DEF CacheTyped, CacheShape, ReadersOnly, IsRead
  <2> QED  BY <2>2, <2>3, <2>4 DEF CacheShape
<1>2. ASSUME NEW c \in Changers, NEW s \in CacheUsers \union {AllUsers}, BeginChange(c, s)  PROVE Kept
  BY <1>2, BeginChangeKeeps
<1>3. ASSUME NEW c \in Changers, StoreBatch(c) \/ SkipFlush(c) \/ InsertBatch(c) \/ MarkDelivered(c)  PROVE Kept
  BY <1>3, StoreBatchKeeps, SkipFlushKeeps, InsertBatchKeeps, MarkDeliveredKeeps
<1>4. ASSUME NEW c \in Changers, NEW u \in CacheUsers, BeginFlush(c, u)  PROVE Kept
  BY <1>4, BeginFlushKeeps
<1>5. ASSUME NEW c \in Changers, NEW users \in SUBSET CacheUsers, ChangeUsage(c, users)  PROVE Kept
  BY <1>5, ChangeUsageKeeps
<1>6. ASSUME NEW c \in Changers, FinishChange(c) \/ BatchFails(c)  PROVE Kept
  BY <1>6, FinishChangeKeeps, BatchFailsKeeps
<1>7. ASSUME NEW c \in Changers, ChangerDies(c)
      PROVE  CacheShape' /\ (EntriesInv /\ DiesAnnounced => EntriesInv')
  BY <1>7, ChangerDiesKeeps
<1>8. ASSUME NEW l \in Leases, HeartbeatStale(l)  PROVE Kept
  BY <1>8, HeartbeatStaleKeeps
<1>9. ASSUME NEW p \in Pods, NEW s \in Subjects, ReadGeneration(p, s)  PROVE Kept
  BY <1>9, ReadGenerationKeeps
<1>10. ASSUME NEW p \in Pods, ReadHit(p) \/ ComputeView(p) \/ StoreView(p)  PROVE Kept
  BY <1>10, ReadHitKeeps, ComputeViewKeeps, StoreViewKeeps
<1>11. CASE CacheNext
  <2>1. ASSUME NEW c \in Changers, ChangerDies(c), UNCHANGED cacheVars  PROVE Kept
    BY <1>1, <2>1
  <2>2. CASE \E c \in Changers : ChangerDies(c)
    BY <1>7, <2>1, <2>2
  <2>3. CASE ~\E c \in Changers : ChangerDies(c)
    <3> HIDE DEF Kept
    <3>1. Kept
      BY <1>2, <1>3, <1>4, <1>5, <1>6, <1>8, <1>9, <1>10, <1>11, <2>3 DEF CacheNext
    <3> QED  BY <3>1 DEF Kept
  <2> QED  BY <2>2, <2>3
<1> QED  BY <1>1, <1>11

(* The shape holds always.                                                 *)
LEMMA CacheShapeAlways == CacheSpec => []CacheShape
<1>1. CacheShape /\ [CacheNext]_cacheVars => CacheShape'
  BY CacheInvNext
<1> QED  BY <1>1, CacheInvInit, PTL DEF CacheSpec

(* The entries are right as long as deaths are announced.                  *)
LEMMA EntriesInvAlways == CacheSpec /\ [][DiesAnnounced]_cacheVars => []EntriesInv
<1>1. CacheShape /\ EntriesInv /\ [CacheNext]_cacheVars /\ [DiesAnnounced]_cacheVars => EntriesInv'
  BY CacheInvNext
<1> QED  BY <1>1, CacheInvInit, CacheShapeAlways, PTL DEF CacheSpec

(* The counters, leases, changes, reads and entries keep their types, and  *)
(* a view covers its subject (utilization-cache-generation.ts).            *)
THEOREM CacheTypeCorrect == CacheSpec => []CacheTypeOK
<1>1. ASSUME CacheShape  PROVE CacheTypeOK
  <2>1. CacheTyped /\ \A c \in Changers : LeaseOf(c)
    BY <1>1 DEF CacheShape, LeaseInv
  <2>2. \A c \in Changers : changer[c] \in ChangeRecord
    BY <2>1 DEF CacheTyped
  <2> QED  BY <2>1, <2>2 DEF CacheTypeOK, CacheTyped, LeaseOf, ChangeRecord, Gens
<1> QED  BY <1>1, CacheShapeAlways, PTL

(* While no process dies after a change of the usage whose lease was       *)
(* collected for want of heartbeats, an entry that a reader would be       *)
(* answered with shows the usage as it is, in every pod                    *)
(* (read_utilization_cache_generation, withUtilizationCacheChange).        *)
THEOREM EntriesAlwaysCurrent ==
    CacheSpec /\ [][DiesAnnounced]_cacheVars => []EntriesCurrent
<1>1. ASSUME CacheShape, EntriesInv  PROVE EntriesCurrent
  <2> SUFFICES ASSUME NEW p \in Pods, NEW e \in cache[p], e.key = CacheKey(Collected, e.subject),
                      \A l \in Leases : ~leases[l].recent, NEW u \in Covered(e.subject), ~Unannounced(u)
               PROVE  e.view[u] = userUsage[u]
    BY DEF EntriesCurrent
  <2>1. Right(e) /\ CacheTyped
    BY <1>1 DEF CacheShape, EntriesInv
  <2>2. PICK g \in Earlier :
            /\ e.key = CacheKey(g, e.subject)
            /\ SameKey(g, generation, e.subject) =>
                  \A v \in Covered(e.subject) : e.view[v] = userUsage[v] \/ OpenOf(v)
    BY <2>1 DEF Right
  <2>3. /\ g \in [Gens -> Nat] /\ \A s \in Gens : g[s] <= generation[s]
        /\ generation \in [Gens -> Nat]
    BY <2>1 DEF Earlier, CacheTyped
  <2>4. SameKey(g, Collected, e.subject)
    BY <2>2, KeysEqual
  <2>5. e.subject \in Gens /\ AllUsers \in Gens /\ Org \in Gens /\ e.subject \in Subjects
    BY <2>1 DEF Right, Subjects, Gens
  <2>6. SameKey(g, generation, e.subject) /\ SameKey(generation, Collected, e.subject)
    BY <2>1, <2>3, <2>4, <2>5, CollectedMoves DEF SameKey
  <2>7. u \in CacheUsers /\ (e.subject = Org \/ e.subject = u)
    BY <2>5 DEF Covered, Subjects
  <2>8. ASSUME NEW l \in Leases, leases[l].on \in {u, AllUsers}  PROVE FALSE
    <3>1. l \in StaleLeases
      BY <2>7, <2>8, CacheAssumption DEF StaleLeases, None
    <3>2. Collected[Org] > generation[Org] /\ Collected[leases[l].on] > generation[leases[l].on]
      BY <2>1, <3>1, CollectedMoves
    <3> QED  BY <2>1, <2>3, <2>5, <2>6, <2>7, <2>8, <3>2, CollectedMoves DEF SameKey
  <2> QED  BY <2>2, <2>6, <2>8 DEF OpenOf
<1> QED  BY <1>1, CacheShapeAlways, EntriesInvAlways, PTL
-----------------------------------------------------------------------------
(***************************************************************************)
(* The cutover of the rollup layers, of RollupCoordinator.                 *)
(***************************************************************************)
CutStates == {"backfilling", "observing", "active", "fallback"}
HealthyRange == 0..HealthyMinutes
FailureRange == 0..MaxTransient
CutRecord == [state : CutStates, healthy : HealthyRange, failures : FailureRange,
              failed : BOOLEAN, checked : BOOLEAN, due : BOOLEAN]

(* A validation of the timezone layer is only under way on an active base. *)
CutInv ==
    /\ cut \in [Layers -> CutRecord]
    /\ slot.task = "validation" /\ slot.layer = "timezone" => cut["usage_15m_v2"].state = "active"

(* What may become of a record by one look at it: it keeps its state, or   *)
(* falls back from activity.                                               *)
LooksOn(rec, new) ==
    /\ new \in CutRecord
    /\ new.state = rec.state \/ (rec.state = "active" /\ new.state = "fallback")

(* The smaller of two numbers is one of them. *)
LEMMA MinOfNats ==
    ASSUME NEW a \in Nat, NEW b \in Nat
    PROVE  Min({a, b}) \in Nat /\ Min({a, b}) \in 0..b /\ Min({a, b}) \in {a, b}
<1>1. \E x \in {a, b} : \A y \in {a, b} : x <= y
  OBVIOUS
<1> QED  BY <1>1 DEF Min

LEMMA ZeroInRange == 0 \in HealthyRange /\ 0 \in FailureRange
  BY CoordAssumption DEF HealthyRange, FailureRange

(* The helpers of the record keep its shape and do not activate it. *)
LEMMA CutHelpers ==
    ASSUME NEW rec \in CutRecord
    PROVE  /\ LooksOn(rec, Checked(rec)) /\ LooksOn(rec, Healthy(rec)) /\ LooksOn(rec, Unhealthy(rec))
           /\ Checked(rec).state = rec.state /\ Healthy(rec).state = rec.state
           /\ \A n \in HealthyRange :
                 /\ LooksOn(rec, [Healthy(rec) EXCEPT !.healthy = n])
                 /\ LooksOn(rec, [Checked(rec) EXCEPT !.healthy = n])
<1>1. MaxTransient \in Nat
  BY CoordAssumption
<1>2. Min({rec.failures + 1, MaxTransient}) \in FailureRange
  BY <1>1, MinOfNats DEF CutRecord, FailureRange
<1> DEFINE m == Min({rec.failures + 1, MaxTransient})
<1> HIDE DEF m
<1>3. m \in FailureRange
  BY <1>2 DEF m
<1>4. LooksOn(rec, Checked(rec)) /\ LooksOn(rec, Healthy(rec))
      /\ Checked(rec).state = rec.state /\ Healthy(rec).state = rec.state
  BY ZeroInRange DEF LooksOn, CutRecord, Checked, Healthy
<1>5. LooksOn(rec, Unhealthy(rec))
  <2> DEFINE failures == IF rec.state = "active" THEN m ELSE rec.failures
             state == IF rec.state = "active" /\ failures >= MaxTransient THEN "fallback" ELSE rec.state
  <2>1. Unhealthy(rec) = [Checked(rec) EXCEPT !.failed = TRUE, !.failures = failures, !.state = state]
    BY DEF Unhealthy, m
  <2>2. failures \in FailureRange /\ state \in CutStates /\ (state = rec.state \/ (rec.state = "active" /\ state = "fallback"))
    BY <1>3 DEF CutRecord, CutStates
  <2> HIDE DEF failures, state
  <2> QED  BY <2>1, <2>2 DEF LooksOn, CutRecord, Checked
<1>6. \A n \in HealthyRange :
         /\ LooksOn(rec, [Healthy(rec) EXCEPT !.healthy = n])
         /\ LooksOn(rec, [Checked(rec) EXCEPT !.healthy = n])
  BY ZeroInRange DEF LooksOn, CutRecord, Checked, Healthy
<1> QED  BY <1>4, <1>5, <1>6

(* reconcileLayer never activates a layer. *)
LEMMA ReconcileLooksOn ==
    ASSUME NEW l \in Layers, NEW rec \in CutRecord
    PROVE  /\ LooksOn(rec, Reconcile(l, rec).rec)
           /\ Reconcile(l, rec).validate => Reconcile(l, rec).rec.state = rec.state
<1> DEFINE observed == IF rec.checked THEN rec.healthy ELSE Min({rec.healthy + 1, HealthyMinutes})
<1>1. observed \in HealthyRange
  BY CoordAssumption, MinOfNats DEF CutRecord, HealthyRange
<1>2. LooksOn(rec, rec)
  BY DEF LooksOn
<1>3. \/ Reconcile(l, rec) = [rec |-> Unhealthy(rec), validate |-> FALSE]
      \/ Reconcile(l, rec) = [rec |-> rec, validate |-> FALSE]
      \/ Reconcile(l, rec) = [rec |-> Checked(rec), validate |-> TRUE]
      \/ Reconcile(l, rec) = [rec |-> [Healthy(rec) EXCEPT !.healthy = observed], validate |-> FALSE]
      \/ Reconcile(l, rec) = [rec |-> [Checked(rec) EXCEPT !.healthy = observed], validate |-> TRUE]
      \/ Reconcile(l, rec) = [rec |-> Healthy(rec), validate |-> FALSE]
  <2>1. rec.state \in {"backfilling", "fallback"} \/ rec.state = "observing" \/ rec.state = "active"
    BY DEF CutRecord, CutStates
  <2> QED  BY <2>1 DEF Reconcile
<1> HIDE DEF observed
<1>4. [Checked(rec) EXCEPT !.healthy = observed].state = rec.state
  BY DEF Checked, CutRecord
<1>5. /\ LooksOn(rec, Unhealthy(rec)) /\ LooksOn(rec, Checked(rec)) /\ LooksOn(rec, Healthy(rec))
      /\ LooksOn(rec, [Healthy(rec) EXCEPT !.healthy = observed])
      /\ LooksOn(rec, [Checked(rec) EXCEPT !.healthy = observed])
      /\ Checked(rec).state = rec.state
  BY <1>1, CutHelpers
<1> DEFINE Goal == /\ LooksOn(rec, Reconcile(l, rec).rec)
                   /\ Reconcile(l, rec).validate => Reconcile(l, rec).rec.state = rec.state
<1>6. CASE Reconcile(l, rec) = [rec |-> Unhealthy(rec), validate |-> FALSE]
  BY <1>5, <1>6
<1>7. CASE Reconcile(l, rec) = [rec |-> rec, validate |-> FALSE]
  BY <1>2, <1>7
<1>8. CASE Reconcile(l, rec) = [rec |-> Checked(rec), validate |-> TRUE]
  BY <1>5, <1>8
<1>9. CASE Reconcile(l, rec) = [rec |-> [Healthy(rec) EXCEPT !.healthy = observed], validate |-> FALSE]
  BY <1>5, <1>9
<1>10. CASE Reconcile(l, rec) = [rec |-> [Checked(rec) EXCEPT !.healthy = observed], validate |-> TRUE]
  <2> DEFINE new == [Checked(rec) EXCEPT !.healthy = observed]
  <2>1. LooksOn(rec, new) /\ new.state = rec.state
    BY <1>4, <1>5
  <2>2. Reconcile(l, rec) = [rec |-> new, validate |-> TRUE]
    BY <1>10
  <2> HIDE DEF new
  <2> QED  BY <2>1, <2>2
<1>11. CASE Reconcile(l, rec) = [rec |-> Healthy(rec), validate |-> FALSE]
  BY <1>5, <1>11
<1> QED  BY <1>3, <1>6, <1>7, <1>8, <1>9, <1>10, <1>11

(* A tick: the base is saved first, and the timezone layer only looked at  *)
(* on top of it.                                                           *)
LEMMA TickCut ==
    ASSUME CutInv, Tick
    PROVE  /\ CutInv'
           /\ cut["timezone"].state # "active" => cut'["timezone"].state # "active"
<1> DEFINE base == cut["usage_15m_v2"]
           zone == cut["timezone"]
           usage == Reconcile("usage_15m_v2", base)
           timezone == Reconcile("timezone", zone)
<1>1. base \in CutRecord /\ zone \in CutRecord
  BY DEF CutInv, Layers
<1>2. LooksOn(base, usage.rec) /\ LooksOn(zone, timezone.rec)
  BY <1>1, ReconcileLooksOn DEF Layers
<1>3. /\ ResetTimezone(zone) \in CutRecord
      /\ ResetTimezone(zone).state = "active" => zone.state = "active"
  <2>1. Healthy(zone) \in CutRecord
    BY <1>1, CutHelpers DEF LooksOn
  <2>2. [Healthy(zone) EXCEPT !.state = "backfilling", !.healthy = 0] \in CutRecord
    BY <2>1, ZeroInRange DEF CutRecord, CutStates
  <2>3. [Healthy(zone) EXCEPT !.state = "backfilling", !.healthy = 0].state = "backfilling"
    BY <2>1 DEF CutRecord
  <2> QED  BY <1>1, <2>2, <2>3 DEF ResetTimezone
<1>4. \/ /\ ReconcileAll.cut = [cut EXCEPT !["usage_15m_v2"] = usage.rec]
         /\ ReconcileAll.validate = {"usage_15m_v2"}
      \/ /\ ReconcileAll.cut = [cut EXCEPT !["usage_15m_v2"] = usage.rec, !["timezone"] = ResetTimezone(zone)]
         /\ ReconcileAll.validate = {}
      \/ /\ ReconcileAll.cut = [cut EXCEPT !["usage_15m_v2"] = usage.rec, !["timezone"] = timezone.rec]
         /\ usage.rec.state = "active" /\ ReconcileAll.validate \subseteq {"timezone"}
  <2> DEFINE onBase == [cut EXCEPT !["usage_15m_v2"] = usage.rec]
  <2>1. onBase["timezone"] = zone
    BY DEF CutInv, Layers
  <2> HIDE DEF usage, timezone, zone
  <2>2. ReconcileAll =
           IF usage.validate THEN [cut |-> onBase, validate |-> {"usage_15m_v2"}]
           ELSE IF usage.rec.state # "active"
           THEN [cut |-> [onBase EXCEPT !["timezone"] = ResetTimezone(@)], validate |-> {}]
           ELSE [cut |-> [onBase EXCEPT !["timezone"] = timezone.rec],
                 validate |-> IF timezone.validate THEN {"timezone"} ELSE {}]
    BY DEF ReconcileAll, usage, timezone, base, zone
  <2> QED  BY <2>1, <2>2
<1> HIDE DEF usage, timezone
<1>5. /\ cut' \in [Layers -> CutRecord]
      /\ zone.state # "active" => cut'["timezone"].state # "active"
      /\ "timezone" \in ReconcileAll.validate => cut'["usage_15m_v2"].state = "active"
  <2>1. cut' = ReconcileAll.cut
    BY DEF Tick
  <2> HIDE DEF base, zone
  <2>2. cut \in [Layers -> CutRecord] /\ cut["timezone"] = zone /\ usage.rec \in CutRecord /\ timezone.rec \in CutRecord
    BY <1>2 DEF CutInv, zone, LooksOn
  <2>3. timezone.rec.state = "active" => zone.state = "active"
    BY <1>2 DEF LooksOn
  <2> QED  BY <1>3, <1>4, <2>1, <2>2, <2>3 DEF Layers
<1>6. slot'.task = "validation" /\ slot'.layer = "timezone" => "timezone" \in ReconcileAll.validate
  <2>1. CASE ReconcileAll.validate # {}
    <3>1. PICK l \in ReconcileAll.validate : slot' = [task |-> "validation", layer |-> l, state |-> cut'[l].state]
      BY <2>1 DEF Tick
    <3> QED  BY <3>1
  <2>2. CASE ReconcileAll.validate = {}
    <3>1. slot' = Free \/ \E w \in Chosen : slot' = [task |-> w]
      BY <2>2 DEF Tick
    <3>2. \A w \in Chosen : w # "validation"
      BY CoordAssumption DEF Chosen
    <3> QED  BY <3>1, <3>2 DEF Free
  <2> QED  BY <2>1, <2>2
<1> QED  BY <1>5, <1>6 DEF CutInv

(* The end of a validation activates a layer only from observation. *)
LEMMA ValidationCut ==
    ASSUME CutInv, NEW l \in Layers, Validate(l) \/ ValidationFails(l)
    PROVE  /\ CutInv'
           /\ cut["timezone"].state # "active" /\ cut'["timezone"].state = "active" =>
                 cut["usage_15m_v2"].state = "active" /\ cut["timezone"].state = "observing"
<1> DEFINE rec == cut[l]
<1>1. rec \in CutRecord /\ cut \in [Layers -> CutRecord]
  BY DEF CutInv
<1>2. Healthy(rec) \in CutRecord /\ Unhealthy(rec) \in CutRecord /\ Healthy(rec).state = rec.state
      /\ (Unhealthy(rec).state = "active" => rec.state = "active")
  BY <1>1, CutHelpers DEF LooksOn
<1>3. \A mismatch \in BOOLEAN : /\ Failed(rec, mismatch) \in CutRecord
                                /\ Failed(rec, mismatch).state = "active" => rec.state = "active"
  <2> SUFFICES ASSUME NEW mismatch \in BOOLEAN
               PROVE  /\ Failed(rec, mismatch) \in CutRecord
                      /\ Failed(rec, mismatch).state = "active" => rec.state = "active"
    OBVIOUS
  <2> DEFINE m == Min({rec.failures + 1, MaxTransient})
             state == IF mismatch \/ (rec.state = "active" /\ m >= MaxTransient) THEN "fallback" ELSE rec.state
  <2>1. m \in FailureRange
    BY <1>1, MinOfNats, CoordAssumption DEF CutRecord, FailureRange
  <2>2. state \in CutStates /\ (state = "active" => rec.state = "active")
    BY <1>1 DEF CutRecord, CutStates
  <2>3. Failed(rec, mismatch) = [Checked(rec) EXCEPT !.failed = TRUE, !.failures = m, !.state = state]
    BY DEF Failed
  <2>4. Checked(rec) \in CutRecord
    BY <1>1, CutHelpers DEF LooksOn
  <2> HIDE DEF m, state, rec
  <2> QED  BY <2>1, <2>2, <2>3, <2>4 DEF CutRecord
<1>4. /\ Passed(rec) \in CutRecord
      /\ Passed(rec).state = "active" => rec.state \in {"active", "observing"}
  <2> HIDE DEF rec
  <2>1. rec.state \in CutStates
    BY <1>1 DEF CutRecord
  <2>2. CASE rec.state = "active"
    BY <1>2, <2>2 DEF Passed, CutRecord
  <2>3. CASE rec.state = "observing"
    BY <1>1, <1>2, <2>3 DEF Passed, CutRecord, CutStates
  <2>4. CASE rec.state \in {"backfilling", "fallback"}
    <3>1. Passed(rec) = [Healthy(rec) EXCEPT !.state = "observing", !.healthy = 0, !.due = FALSE]
      BY <2>4 DEF Passed
    <3>2. [Healthy(rec) EXCEPT !.state = "observing", !.healthy = 0, !.due = FALSE] \in CutRecord
      BY <1>2, ZeroInRange DEF CutRecord, CutStates
    <3>3. [Healthy(rec) EXCEPT !.state = "observing", !.healthy = 0, !.due = FALSE].state = "observing"
      BY <1>2 DEF CutRecord
    <3> QED  BY <3>1, <3>2, <3>3
  <2> QED  BY <2>1, <2>2, <2>3, <2>4 DEF CutStates
<1>5. PICK new \in CutRecord : /\ cut' = [cut EXCEPT ![l] = new]
                               /\ new.state = "active" => rec.state \in {"active", "observing"}
  BY <1>2, <1>3, <1>4 DEF Validate, ValidationFails
<1>6. slot' = Free /\ slot.task = "validation" /\ slot.layer = l
  BY DEF Validate, ValidationFails
<1>7. CutInv'
  BY <1>1, <1>5, <1>6 DEF CutInv, Free
<1>8. CASE l = "timezone"
  BY <1>1, <1>5, <1>6, <1>7, <1>8 DEF CutInv, CutRecord, CutStates
<1>9. CASE l = "usage_15m_v2"
  BY <1>1, <1>5, <1>7, <1>9 DEF Layers
<1> QED  BY <1>8, <1>9 DEF Layers

(* What TimezoneOnBase asks of a step. *)
Activates ==
    cut["timezone"].state # "active" /\ cut'["timezone"].state = "active" =>
       cut["usage_15m_v2"].state = "active" /\ cut["timezone"].state = "observing"

LEMMA CutInvInit == CoordInit => CutInv
<1>1. NewRecord \in CutRecord
  BY ZeroInRange DEF NewRecord, CutRecord, CutStates
<1> QED  BY <1>1 DEF CoordInit, CutInv, Free

LEMMA CutInvNext == CutInv /\ [CoordNext]_coordVars => CutInv' /\ Activates
<1> SUFFICES ASSUME CutInv, [CoordNext]_coordVars  PROVE CutInv' /\ Activates
  OBVIOUS
<1>1. CASE Tick
  BY <1>1, TickCut DEF Activates
<1>2. CASE \E l \in Layers : Validate(l) \/ ValidationFails(l)
  BY <1>2, ValidationCut DEF Activates
<1>3. CASE Minute
  <2>1. PICK L \in SUBSET Layers :
           cut' = [x \in Layers |-> [cut[x] EXCEPT !.checked = FALSE, !.due = @ \/ x \in L]]
    BY <1>3 DEF Minute
  <2>2. \A x \in Layers : cut'[x] = [cut[x] EXCEPT !.checked = FALSE, !.due = cut[x].due \/ x \in L]
    BY <2>1
  <2>3. \A x \in Layers : cut'[x] \in CutRecord /\ cut'[x].state = cut[x].state
    <3> SUFFICES ASSUME NEW x \in Layers  PROVE cut'[x] \in CutRecord /\ cut'[x].state = cut[x].state
      OBVIOUS
    <3> DEFINE due == cut[x].due \/ x \in L
    <3>1. cut[x] \in CutRecord /\ due \in BOOLEAN
      BY DEF CutInv, CutRecord
    <3> HIDE DEF due
    <3>2. [cut[x] EXCEPT !.checked = FALSE, !.due = due] \in CutRecord
          /\ [cut[x] EXCEPT !.checked = FALSE, !.due = due].state = cut[x].state
      BY <3>1 DEF CutRecord
    <3> QED  BY <2>2, <3>2 DEF due
  <2>4. cut' \in [Layers -> CutRecord] /\ UNCHANGED slot
    BY <1>3, <2>1, <2>3 DEF Minute
  <2> QED  BY <2>3, <2>4 DEF CutInv, Layers, Activates
<1>4. CASE UNCHANGED cut /\ (UNCHANGED slot \/ slot' = Free)
  BY <1>4 DEF CutInv, Free, Activates
<1>5. CASE \E w \in CoordWorkers, left, fails \in BOOLEAN : RunWorker(w, left, fails)
  BY <1>4, <1>5 DEF RunWorker
<1>6. CASE \E w \in CoordWorkers : Arrive(w)
  BY <1>4, <1>6 DEF Arrive
<1>7. CASE \E l \in Layers, behind \in Backlogs, wrong \in BOOLEAN : Change(l, behind, wrong)
  BY <1>4, <1>7 DEF Change
<1>8. CASE UNCHANGED coordVars
  BY <1>4, <1>8 DEF coordVars
<1> QED  BY <1>1, <1>2, <1>3, <1>5, <1>6, <1>7, <1>8 DEF CoordNext

(* The timezone layer becomes active only on top of an active base and     *)
(* only from observation, however long its validation ran (reconcile and   *)
(* execute of rollup-cutover.ts), for any limits and any tasks.            *)
THEOREM TimezoneAlwaysOnBase == CoordSpec => TimezoneOnBase
<1>1. CutInv /\ [CoordNext]_coordVars => CutInv' /\ [Activates]_coordVars
  BY CutInvNext
<1> QED  BY <1>1, CutInvInit, PTL DEF CoordSpec, TimezoneOnBase, Activates

(* The rows of the tasks, the list of those started longest ago and the    *)
(* load slot: every task is in the list exactly once.                      *)
WorkerRow == [backlog : BOOLEAN, waited : 0..3, recent : BOOLEAN, backoff : BOOLEAN]

WorkInv ==
    /\ work \in [CoordWorkers -> WorkerRow]
    /\ started \in Seq(CoordWorkers) /\ IsInjective(started) /\ ToSet(started) = CoordWorkers
    /\ slot.task \in CoordWorkers \union {"idle", "validation"}

LEMMA TasksFinite == IsFiniteSet(CoordWorkers)
<1>1. IsFiniteSet({"pricing_repair"} \union {"usage_15m_v2"} \union {"timezone"})
  BY FS_Singleton, FS_Union
<1>2. {"pricing_repair", "usage_15m_v2", "timezone"} =
         {"pricing_repair"} \union {"usage_15m_v2"} \union {"timezone"}
  OBVIOUS
<1> QED  BY <1>1, <1>2, CoordAssumption, FS_Subset

LEMMA WorkInvInit == CoordInit => WorkInv
<1> SUFFICES ASSUME CoordInit  PROVE WorkInv
  OBVIOUS
<1> DEFINE n == Cardinality(CoordWorkers)
<1>1. IsFiniteSet(CoordWorkers) /\ n \in Nat
  BY TasksFinite, FS_CardinalityType
<1>2. started \in [1..n -> CoordWorkers]
  BY DEF CoordInit
<1>3. started \in Seq(CoordWorkers) /\ Len(started) = n /\ DOMAIN started = 1..n
  BY <1>1, <1>2
<1>4. IsInjective(started)
  <2>1. \A w \in CoordWorkers : Order(w) \in Int
    BY CoordAssumption DEF Order
  <2>2. \A i, j \in 1..n : i < j => Order(started[i]) < Order(started[j])
    BY <1>3 DEF CoordInit
  <2>3. \A i, j \in 1..n : i # j => started[i] # started[j]
    BY <1>1, <1>2, <2>1, <2>2
  <2> QED  BY <1>3, <2>3 DEF IsInjective
<1>5. ToSet(started) \subseteq CoordWorkers
  BY <1>2, <1>3 DEF ToSet
<1>6. Cardinality(ToSet(started)) = n
  BY <1>3, <1>4, InjectiveCounts
<1>7. ToSet(started) = CoordWorkers
  BY <1>1, <1>5, <1>6, FS_Subset
<1>8. work \in [CoordWorkers -> WorkerRow] /\ slot.task = "idle"
  BY DEF CoordInit, WorkerRow, Free
<1> QED  BY <1>3, <1>4, <1>7, <1>8 DEF WorkInv

LEMMA WorkInvNext == WorkInv /\ [CoordNext]_coordVars => WorkInv'
<1> SUFFICES ASSUME WorkInv, [CoordNext]_coordVars  PROVE WorkInv'
  OBVIOUS
<1>1. CASE Tick
  <2>1. \A w \in CoordWorkers : Eligible(work[w]) \in WorkerRow
    <3> SUFFICES ASSUME NEW w \in CoordWorkers  PROVE Eligible(work[w]) \in WorkerRow
      OBVIOUS
    <3> DEFINE row == work[w]
               waited == IF row.backlog THEN Max({row.waited, 1}) ELSE 0
    <3>1. row \in WorkerRow
      BY DEF WorkInv
    <3> HIDE DEF row
    <3>2. row.waited \in 0..3
      BY <3>1 DEF WorkerRow
    <3>3. \E x \in {row.waited, 1} : \A y \in {row.waited, 1} : x >= y
      BY <3>2
    <3>4. Max({row.waited, 1}) \in {row.waited, 1}
      BY <3>3 DEF Max
    <3>5. waited \in 0..3
      BY <3>2, <3>4
    <3>6. Eligible(row) = [row EXCEPT !.waited = waited]
      BY DEF Eligible
    <3> HIDE DEF waited
    <3> QED  BY <3>1, <3>5, <3>6 DEF WorkerRow, row
  <2>2. work' \in [CoordWorkers -> WorkerRow] /\ UNCHANGED started
    BY <1>1, <2>1 DEF Tick
  <2>3. slot'.task \in CoordWorkers \union {"idle", "validation"}
    <3>1. CASE ReconcileAll.validate # {}
      <4>1. PICK l \in ReconcileAll.validate : slot' = [task |-> "validation", layer |-> l, state |-> cut'[l].state]
        BY <1>1, <3>1 DEF Tick
      <4> QED  BY <4>1
    <3>2. CASE ReconcileAll.validate = {}
      <4>1. slot' = Free \/ \E w \in Chosen : slot' = [task |-> w]
        BY <1>1, <3>2 DEF Tick
      <4>2. \A w \in Chosen : w \in CoordWorkers
        BY DEF Chosen
      <4> QED  BY <4>1, <4>2 DEF Free
    <3> QED  BY <3>1, <3>2
  <2> QED  BY <2>2, <2>3 DEF WorkInv
<1>2. CASE Minute
  <2>1. \A w \in CoordWorkers :
           [work[w] EXCEPT !.waited = IF @ > 0 THEN Min({@ + 1, 3}) ELSE 0,
                           !.recent = FALSE, !.backoff = FALSE] \in WorkerRow
    <3> SUFFICES ASSUME NEW w \in CoordWorkers
                 PROVE  [work[w] EXCEPT !.waited = IF @ > 0 THEN Min({@ + 1, 3}) ELSE 0,
                                        !.recent = FALSE, !.backoff = FALSE] \in WorkerRow
      OBVIOUS
    <3> DEFINE row == work[w]
               waited == IF row.waited > 0 THEN Min({row.waited + 1, 3}) ELSE 0
    <3>1. row \in WorkerRow /\ row.waited \in 0..3
      BY DEF WorkInv, WorkerRow
    <3> HIDE DEF row
    <3>2. Min({row.waited + 1, 3}) \in 0..3
      BY <3>1, MinOfNats
    <3>3. waited \in 0..3
      BY <3>2
    <3> HIDE DEF waited
    <3>4. [row EXCEPT !.waited = waited, !.recent = FALSE, !.backoff = FALSE] \in WorkerRow
      BY <3>1, <3>3 DEF WorkerRow
    <3> QED  BY <3>4 DEF row, waited
  <2>2. work' \in [CoordWorkers -> WorkerRow] /\ UNCHANGED <<started, slot>>
    BY <1>2, <2>1 DEF Minute
  <2> QED  BY <2>2 DEF WorkInv
<1>3. CASE \E l \in Layers : Validate(l) \/ ValidationFails(l)
  <2>1. slot' = Free /\ UNCHANGED <<work, started>>
    BY <1>3 DEF Validate, ValidationFails
  <2> QED  BY <2>1 DEF WorkInv, Free
<1>4. CASE \E w \in CoordWorkers, left, fails \in BOOLEAN : RunWorker(w, left, fails)
  <2>1. PICK w \in CoordWorkers, left \in BOOLEAN, fails \in BOOLEAN : RunWorker(w, left, fails)
    BY <1>4
  <2>2. work[w] \in WorkerRow
    BY DEF WorkInv
  <2>3. [work[w] EXCEPT !.recent = TRUE, !.backlog = left \/ fails, !.backoff = fails] \in WorkerRow
    <3> DEFINE backlog == left \/ fails
    <3>1. backlog \in BOOLEAN
      OBVIOUS
    <3> HIDE DEF backlog
    <3>2. [work[w] EXCEPT !.recent = TRUE, !.backlog = backlog, !.backoff = fails] \in WorkerRow
      BY <2>2, <3>1 DEF WorkerRow
    <3> QED  BY <3>2 DEF backlog
  <2>4. \E row \in WorkerRow : work' = [work EXCEPT ![w] = row]
    <3>1. CASE w \in HardDisabled
      BY <2>1, <2>2, <3>1 DEF RunWorker
    <3>2. CASE w \notin HardDisabled
      BY <2>1, <2>3, <3>2 DEF RunWorker
    <3> QED  BY <3>1, <3>2
  <2>5. work' \in [CoordWorkers -> WorkerRow]
    BY <2>4 DEF WorkInv
  <2>6. started' \in Seq(CoordWorkers) /\ IsInjective(started') /\ ToSet(started') = CoordWorkers
    <3>1. CASE w \in HardDisabled
      BY <2>1, <3>1 DEF RunWorker, WorkInv
    <3>2. CASE w \notin HardDisabled
      <4> DEFINE i == Position(w)
                 others == RemoveAt(started, i)
      <4>1. started \in Seq(CoordWorkers) /\ IsInjective(started) /\ ToSet(started) = CoordWorkers
        BY DEF WorkInv
      <4>2. \E j \in 1..Len(started) : started[j] = w
        BY <4>1, LenProperties DEF ToSet
      <4>3. i \in 1..Len(started) /\ started[i] = w
        BY <4>2 DEF Position
      <4>4. started' = Append(others, w)
        BY <2>1, <3>2 DEF RunWorker
      <4> HIDE DEF i
      <4>5. others \in Seq(CoordWorkers) /\ ToSet(others) = CoordWorkers \ {w} /\ IsInjective(others)
        BY <4>1, <4>3, RemovedOnce
      <4> HIDE DEF others
      <4>6. Append(others, w) \in Seq(CoordWorkers) /\ IsInjective(Append(others, w))
            /\ ToSet(Append(others, w)) = ToSet(others) \union {w}
        BY <4>5, AppendOnce
      <4> QED  BY <4>4, <4>5, <4>6
    <3> QED  BY <3>1, <3>2
  <2>7. slot' = Free
    BY <2>1 DEF RunWorker
  <2> QED  BY <2>5, <2>6, <2>7 DEF WorkInv, Free
<1>5. CASE \E w \in CoordWorkers : Arrive(w)
  <2>1. PICK w \in CoordWorkers : work' = [work EXCEPT ![w].backlog = TRUE]
    BY <1>5 DEF Arrive
  <2>2. work[w] \in WorkerRow /\ [work[w] EXCEPT !.backlog = TRUE] \in WorkerRow
    BY DEF WorkInv, WorkerRow
  <2>3. work' \in [CoordWorkers -> WorkerRow]
    BY <2>1, <2>2 DEF WorkInv
  <2> QED  BY <1>5, <2>3 DEF Arrive, WorkInv
<1>6. CASE \E l \in Layers, behind \in Backlogs, wrong \in BOOLEAN : Change(l, behind, wrong)
  BY <1>6 DEF Change, WorkInv
<1>7. CASE UNCHANGED coordVars
  BY <1>7 DEF coordVars, WorkInv
<1> QED  BY <1>1, <1>2, <1>3, <1>4, <1>5, <1>6, <1>7 DEF CoordNext

(* The cutover and worker rows keep their types and every task stays in    *)
(* the order of their starts exactly once, for any limits and any tasks    *)
(* (rollup-cutover.ts, noteStart and selectRollupTask of                   *)
(* rollup-coordinator.ts).                                                 *)
THEOREM CoordTyped == CoordSpec => []CoordTypeOK
<1>1. WorkInv => started \in [1..Cardinality(CoordWorkers) -> CoordWorkers]
  <2> SUFFICES ASSUME WorkInv  PROVE started \in [1..Cardinality(CoordWorkers) -> CoordWorkers]
    OBVIOUS
  <2>1. started \in [1..Len(started) -> CoordWorkers]
    BY DEF WorkInv
  <2>2. Len(started) = Cardinality(CoordWorkers)
    BY InjectiveCounts DEF WorkInv
  <2> QED  BY <2>1, <2>2
<1>2. CutInv /\ WorkInv => CoordTypeOK
  BY <1>1 DEF CutInv, WorkInv, CoordTypeOK, CutRecord, CutStates, HealthyRange, FailureRange, WorkerRow
<1> QED  BY <1>2, CutInvInit, CutInvNext, WorkInvInit, WorkInvNext, PTL DEF CoordSpec
=============================================================================
