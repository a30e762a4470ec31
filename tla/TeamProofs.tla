------------------------------ MODULE TeamProofs ------------------------------
(***************************************************************************)
(* What the backfill of a first team keeps, for any events and buckets,    *)
(* any limits of a batch and any number of failures.                       *)
(***************************************************************************)
EXTENDS TeamAttribution, FiniteSetTheorems, WellFoundedInduction, NaturalsInduction, TLAPS

(* Where a batch is: what it has staged, fenced, deleted and inserted.     *)
StagedAt == {"stage_legacy", "fence", "delete_v2", "delete_legacy", "insert_v2", "insert_legacy",
             "verify", "complete", "cleanup"}
BothStagedAt == StagedAt \ {"stage_legacy"}
FencedAt == BothStagedAt \ {"fence", "cleanup"}
DeletedAt(t) == IF t = "v2" THEN BothStagedAt \ {"fence", "delete_v2"}
                ELSE BothStagedAt \ {"fence", "delete_v2", "delete_legacy"}
InsertedAt(t) == IF t = "v2" THEN {"insert_legacy", "verify", "complete", "cleanup"}
                 ELSE {"verify", "complete", "cleanup"}
ReplacingAt == StagedAt \cup {"stage_v2"}
Places == {"idle", "dead", "outbox", "raw", "replace", "pick", "progress"} \cup ReplacingAt

Workers == [at : Places, to : {"never", "open", "closed"}, left : 0..TeamLimit,
            events : SUBSET TeamEvents, buckets : SUBSET OldBuckets, more : BOOLEAN]

TeamJobs == [status : {"none", "pending", "running", "succeeded", "failed"}, due : BOOLEAN]

(* The usage of a bucket is there once, unless it is staged and fenced.    *)
UsageThere ==
    \A t \in Tables, b \in OldBuckets :
       /\ rollup[t][b] \in {{}, {NoTeam}, {Team}}
       /\ rollup[t][b] = {} => b \in fence /\ b \in staged[t]

(* Unless a bucket is staged, the tables have the same team for it, and if *)
(* that is the new one the timezone rollups have been told.                *)
TablesAgree ==
    /\ staged["legacy"] \subseteq staged["v2"]
    /\ \A b \in OldBuckets \ staged["v2"] :
          rollup["v2"][b] = rollup["legacy"][b] /\ (rollup["v2"][b] = {Team} => b \in stale)

(* What a batch over the rollups has done when it is at a step.            *)
BatchInOrder ==
    /\ worker.at = "stage_v2" =>
          \/ staged["v2"] = worker.buckets
          \/ staged["v2"] = {} /\ \A b \in worker.buckets : rollup["v2"][b] = {NoTeam}
    /\ worker.at \in StagedAt => staged["v2"] = worker.buckets
    /\ worker.at \in BothStagedAt =>
          \A b \in worker.buckets : rollup["legacy"][b] = {NoTeam} => b \in staged["legacy"]
    /\ worker.at \in FencedAt => worker.buckets \subseteq fence
    /\ \A t \in Tables : worker.at \in DeletedAt(t) =>
          \A b \in worker.buckets : rollup[t][b] # {NoTeam}
    /\ \A t \in Tables : worker.at \in InsertedAt(t) =>
          \A b \in worker.buckets : rollup[t][b] = {Team}
    /\ worker.at = "cleanup" => worker.buckets \subseteq stale

(* A job ends when a batch finds no bucket without a team.                 *)
EndInOrder ==
    /\ worker.at = "progress" /\ ~worker.more =>
          staged["v2"] = {} /\ \A b \in OldBuckets : rollup["v2"][b] = {Team}
    /\ worker.at \in ReplacingAt => worker.more

(* A batch goes on to the rollups when every raw event has the team.       *)
RawInOrder ==
    /\ worker.at \in {"raw", "pick"} => worker.left > 0
    /\ worker.at = "replace" => worker.events \subseteq remarked
    /\ worker.at = "replace" /\ ~worker.more =>
          worker.left > 0 /\ \A e \in RawEvents : raw[e] = NoTeam => e \in worker.events
    /\ \A e \in RawEvents : raw[e] = NoTeam \/ (raw[e] = Team /\ e \in remarked)
    /\ worker.at \in {"pick"} \cup ReplacingAt \/ (worker.at = "progress" /\ ~worker.more) =>
          \A e \in RawEvents : raw[e] = Team

(* There is a job once there was a team, and it runs while a worker has it. *)
JobInOrder ==
    /\ worker.at # "idle" => job.status = "running"
    /\ membership = "never" => job.status = "none"

RollupInv == UsageThere /\ TablesAgree /\ BatchInOrder /\ EndInOrder
TeamInv == TeamTypeOK /\ RollupInv /\ RawInOrder /\ JobInOrder /\ DoneIsAttributed

-----------------------------------------------------------------------------
(* The steps of a batch over the rollups.                                  *)
LEMMA AfterSteps ==
    /\ DOMAIN After = ReplacingAt
    /\ After["stage_v2"] = "stage_legacy" /\ After["stage_legacy"] = "fence"
    /\ After["fence"] = "delete_v2" /\ After["delete_v2"] = "delete_legacy"
    /\ After["delete_legacy"] = "insert_v2" /\ After["insert_v2"] = "insert_legacy"
    /\ After["insert_legacy"] = "verify" /\ After["verify"] = "complete"
    /\ After["complete"] = "cleanup" /\ After["cleanup"] = "progress"
<1> QED  BY DEF After, ReplacingAt, StagedAt

(* What the types say of the worker.                                       *)
LEMMA WorkerTyped == TeamTypeOK => worker \in Workers
<1> QED  BY AfterSteps DEF TeamTypeOK, Workers, Places

(* A step leaves the batch its buckets.                                    *)
LEMMA StepFacts ==
    ASSUME TeamTypeOK, NEW s \in ReplacingAt, TeamStep(s)
    PROVE  /\ worker.at = s /\ worker' \in Workers /\ worker'.at = After[s]
           /\ worker'.buckets = worker.buckets /\ worker'.more = worker.more
<1>1. worker \in Workers /\ worker.at = s /\ worker' = [worker EXCEPT !.at = After[s]]
  BY WorkerTyped DEF TeamStep
<1>2. After[s] \in Places
  BY AfterSteps DEF Places, ReplacingAt, StagedAt
<1> QED  BY <1>1, <1>2 DEF Workers

(* Steps that touch neither the rollups nor what a batch does with them.   *)
LEMMA RollupsStay ==
    ASSUME RollupInv, UNCHANGED <<rollup, staged, fence, stale>>,
           worker' = worker \/ (worker'.at \notin ReplacingAt /\ (worker'.at = "progress" => worker'.more))
    PROVE  RollupInv'
<1>1. UsageThere' /\ TablesAgree'
  BY DEF RollupInv, UsageThere, TablesAgree
<1>2. CASE worker' = worker
  BY <1>1, <1>2 DEF RollupInv, BatchInOrder, EndInOrder
<1>3. CASE worker'.at \notin ReplacingAt /\ (worker'.at = "progress" => worker'.more)
  <2>1. worker'.at \notin StagedAt \cup {"stage_v2"} /\ worker'.at \notin BothStagedAt
        /\ worker'.at \notin FencedAt /\ \A t \in Tables : worker'.at \notin DeletedAt(t)
                                                         /\ worker'.at \notin InsertedAt(t)
    BY <1>3 DEF ReplacingAt, StagedAt, BothStagedAt, FencedAt, DeletedAt, InsertedAt
  <2>2. BatchInOrder'
    BY <2>1 DEF BatchInOrder, StagedAt
  <2>3. EndInOrder'
    BY <1>3 DEF EndInOrder
  <2> QED  BY <1>1, <2>2, <2>3 DEF RollupInv
<1> QED  BY <1>2, <1>3

(* A job that is done has no worker, so it stays done.                     *)
LEMMA DoneStays ==
    ASSUME TeamInv, rollup' = rollup, stale' = stale, raw' = raw, remarked' = remarked,
           job'.status = job.status \/ job'.status # "succeeded"
    PROVE  DoneIsAttributed'
<1> QED  BY DEF TeamInv, DoneIsAttributed

-----------------------------------------------------------------------------
(* What users and the flusher do is not the backfill's business.           *)
LEMMA OthersKeep ==
    ASSUME TeamInv,
           \/ ChangeUserTeam \/ BackoffEnds
           \/ \E e \in PendingEvents : AcceptEvent(e) \/ FlushRow(e) \/ FlushOfRowFails(e)
    PROVE  TeamInv'
<1> USE DEF TeamInv
<1>1. CASE ChangeUserTeam
  <2> USE <1>1 DEF ChangeUserTeam
  <2>1. TeamTypeOK'
    <3>1. membership' \in {"never", "open", "closed"}
      OBVIOUS
    <3>2. job' \in TeamJobs
      <4>1. job \in TeamJobs /\ [status |-> "pending", due |-> TRUE] \in TeamJobs
        BY DEF TeamTypeOK, TeamJobs
      <4>2. job' = job \/ job' = [status |-> "pending", due |-> TRUE]
        OBVIOUS
      <4> QED  BY <4>1, <4>2
    <3> HIDE <1>1
    <3>3. UNCHANGED <<row, hand, raw, remarked, rollup, staged, fence, stale, worker, teamFaults>>
      BY <1>1
    <3> HIDE DEF ChangeUserTeam
    <3> QED  BY <3>1, <3>2, <3>3 DEF TeamTypeOK, TeamJobs
  <2>2. RollupInv'
    BY RollupsStay
  <2>3. RawInOrder'
    BY DEF RawInOrder
  <2>4. JobInOrder'
    BY DEF JobInOrder
  <2>5. DoneIsAttributed'
    BY DEF DoneIsAttributed
  <2> QED  BY <2>1, <2>2, <2>3, <2>4, <2>5
<1>2. CASE BackoffEnds
  <2> USE <1>2 DEF BackoffEnds
  <2>1. TeamTypeOK' /\ job'.status = job.status
    BY DEF TeamTypeOK
  <2>2. RollupInv'
    BY RollupsStay
  <2>3. RawInOrder' /\ JobInOrder'
    BY <2>1 DEF RawInOrder, JobInOrder
  <2>4. DoneIsAttributed'
    BY <2>1, DoneStays
  <2> QED  BY <2>1, <2>2, <2>3, <2>4
<1>3. ASSUME NEW e \in PendingEvents, AcceptEvent(e)
      PROVE  TeamInv'
  <2> USE <1>3 DEF AcceptEvent
  <2>1. TeamTypeOK'
    BY DEF TeamTypeOK
  <2>2. RollupInv'
    BY RollupsStay
  <2>3. RawInOrder' /\ JobInOrder'
    BY DEF RawInOrder, JobInOrder
  <2>4. DoneIsAttributed'
    BY DoneStays
  <2> QED  BY <2>1, <2>2, <2>3, <2>4
<1>4. ASSUME NEW e \in PendingEvents, FlushRow(e)
      PROVE  TeamInv'
  <2> USE <1>4 DEF FlushRow
  <2>1. TeamTypeOK'
    <3>1. hand[e].team \in {NoTeam, Team} /\ e \in TeamEvents
      BY DEF TeamTypeOK, TeamEvents
    <3>2. raw' \in [TeamEvents -> {"absent", NoTeam, Team}]
      BY <3>1 DEF TeamTypeOK
    <3> DEFINE Hands == [at : {"none", "read", "inserted", "locked"}, team : {NoTeam, Team}]
               Rows == [when : {"no", "never", "open", "closed"}, team : {NoTeam, Team},
                        delivered : BOOLEAN]
    <3>3. hand \in [PendingEvents -> Hands] /\ row \in [PendingEvents -> Rows]
          /\ hand[e] \in Hands /\ row[e] \in Rows /\ row[e].team \in {NoTeam, Team}
      BY DEF TeamTypeOK
    <3>4. hand' = hand \/ \E h \in Hands : hand' = [hand EXCEPT ![e] = h]
      <4> DEFINE locked == [hand[e] EXCEPT !.at = "locked"]
                 none == [hand[e] EXCEPT !.at = "none"]
                 read == [at |-> "read", team |-> row[e].team]
                 inserted == [at |-> "inserted", team |-> NoTeam]
      <4>1. locked \in Hands /\ none \in Hands /\ read \in Hands /\ inserted \in Hands
        BY <3>3
      <4>2. \/ hand' = [hand EXCEPT ![e] = read] \/ hand' = [hand EXCEPT ![e] = inserted]
            \/ hand' = [hand EXCEPT ![e] = locked] \/ hand' = [hand EXCEPT ![e] = none]
        OBVIOUS
      <4> HIDE DEF locked, none, read, inserted, Hands
      <4> QED  BY <4>1, <4>2
    <3> DEFINE x == [row[e] EXCEPT !.delivered = TRUE]
    <3>5. x \in Rows /\ (row' = row \/ row' = [row EXCEPT ![e] = x])
      BY <3>3
    <3> HIDE DEF x
    <3>6. UNCHANGED <<membership, remarked, rollup, staged, fence, stale, job, worker, teamFaults>>
      OBVIOUS
    <3> HIDE <1>4
    <3> HIDE DEF FlushRow
    <3>7. row' \in [PendingEvents -> Rows]
      BY <3>3, <3>5
    <3> HIDE DEF Hands
    <3>8. hand' \in [PendingEvents -> Hands]
      BY <3>3, <3>4
    <3> QED  BY <3>2, <3>6, <3>7, <3>8 DEF TeamTypeOK, Hands
  <2>2. \A x \in RawEvents : raw'[x] = raw[x]
    BY TeamAssumption DEF TeamTypeOK, TeamEvents
  <2>3. RollupInv'
    BY RollupsStay
  <2>4. RawInOrder' /\ JobInOrder'
    BY <2>2 DEF RawInOrder, JobInOrder
  <2>5. DoneIsAttributed'
    BY <2>2 DEF DoneIsAttributed
  <2> QED  BY <2>1, <2>3, <2>4, <2>5
<1>5. ASSUME NEW e \in PendingEvents, FlushOfRowFails(e)
      PROVE  TeamInv'
  <2> USE <1>5 DEF FlushOfRowFails
  <2>1. TeamTypeOK'
    BY TeamAssumption DEF TeamTypeOK
  <2>2. RollupInv'
    BY RollupsStay
  <2>3. RawInOrder' /\ JobInOrder'
    BY DEF RawInOrder, JobInOrder
  <2>4. DoneIsAttributed'
    BY DoneStays
  <2> QED  BY <2>1, <2>2, <2>3, <2>4
<1> QED  BY <1>1, <1>2, <1>3, <1>4, <1>5

(* A worker takes the job with a batch of its own, or leaves it.           *)
LEMMA WorkerLeavesKeeps ==
    ASSUME TeamInv, ClaimJob \/ AttributionFails \/ WorkerDies
    PROVE  TeamInv'
<1> USE DEF TeamInv
<1> DEFINE none == NoBatch
           dead == [NoBatch EXCEPT !.at = "dead"]
           claimed == [NoBatch EXCEPT !.at = "outbox", !.to = membership, !.left = TeamLimit]
<1>1. /\ none \in Workers /\ none.at = "idle"
      /\ dead \in Workers /\ dead.at = "dead"
      /\ claimed \in Workers /\ claimed.at = "outbox"
  <2>1. NoBatch \in Workers /\ NoBatch.at = "idle"
    BY TeamAssumption DEF Workers, NoBatch, Places
  <2>2. membership \in {"never", "open", "closed"} /\ TeamLimit \in 0..TeamLimit
    BY TeamAssumption DEF TeamTypeOK
  <2> QED  BY <2>1, <2>2 DEF Workers, Places
<1>2. /\ worker' \in Workers /\ worker'.at \in {"idle", "dead", "outbox"}
      /\ worker'.at # "idle" => job'.status = "running"
      /\ job' \in TeamJobs /\ job'.status # "none" /\ job'.status # "succeeded"
  <2>1. CASE ClaimJob
    <3>1. worker' = claimed
      BY <2>1 DEF ClaimJob
    <3> HIDE DEF claimed
    <3>2. job' \in TeamJobs /\ job'.status = "running"
      BY <2>1 DEF ClaimJob, TeamTypeOK, TeamJobs
    <3> QED  BY <3>1, <3>2, <1>1
  <2>2. CASE AttributionFails
    <3>1. worker' = none /\ job' = [status |-> "failed", due |-> FALSE]
      BY <2>2 DEF AttributionFails
    <3> HIDE DEF none
    <3> QED  BY <3>1, <1>1 DEF TeamJobs
  <2>3. CASE WorkerDies
    <3>1. worker' = dead /\ job' = job /\ worker.at # "idle"
      BY <2>3 DEF WorkerDies
    <3> HIDE DEF dead
    <3> QED  BY <3>1, <1>1 DEF TeamJobs, TeamTypeOK, JobInOrder
  <2> QED  BY <2>1, <2>2, <2>3
<1> HIDE DEF none, dead, claimed
<1>3. UNCHANGED <<membership, row, hand, raw, remarked, rollup, staged, fence, stale>>
  BY DEF ClaimJob, AttributionFails, WorkerDies
<1>4. teamFaults' \in 0..MaxTeamFaults
  BY TeamAssumption DEF ClaimJob, AttributionFails, WorkerDies, TeamTypeOK
<1>5. membership # "never"
  BY AfterSteps DEF ClaimJob, AttributionFails, WorkerDies, JobInOrder
<1>6. TeamTypeOK'
  BY <1>2, <1>3, <1>4, AfterSteps DEF TeamTypeOK, Workers, TeamJobs, Places
<1>7. RollupInv'
  BY <1>2, <1>3, RollupsStay DEF ReplacingAt, StagedAt
<1>8. RawInOrder'
  BY <1>2, <1>3 DEF RawInOrder, ReplacingAt, StagedAt
<1>9. JobInOrder'
  BY <1>2, <1>3, <1>5 DEF JobInOrder
<1>10. DoneIsAttributed'
  BY <1>2 DEF DoneIsAttributed
<1> QED  BY <1>6, <1>7, <1>8, <1>9, <1>10

(* The job of a batch that found nothing to do is done.                    *)
LEMMA MarkProgressKeeps ==
    ASSUME TeamInv, MarkProgress
    PROVE  TeamInv'
<1> USE DEF TeamInv
<1>1. /\ UNCHANGED <<membership, row, hand, raw, remarked, rollup, staged, stale, teamFaults>>
      /\ worker.at = "progress" /\ worker' = NoBatch
      /\ worker.more => fence' = fence
      /\ job'.status = (IF worker.more THEN "pending" ELSE "succeeded") /\ job'.due = TRUE
      /\ job' = [status |-> job'.status, due |-> TRUE]
      /\ fence' = fence \/ fence' = {}
  BY DEF MarkProgress
<1>2. worker' \in Workers /\ worker'.at = "idle"
  BY <1>1, TeamAssumption DEF Workers, Places, NoBatch
<1>3. TeamTypeOK'
  <2>1. job' \in TeamJobs
    BY <1>1 DEF TeamJobs
  <2> QED  BY <1>1, <1>2, <2>1, AfterSteps DEF TeamTypeOK, Workers, TeamJobs, Places
<1>4. ~worker.more => \A t \in Tables, b \in OldBuckets : rollup[t][b] = {Team}
  <2> SUFFICES ASSUME ~worker.more, NEW t \in Tables, NEW b \in OldBuckets
               PROVE  rollup[t][b] = {Team}
    OBVIOUS
  <2>1. staged["v2"] = {} /\ rollup["v2"][b] = {Team}
    BY <1>1 DEF RollupInv, EndInOrder
  <2>2. rollup["v2"][b] = rollup["legacy"][b]
    BY <2>1 DEF RollupInv, TablesAgree
  <2>3. t \in {"legacy", "v2"}
    BY ONLY t \in Tables DEF Tables
  <2> QED  BY ONLY <2>1, <2>2, <2>3
<1>5. ~worker.more => stale = OldBuckets
  <2> SUFFICES ASSUME ~worker.more  PROVE stale = OldBuckets
    OBVIOUS
  <2>1. stale \subseteq OldBuckets
    BY DEF TeamTypeOK
  <2>2. ASSUME NEW b \in OldBuckets  PROVE b \in stale
    <3>1. staged["v2"] = {} /\ rollup["v2"][b] = {Team}
      BY <1>1 DEF RollupInv, EndInOrder
    <3> QED  BY <3>1 DEF RollupInv, TablesAgree
  <2> QED  BY ONLY <2>1, <2>2
<1>6. RollupInv'
  <2>1. CASE worker.more
    BY <2>1, <1>1, <1>2, RollupsStay DEF ReplacingAt, StagedAt
  <2>2. CASE ~worker.more
    <3>1. UsageThere'
      BY <2>2, <1>1, <1>4 DEF UsageThere
    <3>2. TablesAgree'
      BY <1>1 DEF TablesAgree, RollupInv
    <3>3. BatchInOrder' /\ EndInOrder'
      BY <1>2 DEF BatchInOrder, EndInOrder, ReplacingAt, StagedAt, BothStagedAt, FencedAt,
                  DeletedAt, InsertedAt
    <3> QED  BY <3>1, <3>2, <3>3 DEF RollupInv
  <2> QED  BY <2>1, <2>2
<1>7. RawInOrder'
  BY <1>1, <1>2 DEF RawInOrder, ReplacingAt, StagedAt
<1>8. JobInOrder'
  BY <1>1, <1>2 DEF JobInOrder
<1>9. DoneIsAttributed'
  <2>1. ~worker.more => \A e \in RawEvents : raw[e] = Team /\ e \in remarked
    BY <1>1 DEF RawInOrder, NoTeam, Team
  <2> QED  BY <1>1, <1>4, <1>5, <2>1 DEF DoneIsAttributed
<1> QED  BY <1>3, <1>6, <1>7, <1>8, <1>9

(* What a query with a limit returns.                                      *)
LEMMA ChosenFacts ==
    ASSUME NEW S, IsFiniteSet(S), NEW n \in Nat,
           NEW c \in kSubset(IF Cardinality(S) > n THEN n ELSE Cardinality(S), S)
    PROVE  /\ c \subseteq S /\ Cardinality(c) \in 0..n
           /\ Cardinality(S) > n => Cardinality(c) = n
           /\ Cardinality(S) > n \/ c = S
<1>1. Cardinality(S) \in Nat
  BY FS_CardinalityType
<1>2. c \subseteq S /\ Cardinality(c) = (IF Cardinality(S) > n THEN n ELSE Cardinality(S))
  BY DEF kSubset
<1>3. Cardinality(c) \in 0..n /\ (Cardinality(S) > n => Cardinality(c) = n)
  BY <1>1, <1>2
<1>4. Cardinality(S) > n \/ c = S
  BY <1>2, FS_Subset
<1> QED  BY <1>2, <1>3, <1>4

(* There are finitely many events.                                         *)
LEMMA EventsFinite == \A S \in SUBSET TeamEvents : IsFiniteSet(S)
<1>1. IsFiniteSet(TeamEvents)
  BY TeamAssumption, FS_Union DEF TeamEvents
<1> QED  BY <1>1, FS_Subset

(* A batch gives the team to rows of the outbox first.                     *)
LEMMA BackfillPendingKeeps ==
    ASSUME TeamInv, BackfillPendingOutbox
    PROVE  TeamInv'
<1> USE DEF TeamInv
<1> DEFINE probe == {e \in PendingEvents : /\ row[e].when # "no" /\ row[e].team = NoTeam
                                           /\ ~row[e].delivered /\ InPeriod(e)
                                           /\ hand[e].at # "locked"}
           more == Cardinality(probe) > TeamLimit
<1>1. PICK chosen \in kSubset(IF more THEN TeamLimit ELSE Cardinality(probe), probe) :
         /\ row' = [e \in PendingEvents |->
                      IF e \in chosen THEN [row[e] EXCEPT !.team = Team] ELSE row[e]]
         /\ worker' = IF more \/ TeamLimit - Cardinality(chosen) = 0
                        THEN [worker EXCEPT !.at = "progress", !.more = TRUE]
                        ELSE [worker EXCEPT !.at = "raw", !.left = TeamLimit - Cardinality(chosen)]
  BY DEF BackfillPendingOutbox
<1>2. /\ UNCHANGED <<membership, hand, raw, remarked, rollup, staged, fence, stale, job, teamFaults>>
      /\ worker.at = "outbox" /\ worker \in Workers
  BY WorkerTyped DEF BackfillPendingOutbox
<1>3. IsFiniteSet(probe) /\ TeamLimit \in Nat \ {0}
  BY EventsFinite, TeamAssumption DEF TeamEvents
<1> HIDE DEF probe
<1>4. Cardinality(chosen) \in 0..TeamLimit
  BY <1>3, ChosenFacts
<1> DEFINE left == TeamLimit - Cardinality(chosen)
<1>5. left \in 0..TeamLimit
  BY <1>3, <1>4
<1>6. worker' = (IF more \/ left = 0
                   THEN [worker EXCEPT !.at = "progress", !.more = TRUE]
                   ELSE [worker EXCEPT !.at = "raw", !.left = left])
  BY <1>1
<1> HIDE DEF left, more
<1>7. /\ worker' \in Workers
      /\ \/ worker'.at = "progress" /\ worker'.more
         \/ worker'.at = "raw" /\ worker'.left > 0
  <2>1. CASE more \/ left = 0
    <3>1. worker' = [worker EXCEPT !.at = "progress", !.more = TRUE]
      BY <2>1, <1>6
    <3>2. worker'.at = "progress" /\ worker'.more
      BY <1>2, <3>1 DEF Workers
    <3>3. worker' \in Workers
      BY <1>2, <3>1 DEF Workers, Places
    <3> QED  BY <3>2, <3>3
  <2>2. CASE ~(more \/ left = 0)
    <3>1. left > 0
      BY <2>2, <1>5, <1>3
    <3> QED  BY <3>1, <2>2, <1>2, <1>5, <1>6 DEF Workers, Places
  <2> QED  BY <2>1, <2>2
<1>8. row' \in [PendingEvents -> [when : {"no", "never", "open", "closed"}, team : {NoTeam, Team},
                                  delivered : BOOLEAN]]
  <2> DEFINE Rows == [when : {"no", "never", "open", "closed"}, team : {NoTeam, Team},
                      delivered : BOOLEAN]
  <2>1. row \in [PendingEvents -> Rows]
    BY DEF TeamTypeOK
  <2>2. \A e \in PendingEvents : [row[e] EXCEPT !.team = Team] \in Rows
    BY <2>1
  <2> HIDE DEF Rows
  <2>3. row' \in [PendingEvents -> Rows]
    BY <1>1, <2>1, <2>2
  <2> QED  BY <2>3 DEF Rows
<1>9. TeamTypeOK'
  BY <1>2, <1>7, <1>8, AfterSteps DEF TeamTypeOK, Workers, Places
<1>10. RollupInv'
  BY <1>2, <1>7, RollupsStay DEF ReplacingAt, StagedAt
<1>11. RawInOrder'
  BY <1>2, <1>7 DEF RawInOrder, ReplacingAt, StagedAt
<1>12. JobInOrder'
  BY <1>2 DEF JobInOrder
<1>13. DoneIsAttributed'
  BY <1>2, DoneStays
<1> QED  BY <1>9, <1>10, <1>11, <1>12, <1>13

(* It then marks the buckets of raw events, all of them if they fit ...    *)
LEMMA MarkRowsDirtyKeeps ==
    ASSUME TeamInv, MarkAttributionRowsDirty
    PROVE  TeamInv'
<1> USE DEF TeamInv
<1> DEFINE found == {e \in TeamEvents : raw[e] = NoTeam /\ InPeriod(e)}
           full == Cardinality(found) > worker.left
<1>1. PICK chosen \in kSubset(IF full THEN worker.left ELSE Cardinality(found), found) :
         /\ remarked' = remarked \cup chosen
         /\ worker' = [worker EXCEPT !.at = IF chosen = {} THEN "pick" ELSE "replace",
                                     !.events = chosen,
                                     !.left = worker.left - Cardinality(chosen),
                                     !.more = full \/ worker.left = Cardinality(chosen)]
  BY DEF MarkAttributionRowsDirty
<1>2. /\ UNCHANGED <<membership, row, hand, raw, rollup, staged, fence, stale, job, teamFaults>>
      /\ worker.at = "raw" /\ worker \in Workers
  BY WorkerTyped DEF MarkAttributionRowsDirty
<1>3. worker.left \in 0..TeamLimit /\ TeamLimit \in Nat /\ worker.left > 0 /\ worker.left \in Nat
  BY <1>2, TeamAssumption DEF Workers, RawInOrder
<1>4. IsFiniteSet(found) /\ found \subseteq TeamEvents
  BY EventsFinite
<1>5. \A e \in RawEvents : raw[e] = NoTeam => e \in found
  BY TeamAssumption DEF InPeriod, TeamEvents
<1> HIDE DEF found
<1>6. /\ chosen \subseteq found /\ Cardinality(chosen) \in 0..worker.left
      /\ full => Cardinality(chosen) = worker.left
      /\ full \/ chosen = found
  BY <1>3, <1>4, ChosenFacts
<1> DEFINE left == worker.left - Cardinality(chosen)
           rest == full \/ worker.left = Cardinality(chosen)
           at == IF chosen = {} THEN "pick" ELSE "replace"
<1>7. left \in 0..TeamLimit /\ (~rest => left > 0)
  BY <1>3, <1>6
<1>8. chosen = {} => found = {} /\ ~rest
  <2>1. Cardinality({}) = 0
    BY FS_EmptySet
  <2> QED  BY <2>1, <1>3, <1>6
<1>9. ~rest => found = chosen
  BY <1>6
<1>10. at \in Places /\ at \in {"pick", "replace"} /\ (at = "pick" <=> chosen = {}) /\ rest \in BOOLEAN
  BY DEF Places
<1>11. worker' = [worker EXCEPT !.at = at, !.events = chosen, !.left = left, !.more = rest]
  BY <1>1
<1> HIDE DEF left, rest, at, full
<1>12. /\ worker' \in Workers /\ worker'.at = at /\ worker'.events = chosen /\ worker'.left = left
       /\ worker'.more = rest
  BY <1>2, <1>4, <1>6, <1>7, <1>10, <1>11 DEF Workers
<1>13. TeamTypeOK'
  BY <1>1, <1>2, <1>4, <1>6, <1>12, AfterSteps DEF TeamTypeOK, Workers, Places
<1>14. RollupInv'
  BY <1>2, <1>10, <1>12, RollupsStay DEF ReplacingAt, StagedAt
<1>15. RawInOrder'
  <2>1. worker'.at \in {"raw", "pick"} => worker'.left > 0
    BY <1>7, <1>8, <1>10, <1>12
  <2>2. worker'.at = "replace" => worker'.events \subseteq remarked'
    BY <1>1, <1>12
  <2>3. worker'.at = "replace" /\ ~worker'.more =>
          worker'.left > 0 /\ \A e \in RawEvents : raw'[e] = NoTeam => e \in worker'.events
    BY <1>2, <1>5, <1>7, <1>9, <1>12
  <2>4. \A e \in RawEvents : raw'[e] = NoTeam \/ (raw'[e] = Team /\ e \in remarked')
    BY <1>1, <1>2 DEF RawInOrder
  <2>5. worker'.at \notin ReplacingAt /\ worker'.at # "progress"
    BY <1>10, <1>12 DEF ReplacingAt, StagedAt
  <2>6. worker'.at = "pick" => \A e \in RawEvents : raw'[e] = Team
    BY <1>2, <1>5, <1>8, <1>10, <1>12 DEF RawInOrder
  <2> QED  BY <2>1, <2>2, <2>3, <2>4, <2>5, <2>6 DEF RawInOrder
<1>16. JobInOrder'
  BY <1>2 DEF JobInOrder
<1>17. DoneIsAttributed'
  <2>1. job.status # "succeeded"
    BY <1>2 DEF JobInOrder
  <2> QED  BY <1>2, <2>1 DEF DoneIsAttributed
<1> QED  BY <1>13, <1>14, <1>15, <1>16, <1>17

(* ... and inserts them again with the team.                               *)
LEMMA ReplaceRawKeeps ==
    ASSUME TeamInv, ReplaceRaw
    PROVE  TeamInv'
<1> USE DEF TeamInv
<1>1. /\ UNCHANGED <<membership, row, hand, remarked, rollup, staged, fence, stale, job, teamFaults>>
      /\ worker.at = "replace" /\ worker \in Workers
      /\ raw' = [e \in TeamEvents |-> IF e \in worker.events THEN Team ELSE raw[e]]
      /\ worker' = [worker EXCEPT !.at = IF worker.more THEN "progress" ELSE "pick"]
  BY WorkerTyped DEF ReplaceRaw
<1>2. /\ worker' \in Workers /\ worker'.at \in {"progress", "pick"}
      /\ worker'.at = "progress" <=> worker.more
      /\ worker'.more = worker.more /\ worker'.left = worker.left /\ worker'.events = worker.events
  BY <1>1 DEF Workers, Places
<1>3. raw' \in [TeamEvents -> {"absent", NoTeam, Team}]
  BY <1>1 DEF TeamTypeOK
<1>4. TeamTypeOK'
  BY <1>1, <1>2, <1>3, AfterSteps DEF TeamTypeOK, Workers, Places
<1>5. RollupInv'
  BY <1>1, <1>2, RollupsStay DEF ReplacingAt, StagedAt
<1>6. RawInOrder'
  <2>1. \A e \in RawEvents : e \in TeamEvents
    BY DEF TeamEvents
  <2>2. \A e \in RawEvents : raw'[e] = (IF e \in worker.events THEN Team ELSE raw[e])
    BY <1>1, <2>1
  <2>3. \A e \in RawEvents : raw'[e] = NoTeam \/ (raw'[e] = Team /\ e \in remarked')
    BY <1>1, <2>2 DEF RawInOrder
  <2>4. ~worker.more => worker.left > 0 /\ \A e \in RawEvents : raw'[e] = Team
    BY <1>1, <2>2 DEF RawInOrder
  <2> QED  BY <1>2, <2>3, <2>4 DEF RawInOrder, ReplacingAt, StagedAt
<1>7. JobInOrder'
  BY <1>1 DEF JobInOrder
<1>8. DoneIsAttributed'
  <2>1. job.status # "succeeded"
    BY <1>1 DEF JobInOrder
  <2> QED  BY <1>1, <2>1 DEF DoneIsAttributed
<1> QED  BY <1>4, <1>5, <1>6, <1>7, <1>8

-----------------------------------------------------------------------------
(* The first of some buckets.                                              *)
LEMMA FirstBucket ==
    ASSUME NEW S \in SUBSET Nat, S # {}
    PROVE  \E first \in S : \A b \in S : ~(b < first)
<1>1. PICK first \in S : \A b \in S : <<b, first>> \notin OpToRel(<, Nat)
  BY WFMin, NatLessThanWellFounded, Zenon
<1>2. \A b \in S : ~(b < first)
  BY <1>1, Zenon DEF OpToRel
<1> QED  BY <1>2

(* The rollup of a bucket has no team or the new one, or it is staged.     *)
LEMMA UsageOf ==
    ASSUME UsageThere, NEW t \in Tables, NEW b \in OldBuckets
    PROVE  /\ NoTeam \in rollup[t][b] => rollup[t][b] = {NoTeam}
           /\ NoTeam \notin rollup[t][b] /\ b \notin staged[t] => rollup[t][b] = {Team}
<1>1. NoTeam # Team
  BY ONLY DEF NoTeam, Team
<1>2. rollup[t][b] \in {{}, {NoTeam}, {Team}} /\ (rollup[t][b] = {} => b \in staged[t])
  BY ONLY UsageThere, t \in Tables, b \in OldBuckets DEF UsageThere
<1> QED  BY ONLY <1>1, <1>2

(* If the batch finds no bucket to work on, every bucket has the team.     *)
LEMMA PickBucketsKeeps ==
    ASSUME TeamInv, PickBuckets
    PROVE  TeamInv'
<1> USE DEF TeamInv
<1> DEFINE open == {b \in OldBuckets : NoTeam \in rollup["v2"][b]}
           limit == IF worker.left < BucketLimit THEN worker.left ELSE BucketLimit
           next == {b \in open : Cardinality({c \in open : c < b}) < limit}
           picked == IF staged["v2"] # {} THEN staged["v2"] ELSE next
           at == IF picked = {} THEN "progress" ELSE "stage_v2"
           more == picked # {}
<1>1. /\ UNCHANGED <<membership, row, hand, raw, remarked, rollup, staged, fence, stale, job, teamFaults>>
      /\ worker.at = "pick" /\ worker \in Workers
      /\ worker' = [worker EXCEPT !.at = at, !.buckets = picked, !.more = more]
  BY WorkerTyped DEF PickBuckets
<1>2. limit \in Nat \ {0} /\ open \subseteq OldBuckets /\ OldBuckets \subseteq Nat
  BY <1>1, TeamAssumption DEF Workers, RawInOrder
<1>3. next = {} => open = {}
  <2> SUFFICES ASSUME open # {}  PROVE next # {}
    OBVIOUS
  <2> HIDE DEF limit, open
  <2>1. PICK first \in open : \A b \in open : ~(b < first)
    BY <1>2, FirstBucket
  <2>2. {c \in open : c < first} = {}
    BY <2>1
  <2>3. Cardinality({c \in open : c < first}) < limit
    BY <2>2, <1>2, FS_EmptySet
  <2> QED  BY <2>1, <2>3
<1>4. next \subseteq open
  OBVIOUS
<1> HIDE DEF limit, next
<1>5. "v2" \in Tables /\ UsageThere /\ TablesAgree /\ TeamTypeOK
  BY DEF RollupInv, Tables
<1>6. picked \subseteq OldBuckets
  BY <1>2, <1>4, <1>5 DEF TeamTypeOK
<1>7. picked = {} => staged["v2"] = {} /\ \A b \in OldBuckets : rollup["v2"][b] = {Team}
  BY <1>3, <1>5, UsageOf
<1>8. \/ staged["v2"] = picked
      \/ staged["v2"] = {} /\ \A b \in picked : rollup["v2"][b] = {NoTeam}
  BY <1>4, <1>5, UsageOf
<1>9. at \in Places /\ at \in {"progress", "stage_v2"} /\ (at = "progress" <=> picked = {}) /\ more \in BOOLEAN
      /\ (more <=> picked # {})
  BY DEF Places, ReplacingAt
<1> HIDE DEF picked, open, at, more
<1>10. /\ worker' \in Workers /\ worker'.at = at /\ worker'.buckets = picked /\ worker'.more = more
  BY <1>1, <1>6, <1>9 DEF Workers
<1>11. TeamTypeOK'
  BY <1>1, <1>10, AfterSteps DEF TeamTypeOK, Workers, Places
<1>12. RollupInv'
  <2>1. UsageThere' /\ TablesAgree'
    BY <1>1, <1>5 DEF UsageThere, TablesAgree
  <2>2. worker'.at \notin StagedAt /\ worker'.at \notin BothStagedAt /\ worker'.at \notin FencedAt
    BY <1>9, <1>10 DEF StagedAt, BothStagedAt, FencedAt
  <2>3. \A t \in Tables : worker'.at \notin DeletedAt(t) /\ worker'.at \notin InsertedAt(t)
    BY <1>9, <1>10 DEF StagedAt, BothStagedAt, DeletedAt, InsertedAt
  <2>4. BatchInOrder'
    BY <1>1, <1>8, <1>9, <1>10, <2>2, <2>3 DEF BatchInOrder
  <2>5. EndInOrder'
    BY <1>1, <1>7, <1>9, <1>10 DEF EndInOrder, ReplacingAt, StagedAt
  <2> QED  BY <2>1, <2>4, <2>5 DEF RollupInv
<1>13. RawInOrder'
  BY <1>1, <1>9, <1>10 DEF RawInOrder, ReplacingAt, StagedAt
<1>14. JobInOrder'
  BY <1>1 DEF JobInOrder
<1>15. DoneIsAttributed'
  BY <1>1, DoneStays
<1> QED  BY <1>11, <1>12, <1>13, <1>14, <1>15

(* A step over the rollups concerns neither the events nor the job.        *)
LEMMA RollupStepKeeps ==
    ASSUME TeamInv, NEW s \in ReplacingAt, TeamStep(s), RollupInv',
           UNCHANGED <<membership, row, hand, raw, remarked, job>>,
           rollup' \in [Tables -> [OldBuckets -> SUBSET {NoTeam, Team}]],
           staged' \in [Tables -> SUBSET OldBuckets],
           fence' \subseteq OldBuckets, stale' \subseteq OldBuckets,
           teamFaults' \in 0..MaxTeamFaults
    PROVE  TeamInv'
<1> USE DEF TeamInv
<1>1. /\ worker.at = s /\ worker' \in Workers /\ worker'.at = After[s]
  BY StepFacts
<1>2. worker'.at \in ReplacingAt \cup {"progress"}
  BY <1>1, AfterSteps DEF ReplacingAt, StagedAt
<1>3. TeamTypeOK'
  BY <1>1, AfterSteps DEF TeamTypeOK, Workers, Places
<1>4. RawInOrder'
  BY <1>1, <1>2 DEF RawInOrder, ReplacingAt, StagedAt
<1>5. job.status = "running"
  BY <1>1 DEF JobInOrder, ReplacingAt, StagedAt
<1>6. JobInOrder'
  BY <1>5 DEF JobInOrder
<1>7. DoneIsAttributed'
  BY <1>5 DEF DoneIsAttributed
<1> QED  BY <1>3, <1>4, <1>6, <1>7

(* The rows without a team are staged, of one table and then the other.    *)
LEMMA StageRollupKeeps ==
    ASSUME TeamInv, NEW t \in Tables, StageRollup(t)
    PROVE  TeamInv'
<1> USE DEF TeamInv
<1> DEFINE s == StageStep[t]
           rows == {b \in worker.buckets : NoTeam \in rollup[t][b]}
<1>1. /\ s \in ReplacingAt /\ TeamStep(s)
      /\ staged' = [staged EXCEPT ![t] = staged[t] \cup rows]
      /\ UNCHANGED <<membership, row, hand, raw, remarked, rollup, fence, stale, job, teamFaults>>
      /\ \/ t = "v2" /\ s = "stage_v2"
         \/ t = "legacy" /\ s = "stage_legacy"
  BY DEF StageRollup, StageStep, Tables, ReplacingAt, StagedAt
<1>2. /\ worker.at = s /\ worker' \in Workers /\ worker'.at = After[s]
      /\ worker'.buckets = worker.buckets /\ worker'.more = worker.more
  BY <1>1, StepFacts
<1>3. worker.buckets \subseteq OldBuckets /\ worker \in Workers /\ worker.more
  BY <1>1, <1>2, WorkerTyped DEF Workers, RollupInv, EndInOrder
<1>4. /\ staged' \in [Tables -> SUBSET OldBuckets]
      /\ staged'[t] = staged[t] \cup rows
      /\ \A u \in Tables \ {t} : staged'[u] = staged[u]
  BY <1>1, <1>3 DEF TeamTypeOK
<1> HIDE DEF s, rows
<1>5. UsageThere /\ TablesAgree /\ UsageThere'
  BY <1>1, <1>4 DEF RollupInv, UsageThere
<1>6. rollup \in [Tables -> [OldBuckets -> SUBSET {NoTeam, Team}]] /\ BatchInOrder
  BY DEF TeamTypeOK, RollupInv
<1>7. RollupInv'
  <2>1. CASE t = "v2"
    <3>1. worker.at = "stage_v2" /\ worker'.at = "stage_legacy" /\ "legacy" \in Tables \ {t}
      BY <2>1, <1>1, <1>2, AfterSteps DEF Tables
    <3>2. staged'["v2"] = worker.buckets
      <4>1. CASE staged["v2"] = worker.buckets
        BY <4>1, <2>1, <1>4 DEF rows
      <4>2. CASE staged["v2"] = {} /\ \A b \in worker.buckets : rollup["v2"][b] = {NoTeam}
        BY <4>2, <2>1, <1>4 DEF rows
      <4> QED  BY <4>1, <4>2, <3>1, <1>6 DEF BatchInOrder
    <3>3. staged["v2"] \subseteq staged'["v2"] /\ staged'["legacy"] = staged["legacy"]
      BY <2>1, <3>1, <1>4
    <3>4. TablesAgree'
      BY <3>3, <1>1, <1>5 DEF TablesAgree
    <3>5. BatchInOrder'
      BY <3>1, <3>2, <1>2 DEF BatchInOrder, StagedAt, BothStagedAt, FencedAt, DeletedAt, InsertedAt
    <3>6. EndInOrder'
      BY <3>1, <1>2, <1>3 DEF EndInOrder
    <3> QED  BY <3>4, <3>5, <3>6, <1>5 DEF RollupInv
  <2>2. CASE t = "legacy"
    <3>1. worker.at = "stage_legacy" /\ worker'.at = "fence" /\ "v2" \in Tables \ {t}
      BY <2>2, <1>1, <1>2, AfterSteps DEF Tables
    <3>2. staged'["v2"] = worker.buckets /\ staged'["v2"] = staged["v2"]
      BY <3>1, <1>4, <1>6 DEF BatchInOrder, StagedAt
    <3>3. staged'["legacy"] = staged["legacy"] \cup rows /\ rows \subseteq worker.buckets
      BY <2>2, <1>4 DEF rows
    <3>4. TablesAgree'
      BY <3>2, <3>3, <1>1, <1>5 DEF TablesAgree
    <3>5. \A b \in worker'.buckets : rollup'["legacy"][b] = {NoTeam} => b \in staged'["legacy"]
      BY <3>3, <2>2, <1>1, <1>2 DEF rows
    <3>6. BatchInOrder'
      BY <3>1, <3>2, <3>5, <1>2 DEF BatchInOrder, StagedAt, BothStagedAt, FencedAt, DeletedAt, InsertedAt
    <3>7. EndInOrder'
      BY <3>1, <1>2, <1>3 DEF EndInOrder
    <3> QED  BY <3>4, <3>6, <3>7, <1>5 DEF RollupInv
  <2> QED  BY <2>1, <2>2 DEF Tables
<1> QED  BY <1>1, <1>4, <1>7, RollupStepKeeps DEF TeamTypeOK

(* The fence covers the buckets of the batch and what it covered before.   *)
LEMMA RaiseFenceKeeps ==
    ASSUME TeamInv, RaiseFence
    PROVE  TeamInv'
<1> USE DEF TeamInv
<1>1. /\ TeamStep("fence") /\ "fence" \in ReplacingAt
      /\ fence' = {b \in OldBuckets :
                    \E first, last \in fence \cup worker.buckets : first <= b /\ b <= last}
      /\ UNCHANGED <<membership, row, hand, raw, remarked, rollup, staged, stale, job, teamFaults>>
  BY DEF RaiseFence, ReplacingAt, StagedAt
<1>2. /\ worker.at = "fence" /\ worker' \in Workers /\ worker'.at = "delete_v2"
      /\ worker'.buckets = worker.buckets /\ worker'.more = worker.more
  BY <1>1, StepFacts, AfterSteps
<1>3. fence \cup worker.buckets \subseteq OldBuckets /\ worker.more
  BY <1>1, <1>2, WorkerTyped DEF Workers, TeamTypeOK, RollupInv, EndInOrder
<1>4. fence \cup worker.buckets \subseteq fence'
  <2> SUFFICES ASSUME NEW b \in fence \cup worker.buckets  PROVE b \in fence'
    OBVIOUS
  <2>1. b \in OldBuckets
    BY <1>3
  <2>2. OldBuckets \subseteq Nat
    BY TeamAssumption
  <2>3. b \in Nat
    BY <2>1, <2>2
  <2>4. b <= b
    BY <2>3
  <2>5. \E first, last \in fence \cup worker.buckets : first <= b /\ b <= last
    BY <2>4, Zenon
  <2> QED  BY <1>1, <2>1, <2>5, Zenon
<1>5. UsageThere' /\ TablesAgree'
  BY <1>1, <1>4 DEF RollupInv, UsageThere, TablesAgree
<1>6. BatchInOrder'
  BY <1>1, <1>2, <1>4 DEF RollupInv, BatchInOrder, StagedAt, BothStagedAt, FencedAt, DeletedAt, InsertedAt
<1>7. EndInOrder'
  BY <1>2, <1>3 DEF EndInOrder
<1>8. RollupInv'
  BY <1>5, <1>6, <1>7 DEF RollupInv
<1>9. fence' \subseteq OldBuckets
  BY <1>1
<1> QED  BY <1>1, <1>8, <1>9, RollupStepKeeps DEF TeamTypeOK

(* What is deleted has been staged, and is fenced.                         *)
LEMMA DeleteOldKeeps ==
    ASSUME TeamInv, NEW t \in Tables, DeleteOld(t)
    PROVE  TeamInv'
<1> USE DEF TeamInv
<1> DEFINE s == DeleteStep[t]
           kept == [b \in OldBuckets |-> IF b \in worker.buckets THEN rollup[t][b] \ {NoTeam}
                                         ELSE rollup[t][b]]
<1>1. /\ s \in ReplacingAt /\ TeamStep(s)
      /\ rollup' = [rollup EXCEPT ![t] = kept]
      /\ UNCHANGED <<membership, row, hand, raw, remarked, staged, fence, stale, job, teamFaults>>
      /\ \/ t = "v2" /\ s = "delete_v2"
         \/ t = "legacy" /\ s = "delete_legacy"
  BY DEF DeleteOld, DeleteStep, Tables, ReplacingAt, StagedAt
<1>2. /\ worker.at = s /\ worker' \in Workers /\ worker'.at = After[s]
      /\ worker'.buckets = worker.buckets /\ worker'.more = worker.more
  BY <1>1, StepFacts
<1>3. worker.buckets \subseteq OldBuckets /\ worker.more
  BY <1>1, <1>2, WorkerTyped DEF Workers, RollupInv, EndInOrder
<1>4. rollup \in [Tables -> [OldBuckets -> SUBSET {NoTeam, Team}]]
  BY DEF TeamTypeOK
<1>5. kept \in [OldBuckets -> SUBSET {NoTeam, Team}]
  BY <1>4
<1>6. \A b \in OldBuckets : kept[b] = (IF b \in worker.buckets THEN rollup[t][b] \ {NoTeam}
                                       ELSE rollup[t][b])
  OBVIOUS
<1> HIDE DEF s, kept
<1>7. /\ rollup' \in [Tables -> [OldBuckets -> SUBSET {NoTeam, Team}]]
      /\ rollup'[t] = kept /\ \A u \in Tables \ {t} : rollup'[u] = rollup[u]
  BY <1>1, <1>4, <1>5
<1>8. UsageThere /\ TablesAgree /\ BatchInOrder
  BY DEF RollupInv
<1>9. /\ staged["v2"] = worker.buckets /\ worker.buckets \subseteq fence
      /\ \A b \in worker.buckets : rollup["legacy"][b] = {NoTeam} => b \in staged["legacy"]
  BY <1>1, <1>2, <1>8 DEF BatchInOrder, StagedAt, BothStagedAt, FencedAt
<1>10. \A b \in worker.buckets : rollup[t][b] = {NoTeam} => b \in staged[t]
  BY <1>1, <1>9
<1>11. UsageThere'
  <2>1. ASSUME NEW b \in OldBuckets
        PROVE  /\ kept[b] \in {{}, {NoTeam}, {Team}}
               /\ kept[b] = {} => b \in fence /\ b \in staged[t]
    <3>1. rollup[t][b] \in {{}, {NoTeam}, {Team}} /\ (rollup[t][b] = {} => b \in fence /\ b \in staged[t])
      BY <1>8 DEF UsageThere
    <3>2. NoTeam # Team
      BY DEF NoTeam, Team
    <3>3. CASE b \in worker.buckets
      BY <3>1, <3>2, <3>3, <1>6, <1>9, <1>10
    <3>4. CASE b \notin worker.buckets
      BY <3>1, <3>4, <1>6
    <3> QED  BY <3>3, <3>4
  <2> QED  BY <2>1, <1>1, <1>7, <1>8 DEF UsageThere
<1>12. TablesAgree'
  <2>1. \A u \in Tables, b \in OldBuckets \ staged["v2"] : rollup'[u][b] = rollup[u][b]
    BY <1>6, <1>7, <1>9
  <2> QED  BY <2>1, <1>1, <1>8 DEF TablesAgree, Tables
<1>13. \A b \in worker.buckets : rollup'[t][b] # {NoTeam}
  BY <1>3, <1>6, <1>7
<1>14. BatchInOrder'
  <2>1. CASE t = "v2"
    <3>1. worker.at = "delete_v2" /\ worker'.at = "delete_legacy" /\ rollup'["legacy"] = rollup["legacy"]
      BY <2>1, <1>1, <1>2, <1>7, AfterSteps DEF Tables
    <3>2. \A u \in Tables : worker'.at \in DeletedAt(u) => u = "v2"
      BY <3>1 DEF Tables, DeletedAt, BothStagedAt, StagedAt
    <3>3. \A u \in Tables : worker'.at \notin InsertedAt(u)
      BY <3>1 DEF Tables, InsertedAt
    <3> QED  BY <2>1, <3>1, <3>2, <3>3, <1>1, <1>2, <1>9, <1>13 DEF BatchInOrder
  <2>2. CASE t = "legacy"
    <3>1. worker.at = "delete_legacy" /\ worker'.at = "insert_v2" /\ rollup'["v2"] = rollup["v2"]
      BY <2>2, <1>1, <1>2, <1>7, AfterSteps DEF Tables
    <3>2. \A b \in worker.buckets : rollup["v2"][b] # {NoTeam}
      BY <3>1, <1>8 DEF BatchInOrder, DeletedAt, BothStagedAt, StagedAt, Tables
    <3>3. \A u \in Tables : worker'.at \notin InsertedAt(u)
      BY <3>1 DEF Tables, InsertedAt
    <3>4. \A u \in Tables, b \in worker.buckets : rollup'[u][b] # {NoTeam}
      BY <2>2, <3>1, <3>2, <1>13 DEF Tables
    <3> QED  BY <2>2, <3>1, <3>3, <3>4, <1>1, <1>2, <1>9 DEF BatchInOrder, Tables
  <2> QED  BY <2>1, <2>2 DEF Tables
<1>15. EndInOrder'
  <2>1. worker'.at # "progress"
    BY <1>1, <1>2, AfterSteps
  <2> QED  BY <2>1, <1>2, <1>3 DEF EndInOrder
<1>16. RollupInv'
  BY <1>11, <1>12, <1>14, <1>15 DEF RollupInv
<1> QED  BY <1>1, <1>7, <1>16, RollupStepKeeps DEF TeamTypeOK

(* What was deleted is inserted again from the staged rows.                *)
LEMMA InsertReplacementKeeps ==
    ASSUME TeamInv, NEW t \in Tables, InsertReplacement(t)
    PROVE  TeamInv'
<1> USE DEF TeamInv
<1> DEFINE s == InsertStep[t]
           full == [b \in OldBuckets |-> IF b \in staged[t] THEN rollup[t][b] \cup {Team}
                                         ELSE rollup[t][b]]
<1>1. /\ s \in ReplacingAt /\ TeamStep(s)
      /\ rollup' = [rollup EXCEPT ![t] = full]
      /\ UNCHANGED <<membership, row, hand, raw, remarked, staged, fence, stale, job, teamFaults>>
      /\ \/ t = "v2" /\ s = "insert_v2"
         \/ t = "legacy" /\ s = "insert_legacy"
  BY DEF InsertReplacement, InsertStep, Tables, ReplacingAt, StagedAt
<1>2. /\ worker.at = s /\ worker' \in Workers /\ worker'.at = After[s]
      /\ worker'.buckets = worker.buckets /\ worker'.more = worker.more
  BY <1>1, StepFacts
<1>3. worker.buckets \subseteq OldBuckets /\ worker.more
  BY <1>1, <1>2, WorkerTyped DEF Workers, RollupInv, EndInOrder
<1>4. rollup \in [Tables -> [OldBuckets -> SUBSET {NoTeam, Team}]]
  BY DEF TeamTypeOK
<1>5. full \in [OldBuckets -> SUBSET {NoTeam, Team}]
  BY <1>4
<1>6. \A b \in OldBuckets : full[b] = (IF b \in staged[t] THEN rollup[t][b] \cup {Team}
                                       ELSE rollup[t][b])
  OBVIOUS
<1> HIDE DEF s, full
<1>7. /\ rollup' \in [Tables -> [OldBuckets -> SUBSET {NoTeam, Team}]]
      /\ rollup'[t] = full /\ \A u \in Tables \ {t} : rollup'[u] = rollup[u]
  BY <1>1, <1>4, <1>5
<1>8. UsageThere /\ TablesAgree /\ BatchInOrder
  BY DEF RollupInv
<1>9. /\ staged["v2"] = worker.buckets /\ worker.buckets \subseteq fence
      /\ \A b \in worker.buckets : rollup["legacy"][b] = {NoTeam} => b \in staged["legacy"]
      /\ \A u \in Tables, b \in worker.buckets : rollup[u][b] # {NoTeam}
  BY <1>1, <1>2, <1>8 DEF BatchInOrder, StagedAt, BothStagedAt, FencedAt, DeletedAt, Tables
<1>10. staged[t] \subseteq worker.buckets
  BY <1>1, <1>8, <1>9 DEF TablesAgree
<1>11. \A b \in worker.buckets : rollup'[t][b] = {Team}
  <2> SUFFICES ASSUME NEW b \in worker.buckets  PROVE full[b] = {Team}
    BY <1>7
  <2>1. /\ rollup[t][b] = {} \/ rollup[t][b] = {Team}
        /\ rollup[t][b] = {} => b \in staged[t]
    BY <1>3, <1>8, <1>9 DEF UsageThere
  <2> QED  BY <2>1, <1>3, <1>6
<1>12. UsageThere'
  <2>1. ASSUME NEW b \in OldBuckets
        PROVE  /\ rollup'[t][b] \in {{}, {NoTeam}, {Team}}
               /\ rollup'[t][b] = {} => b \in fence /\ b \in staged[t]
    <3>1. CASE b \in worker.buckets
      BY <3>1, <1>11
    <3>2. CASE b \notin worker.buckets
      <4>1. rollup'[t][b] = rollup[t][b]
        BY <3>2, <1>6, <1>7, <1>10
      <4> QED  BY <4>1, <1>8 DEF UsageThere
    <3> QED  BY <3>1, <3>2
  <2> QED  BY <2>1, <1>1, <1>7, <1>8 DEF UsageThere
<1>13. TablesAgree'
  <2>1. \A u \in Tables, b \in OldBuckets \ staged["v2"] : rollup'[u][b] = rollup[u][b]
    BY <1>6, <1>7, <1>9, <1>10
  <2> QED  BY <2>1, <1>1, <1>8 DEF TablesAgree, Tables
<1>14. \A u \in Tables, b \in worker.buckets : rollup'[u][b] # {NoTeam}
  BY <1>7, <1>9, <1>11 DEF NoTeam, Team
<1>15. \A u \in Tables : worker'.at \in InsertedAt(u) =>
          \A b \in worker.buckets : rollup'[u][b] = {Team}
  <2>1. CASE t = "v2"
    <3>1. worker'.at = "insert_legacy"
      BY <2>1, <1>1, <1>2, AfterSteps
    <3>2. \A u \in Tables : worker'.at \in InsertedAt(u) => u = t
      BY <2>1, <3>1 DEF InsertedAt, Tables
    <3> QED  BY <3>2, <1>11
  <2>2. CASE t = "legacy"
    <3>1. worker.at = "insert_legacy" /\ rollup'["v2"] = rollup["v2"]
      BY <2>2, <1>1, <1>2, <1>7 DEF Tables
    <3>2. \A b \in worker.buckets : rollup["v2"][b] = {Team}
      BY <3>1, <1>8 DEF BatchInOrder, InsertedAt, Tables
    <3> QED  BY <2>2, <3>1, <3>2, <1>11 DEF Tables
  <2> QED  BY <2>1, <2>2 DEF Tables
<1>16. worker'.at \in {"insert_legacy", "verify"}
  BY <1>1, <1>2, AfterSteps
<1>17. BatchInOrder'
  <2>1. worker'.at # "stage_v2" /\ worker'.at # "cleanup"
    BY <1>16
  <2>2. \A b \in worker'.buckets : rollup'["legacy"][b] # {NoTeam}
    BY <1>2, <1>14 DEF Tables
  <2> QED  BY <2>1, <2>2, <1>1, <1>2, <1>9, <1>14, <1>15 DEF BatchInOrder
<1>18. EndInOrder'
  BY <1>16, <1>2, <1>3 DEF EndInOrder
<1>19. RollupInv'
  BY <1>12, <1>13, <1>17, <1>18 DEF RollupInv
<1> QED  BY <1>1, <1>7, <1>19, RollupStepKeeps DEF TeamTypeOK

(* The batch is verified, completed and cleaned up when all usage is there. *)
LEMMA ReplacementEndsKeeps ==
    ASSUME TeamInv, VerifyReplacement \/ CompleteReplacement \/ CleanupStaging
    PROVE  TeamInv'
<1> USE DEF TeamInv
<1>1. PICK s \in {"verify", "complete", "cleanup"} : TeamStep(s)
  BY DEF VerifyReplacement, CompleteReplacement, CleanupStaging
<1>2. /\ s \in ReplacingAt /\ worker.at = s /\ worker' \in Workers /\ worker'.at = After[s]
      /\ worker'.buckets = worker.buckets /\ worker'.more = worker.more
  BY <1>1, StepFacts DEF ReplacingAt, StagedAt
<1>3. worker.buckets \subseteq OldBuckets /\ worker.more
  BY <1>2, WorkerTyped DEF Workers, RollupInv, EndInOrder
<1>4. UsageThere /\ TablesAgree /\ BatchInOrder
  BY DEF RollupInv
<1>5. /\ staged["v2"] = worker.buckets /\ staged["legacy"] \subseteq worker.buckets
      /\ \A t \in Tables, b \in worker.buckets : rollup[t][b] = {Team}
  BY <1>1, <1>2, <1>4 DEF BatchInOrder, StagedAt, InsertedAt, Tables, TablesAgree
<1>6. \A t \in Tables, b \in OldBuckets : rollup[t][b] # {}
  <2> SUFFICES ASSUME NEW t \in Tables, NEW b \in OldBuckets, rollup[t][b] = {}  PROVE FALSE
    OBVIOUS
  <2>1. b \in staged[t]
    BY <1>4 DEF UsageThere
  <2>2. b \in worker.buckets
    BY <2>1, <1>5 DEF Tables
  <2> QED  BY <2>2, <1>5
<1>7. UNCHANGED <<membership, row, hand, raw, remarked, rollup, job>>
  BY DEF VerifyReplacement, CompleteReplacement, CleanupStaging
<1>8. UsageThere'
  BY <1>4, <1>6, <1>7 DEF UsageThere
<1>9. CASE VerifyReplacement
  <2>1. UNCHANGED <<staged, fence, stale, teamFaults>> /\ worker.at = "verify" /\ worker'.at = "complete"
    BY <1>9, <1>2, AfterSteps DEF VerifyReplacement, TeamStep
  <2>2. TablesAgree'
    BY <2>1, <1>4, <1>7 DEF TablesAgree
  <2>3. BatchInOrder'
    BY <2>1, <1>2, <1>4, <1>5, <1>7 DEF BatchInOrder, StagedAt, BothStagedAt, FencedAt, DeletedAt,
                                        InsertedAt, Tables
  <2>4. EndInOrder'
    BY <2>1, <1>2, <1>3 DEF EndInOrder
  <2>5. RollupInv'
    BY <2>2, <2>3, <2>4, <1>8 DEF RollupInv
  <2> QED  BY <2>1, <2>5, <1>1, <1>2, <1>7, RollupStepKeeps DEF TeamTypeOK
<1>10. CASE CompleteReplacement
  <2>1. /\ UNCHANGED <<staged, teamFaults>> /\ worker.at = "complete" /\ worker'.at = "cleanup"
        /\ stale' = stale \cup worker.buckets /\ fence' = {}
    BY <1>10, <1>2, AfterSteps DEF CompleteReplacement, TeamStep
  <2>2. TablesAgree'
    BY <2>1, <1>4, <1>7 DEF TablesAgree
  <2>3. BatchInOrder'
    <3>1. \A t \in Tables, b \in worker'.buckets : rollup'[t][b] = {Team}
      BY <1>2, <1>5, <1>7
    <3>2. {Team} # {NoTeam} /\ worker'.at \notin FencedAt /\ worker'.at # "stage_v2"
      BY <2>1 DEF Team, NoTeam, FencedAt
    <3> QED  BY <2>1, <3>1, <3>2, <1>2, <1>5 DEF BatchInOrder, Tables
  <2>4. EndInOrder'
    BY <2>1, <1>2, <1>3 DEF EndInOrder
  <2>5. RollupInv'
    BY <2>2, <2>3, <2>4, <1>8 DEF RollupInv
  <2>6. fence' \subseteq OldBuckets /\ stale' \subseteq OldBuckets
    BY <2>1, <1>3 DEF TeamTypeOK
  <2> QED  BY <2>1, <2>5, <2>6, <1>1, <1>2, <1>7, RollupStepKeeps DEF TeamTypeOK
<1>11. CASE CleanupStaging
  <2>1. /\ UNCHANGED <<fence, stale>> /\ worker.at = "cleanup" /\ worker'.at = "progress"
        /\ staged' = staged \/ staged' = [t \in Tables |-> {}]
        /\ teamFaults' \in 0..MaxTeamFaults
    <3>1. worker.at = "cleanup" /\ worker'.at = "progress"
      BY <1>11, <1>2, AfterSteps DEF CleanupStaging, TeamStep
    <3>2. teamFaults' \in 0..MaxTeamFaults
      BY <1>11, TeamAssumption DEF CleanupStaging, TeamTypeOK
    <3> QED  BY <1>11, <3>1, <3>2 DEF CleanupStaging
  <2>2. worker.buckets \subseteq stale
    BY <2>1, <1>4 DEF BatchInOrder
  <2>3. staged' \in [Tables -> SUBSET OldBuckets]
    BY <2>1 DEF TeamTypeOK
  <2>4. \A b \in OldBuckets :
          rollup["v2"][b] = rollup["legacy"][b] /\ (rollup["v2"][b] = {Team} => b \in stale)
    BY <2>2, <1>4, <1>5 DEF TablesAgree, Tables
  <2>5. TablesAgree'
    <3>1. staged'["legacy"] \subseteq staged'["v2"]
      BY <2>1, <1>4 DEF TablesAgree, Tables
    <3> QED  BY <2>1, <2>4, <3>1, <1>7 DEF TablesAgree
  <2>6. BatchInOrder'
    BY <2>1 DEF BatchInOrder, StagedAt, BothStagedAt, FencedAt, DeletedAt, InsertedAt
  <2>7. EndInOrder'
    BY <2>1, <1>2, <1>3 DEF EndInOrder, ReplacingAt, StagedAt
  <2>8. RollupInv'
    BY <2>5, <2>6, <2>7, <1>8 DEF RollupInv
  <2> QED  BY <2>1, <2>3, <2>8, <1>1, <1>2, <1>7, RollupStepKeeps DEF TeamTypeOK
<1> QED  BY <1>9, <1>10, <1>11

-----------------------------------------------------------------------------
(* The invariant holds at first ...                                        *)
LEMMA TeamInvInit == TeamInit => TeamInv
<1> SUFFICES ASSUME TeamInit  PROVE TeamInv
  OBVIOUS
<1> USE DEF TeamInit
<1>1. worker \in Workers /\ worker.at = "idle"
  BY TeamAssumption DEF Workers, Places, NoBatch
<1>2. TeamTypeOK
  <2>1. teamFaults \in 0..MaxTeamFaults
    BY TeamAssumption
  <2>2. worker \in [at : {"idle", "dead", "outbox", "raw", "replace", "pick", "progress"} \cup DOMAIN After,
                    to : {"never", "open", "closed"}, left : 0..TeamLimit,
                    events : SUBSET TeamEvents, buckets : SUBSET OldBuckets, more : BOOLEAN]
    BY <1>1, AfterSteps DEF Workers, Places
  <2> QED  BY <2>1, <2>2 DEF TeamTypeOK
<1>3. UsageThere /\ TablesAgree
  BY DEF UsageThere, TablesAgree, Tables, NoTeam, Team
<1>4. BatchInOrder /\ EndInOrder
  BY <1>1 DEF BatchInOrder, EndInOrder, ReplacingAt, StagedAt, BothStagedAt, FencedAt, DeletedAt,
              InsertedAt
<1>5. RawInOrder
  BY <1>1 DEF RawInOrder, TeamEvents, ReplacingAt, StagedAt
<1>6. JobInOrder /\ DoneIsAttributed
  BY <1>1 DEF JobInOrder, DoneIsAttributed
<1> QED  BY <1>2, <1>3, <1>4, <1>5, <1>6 DEF TeamInv, RollupInv

(* ... no step breaks it ...                                               *)
LEMMA TeamInvNext == TeamInv /\ [TeamNext]_teamVars => TeamInv'
<1> SUFFICES ASSUME TeamInv, [TeamNext]_teamVars  PROVE TeamInv'
  OBVIOUS
<1>1. CASE UNCHANGED teamVars
  <2>1. TeamTypeOK'
    BY <1>1 DEF TeamInv, teamVars, TeamTypeOK
  <2>2. RollupInv'
    BY <1>1, RollupsStay DEF TeamInv, teamVars
  <2>3. RawInOrder' /\ JobInOrder' /\ DoneIsAttributed'
    BY <1>1 DEF TeamInv, teamVars, RawInOrder, JobInOrder, DoneIsAttributed
  <2> QED  BY <2>1, <2>2, <2>3 DEF TeamInv
<1>2. CASE TeamNext
  BY <1>2, OthersKeep, WorkerLeavesKeeps, MarkProgressKeeps, BackfillPendingKeeps,
     MarkRowsDirtyKeeps, ReplaceRawKeeps, PickBucketsKeeps, StageRollupKeeps, RaiseFenceKeeps,
     DeleteOldKeeps, InsertReplacementKeeps, ReplacementEndsKeeps
     DEF TeamNext, BatchSteps, RollupSteps
<1> QED  BY <1>1, <1>2

(* ... so that it always holds.                                            *)
LEMMA TeamInvAlways == TeamSpec => []TeamInv
<1> QED  BY TeamInvInit, TeamInvNext, PTL DEF TeamSpec

(* The rows, rollups, job and worker of the backfill always have the types *)
(* that the code gives them (team-attribution.ts).                         *)
THEOREM TeamTyped == TeamSpec => []TeamTypeOK
<1>1. TeamInv => TeamTypeOK
  BY DEF TeamInv
<1> QED  BY <1>1, TeamInvAlways, PTL

(* Whatever call a worker dies in or fails at, the usage of which only     *)
(* rollups are left is there for exactly one team outside the fence, and   *)
(* behind it in the table or staged (backfillRollupOnly).                  *)
THEOREM RollupUsageAlwaysKept == TeamSpec => []RollupUsageKept
<1>1. TeamInv => RollupUsageKept
  <2> SUFFICES ASSUME TeamInv, NEW t \in Tables, NEW b \in OldBuckets
               PROVE  /\ b \notin fence => Cardinality(rollup[t][b]) = 1
                      /\ rollup[t][b] # {} \/ b \in staged[t]
    BY DEF RollupUsageKept
  <2>1. UsageThere
    BY DEF TeamInv, RollupInv
  <2>2. Cardinality({NoTeam}) = 1 /\ Cardinality({Team}) = 1
    BY FS_Singleton
  <2> QED  BY <2>1, <2>2 DEF UsageThere
<1> QED  BY <1>1, TeamInvAlways, PTL

(* A backfill that is done has given the team every bucket in both tables  *)
(* and every raw event of the user, and has had the rollups built from     *)
(* these events and the timezone rollups told (markProgress).              *)
THEOREM DoneAlwaysAttributed == TeamSpec => []DoneIsAttributed
<1>1. TeamInv => DoneIsAttributed
  BY DEF TeamInv
<1> QED  BY <1>1, TeamInvAlways, PTL
=============================================================================
