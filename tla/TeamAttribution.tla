--------------------------- MODULE TeamAttribution ----------------------------
(***************************************************************************)
(* The backfill that gives a user's unassigned usage to the first team the *)
(* user gets: a job in PostgreSQL, run batch by batch (first the rows of   *)
(* the outbox, then the raw events, then the buckets of which only rollups *)
(* are left).  A rollup has the team in its key, so its rows are replaced: *)
(* staged, deleted and inserted again, in two tables, under a fence that   *)
(* tells the pages of the organisation not to read.  The worker may die or *)
(* fail between any two of these calls.                                    *)
(*                                                                         *)
(* One user, one worker at a time: a batch ends within the five minutes    *)
(* after which another worker takes the job over.                          *)
(***************************************************************************)
EXTENDS FiniteSetsExt, Integers

CONSTANTS
    PendingEvents,    \* events that reach ClickHouse through the outbox
    RawEvents,        \* events that are raw in ClickHouse, without a team
    OldBuckets,       \* buckets, numbered, whose raw events are gone
    TeamLimit,        \* the rows of one batch
    BucketLimit,      \* the rollup buckets of one batch (16 in the code)
    MaxTeamFaults     \* bound: failed calls and deaths of the worker

ASSUME TeamAssumption ==
    /\ TeamLimit \in Nat \ {0} /\ BucketLimit \in Nat \ {0} /\ MaxTeamFaults \in Nat
    /\ OldBuckets \subseteq Nat
    /\ IsFiniteSet(PendingEvents) /\ IsFiniteSet(RawEvents)
    /\ PendingEvents \cap RawEvents = {}

VARIABLES
    membership,   \* the assignment: "never", "open" or "closed" again
    row,          \* outbox rows: when accepted, team ("" for none), delivered
    hand,         \* where the flusher is with a row, and the team it has read
    raw,          \* team of the raw event, "absent" before it is inserted
    remarked,       \* raw events whose bucket a batch has marked dirty
    rollup,       \* rollup[layer][bucket]: the teams that have its usage
    staged,       \* staged[layer]: the buckets staged for the job
    fence,        \* the buckets of the read fence
    stale,        \* buckets whose timezone rollups have been invalidated
    job,          \* status of the job, and whether its next attempt is due
    worker,       \* where the worker is, and what its batch works on
    teamFaults

teamVars == <<membership, row, hand, raw, remarked, rollup, staged, fence, stale, job, worker,
              teamFaults>>

Tables == {"v2", "legacy"}
NoTeam == ""
Team == "team"
TeamEvents == PendingEvents \cup RawEvents
NoBatch == [at |-> "idle", to |-> "open", left |-> 0, events |-> {}, buckets |-> {}, more |-> FALSE]

(* A bug: the fence is raised after the first delete. *)
AfterFenceLate == [stage_v2 |-> "stage_legacy", stage_legacy |-> "delete_v2", delete_v2 |-> "fence",
                   fence |-> "delete_legacy", delete_legacy |-> "insert_v2",
                   insert_v2 |-> "insert_legacy", insert_legacy |-> "verify", verify |-> "complete",
                   complete |-> "cleanup", cleanup |-> "progress"]

(* The steps of a batch over the rollups, in their order. *)
After == [stage_v2 |-> "stage_legacy", stage_legacy |-> "fence", fence |-> "delete_v2",
          delete_v2 |-> "delete_legacy", delete_legacy |-> "insert_v2",
          insert_v2 |-> "insert_legacy", insert_legacy |-> "verify", verify |-> "complete",
          complete |-> "cleanup", cleanup |-> "progress"]

StageStep == [v2 |-> "stage_v2", legacy |-> "stage_legacy"]
DeleteStep == [v2 |-> "delete_v2", legacy |-> "delete_legacy"]
InsertStep == [v2 |-> "insert_v2", legacy |-> "insert_legacy"]

TeamInit ==
    /\ membership = "never"
    /\ row = [e \in PendingEvents |-> [when |-> "no", team |-> NoTeam, delivered |-> FALSE]]
    /\ hand = [e \in PendingEvents |-> [at |-> "none", team |-> NoTeam]]
    /\ raw = [e \in TeamEvents |-> IF e \in RawEvents THEN NoTeam ELSE "absent"]
    /\ remarked = {}
    /\ rollup = [t \in Tables |-> [b \in OldBuckets |-> {NoTeam}]]
    /\ staged = [t \in Tables |-> {}]
    /\ fence = {} /\ stale = {}
    /\ job = [status |-> "none", due |-> FALSE]
    /\ worker = NoBatch
    /\ teamFaults = 0

-----------------------------------------------------------------------------
(* changeUserTeam: the first assignment reaches back to -infinity and      *)
(* creates the job; a later change ends it, and creates none.              *)
ChangeUserTeam ==
    /\ \/ /\ membership = "never" /\ membership' = "open"
          /\ job' = [status |-> "pending", due |-> TRUE]
       \/ /\ membership = "open" /\ membership' = "closed"
          /\ UNCHANGED job
    /\ UNCHANGED <<row, hand, raw, remarked, rollup, staged, fence, stale, worker, teamFaults>>

(* An event that happens now is accepted; its team is read under the lock  *)
(* of the user that changeUserTeam takes.                                  *)
AcceptEvent(e) ==
    /\ row[e].when = "no"
    /\ row' = [row EXCEPT ![e] = [when |-> membership, delivered |-> FALSE,
                                  team |-> IF membership = "open" THEN Team ELSE NoTeam]]
    /\ UNCHANGED <<membership, hand, raw, remarked, rollup, staged, fence, stale, job, worker, teamFaults>>

(* The flusher reads the row, inserts its copy (an insert that is repeated *)
(* is dropped by its token), and in a transaction marks the row delivered. *)
FlushRow(e) ==
    /\ \/ /\ row[e].when # "no" /\ ~row[e].delivered /\ hand[e].at = "none"
          /\ hand' = [hand EXCEPT ![e] = [at |-> "read", team |-> row[e].team]]
          /\ UNCHANGED <<row, raw>>
       \/ /\ hand[e].at = "read"
          /\ raw' = [raw EXCEPT ![e] = IF @ = "absent" THEN hand[e].team ELSE @]
          /\ hand' = [hand EXCEPT ![e] = [at |-> "inserted", team |-> NoTeam]]
          /\ UNCHANGED row
       \/ /\ hand[e].at = "inserted"
          /\ hand' = [hand EXCEPT ![e].at = "locked"]
          /\ UNCHANGED <<row, raw>>
       \/ /\ hand[e].at = "locked"
          /\ row' = [row EXCEPT ![e].delivered = TRUE]
          /\ hand' = [hand EXCEPT ![e].at = "none"]
          /\ UNCHANGED raw
    /\ UNCHANGED <<membership, remarked, rollup, staged, fence, stale, job, worker, teamFaults>>

(* The flush fails: the row is read again later. *)
FlushOfRowFails(e) ==
    /\ hand[e].at # "none"
    /\ teamFaults < MaxTeamFaults /\ teamFaults' = teamFaults + 1
    /\ hand' = [hand EXCEPT ![e] = [at |-> "none", team |-> NoTeam]]
    /\ UNCHANGED <<membership, row, raw, remarked, rollup, staged, fence, stale, job, worker>>

-----------------------------------------------------------------------------
(* A bug: the job of a worker that has died is not claimed. *)
ClaimJobWaiting ==
    /\ job.status \in {"pending", "failed"} /\ job.due /\ worker.at = "idle"
    /\ job' = [job EXCEPT !.status = "running"]
    /\ worker' = [NoBatch EXCEPT !.at = "outbox", !.to = membership, !.left = TeamLimit]
    /\ UNCHANGED <<membership, row, hand, raw, remarked, rollup, staged, fence, stale, teamFaults>>

(* claim: a job that is due, or one whose worker has gone. *)
ClaimJob ==
    /\ \/ job.status \in {"pending", "failed"} /\ job.due /\ worker.at = "idle"
       \/ job.status = "running" /\ worker.at = "dead"
    /\ job' = [job EXCEPT !.status = "running"]
    /\ worker' = [NoBatch EXCEPT !.at = "outbox", !.to = membership, !.left = TeamLimit]
    /\ UNCHANGED <<membership, row, hand, raw, remarked, rollup, staged, fence, stale, teamFaults>>

(* Whether the batch may give an event to the team: it happened before the *)
(* end of the assignment, as far as the claim saw one.                     *)
InPeriod(e) ==
    worker.to = "closed" /\ e \in PendingEvents => row[e].when # "closed"

(* backfillPendingOutbox; rows that the flusher is marking delivered are   *)
(* skipped.                                                                *)
BackfillPendingOutbox ==
    /\ worker.at = "outbox"
    /\ LET probe == {e \in PendingEvents : /\ row[e].when # "no" /\ row[e].team = NoTeam
                                           /\ ~row[e].delivered /\ InPeriod(e)
                                           /\ hand[e].at # "locked"}
           more == Cardinality(probe) > TeamLimit
       IN \E chosen \in kSubset(IF more THEN TeamLimit ELSE Cardinality(probe), probe) :
            LET left == TeamLimit - Cardinality(chosen)
            IN /\ row' = [e \in PendingEvents |->
                            IF e \in chosen THEN [row[e] EXCEPT !.team = Team] ELSE row[e]]
               /\ worker' = IF more \/ left = 0
                              THEN [worker EXCEPT !.at = "progress", !.more = TRUE]
                              ELSE [worker EXCEPT !.at = "raw", !.left = left]
    /\ UNCHANGED <<membership, hand, raw, remarked, rollup, staged, fence, stale, job, teamFaults>>

(* A bug: a batch that is exactly full goes on to the rollups. *)
MarkAttributionRowsDirtyOverLimit ==
    /\ worker.at = "raw"
    /\ LET found == {e \in TeamEvents : raw[e] = NoTeam /\ InPeriod(e)}
           full == Cardinality(found) > worker.left
       IN \E chosen \in kSubset(IF full THEN worker.left ELSE Cardinality(found), found) :
            /\ remarked' = remarked \cup chosen
            /\ worker' = [worker EXCEPT !.at = IF chosen = {} THEN "pick" ELSE "replace",
                                        !.events = chosen,
                                        !.left = worker.left - Cardinality(chosen),
                                        !.more = full]
    /\ UNCHANGED <<membership, row, hand, raw, rollup, staged, fence, stale, job, teamFaults>>

(* The raw events without a team: their buckets are marked dirty ...       *)
MarkAttributionRowsDirty ==
    /\ worker.at = "raw"
    /\ LET found == {e \in TeamEvents : raw[e] = NoTeam /\ InPeriod(e)}
           full == Cardinality(found) > worker.left
       IN \E chosen \in kSubset(IF full THEN worker.left ELSE Cardinality(found), found) :
            /\ remarked' = remarked \cup chosen
            /\ worker' = [worker EXCEPT !.at = IF chosen = {} THEN "pick" ELSE "replace",
                                        !.events = chosen,
                                        !.left = worker.left - Cardinality(chosen),
                                        !.more = full \/ worker.left = Cardinality(chosen)]
    /\ UNCHANGED <<membership, row, hand, raw, rollup, staged, fence, stale, job, teamFaults>>

(* ... and then they are inserted again with the team. *)
ReplaceRaw ==
    /\ worker.at = "replace"
    /\ raw' = [e \in TeamEvents |-> IF e \in worker.events THEN Team ELSE raw[e]]
    /\ worker' = [worker EXCEPT !.at = IF worker.more THEN "progress" ELSE "pick"]
    /\ UNCHANGED <<membership, row, hand, remarked, rollup, staged, fence, stale, job, teamFaults>>

-----------------------------------------------------------------------------
(* The buckets a batch before has left staged, or the next ones that have  *)
(* rows without a team.                                                    *)
PickBuckets ==
    /\ worker.at = "pick"
    /\ LET open == {b \in OldBuckets : NoTeam \in rollup["v2"][b]}
           limit == IF worker.left < BucketLimit THEN worker.left ELSE BucketLimit
           picked == IF staged["v2"] # {} THEN staged["v2"]
                     ELSE {b \in open : Cardinality({c \in open : c < b}) < limit}
       IN worker' = [worker EXCEPT !.at = IF picked = {} THEN "progress" ELSE "stage_v2",
                                   !.buckets = picked, !.more = picked # {}]
    /\ UNCHANGED <<membership, row, hand, raw, remarked, rollup, staged, fence, stale, job, teamFaults>>

TeamStep(step) == worker.at = step /\ worker' = [worker EXCEPT !.at = After[step]]

StageRollup(t) ==
    /\ TeamStep(StageStep[t])
    /\ staged' = [staged EXCEPT ![t] = @ \cup {b \in worker.buckets : NoTeam \in rollup[t][b]}]
    /\ UNCHANGED <<membership, row, hand, raw, remarked, rollup, fence, stale, job, teamFaults>>

(* The fence covers the hours from the first bucket to the last; a fence   *)
(* that is there is widened.                                               *)
RaiseFence ==
    /\ TeamStep("fence")
    /\ fence' = {b \in OldBuckets :
                    \E first, last \in fence \cup worker.buckets : first <= b /\ b <= last}
    /\ UNCHANGED <<membership, row, hand, raw, remarked, rollup, staged, stale, job, teamFaults>>

DeleteOld(t) ==
    /\ TeamStep(DeleteStep[t])
    /\ rollup' = [rollup EXCEPT ![t] = [b \in OldBuckets |->
                    IF b \in worker.buckets THEN @[b] \ {NoTeam} ELSE @[b]]]
    /\ UNCHANGED <<membership, row, hand, raw, remarked, staged, fence, stale, job, teamFaults>>

InsertReplacement(t) ==
    /\ TeamStep(InsertStep[t])
    /\ rollup' = [rollup EXCEPT ![t] = [b \in OldBuckets |->
                    IF b \in staged[t] THEN @[b] \cup {Team} ELSE @[b]]]
    /\ UNCHANGED <<membership, row, hand, raw, remarked, staged, fence, stale, job, teamFaults>>

Verified ==
    /\ \A b \in worker.buckets : NoTeam \notin rollup["v2"][b]
    /\ \A b \in staged["v2"] : Team \in rollup["v2"][b]

VerifyReplacement ==
    /\ TeamStep("verify") /\ Verified
    /\ UNCHANGED <<membership, row, hand, raw, remarked, rollup, staged, fence, stale, job, teamFaults>>

(* One transaction: the timezone rollups of the buckets are invalidated    *)
(* and the fence is removed.                                               *)
CompleteReplacement ==
    /\ TeamStep("complete")
    /\ stale' = stale \cup worker.buckets
    /\ fence' = {}
    /\ UNCHANGED <<membership, row, hand, raw, remarked, rollup, staged, job, teamFaults>>

(* The staged rows are deleted; a failure of this call is ignored.         *)
CleanupStaging ==
    /\ TeamStep("cleanup")
    /\ \/ staged' = [t \in Tables |-> {}] /\ UNCHANGED teamFaults
       \/ /\ teamFaults < MaxTeamFaults /\ teamFaults' = teamFaults + 1
          /\ UNCHANGED staged
    /\ UNCHANGED <<membership, row, hand, raw, remarked, rollup, fence, stale, job>>

(* markProgress; the job that is done has no fence. *)
MarkProgress ==
    /\ worker.at = "progress"
    /\ job' = [status |-> IF worker.more THEN "pending" ELSE "succeeded", due |-> TRUE]
    /\ fence' = IF worker.more THEN fence ELSE {}
    /\ worker' = NoBatch
    /\ UNCHANGED <<membership, row, hand, raw, remarked, rollup, staged, stale, teamFaults>>

(* A call fails: the job is failed and tried again after a while (the      *)
(* verification fails too when the rows are not all there).                *)
AttributionFails ==
    /\ worker.at \notin {"idle", "dead", "cleanup"}
    /\ LET unverified == worker.at = "verify" /\ ~Verified
       IN /\ unverified \/ teamFaults < MaxTeamFaults
          /\ teamFaults' = IF unverified THEN teamFaults ELSE teamFaults + 1
    /\ job' = [status |-> "failed", due |-> FALSE]
    /\ worker' = NoBatch
    /\ UNCHANGED <<membership, row, hand, raw, remarked, rollup, staged, fence, stale>>

(* The web stops in the middle of a batch, or cannot record a failure. *)
WorkerDies ==
    /\ worker.at \notin {"idle", "dead"} /\ teamFaults < MaxTeamFaults
    /\ teamFaults' = teamFaults + 1
    /\ worker' = [NoBatch EXCEPT !.at = "dead"]
    /\ UNCHANGED <<membership, row, hand, raw, remarked, rollup, staged, fence, stale, job>>

BackoffEnds ==
    /\ job.status = "failed" /\ ~job.due
    /\ job' = [job EXCEPT !.due = TRUE]
    /\ UNCHANGED <<membership, row, hand, raw, remarked, rollup, staged, fence, stale, worker, teamFaults>>

RollupSteps ==
    \/ PickBuckets \/ RaiseFence \/ VerifyReplacement \/ CompleteReplacement \/ CleanupStaging
    \/ \E t \in Tables : StageRollup(t) \/ DeleteOld(t) \/ InsertReplacement(t)

BatchSteps ==
    \/ ClaimJob \/ BackfillPendingOutbox \/ MarkAttributionRowsDirty \/ ReplaceRaw
    \/ RollupSteps \/ MarkProgress

TeamNext ==
    \/ ChangeUserTeam
    \/ \E e \in PendingEvents : AcceptEvent(e) \/ FlushRow(e) \/ FlushOfRowFails(e)
    \/ BatchSteps
    \/ AttributionFails \/ WorkerDies \/ BackoffEnds

TeamSpec == TeamInit /\ [][TeamNext]_teamVars

-----------------------------------------------------------------------------
(* Types: the rows, the rollups, the job and the worker. *)
TeamTypeOK ==
    /\ membership \in {"never", "open", "closed"}
    /\ row \in [PendingEvents -> [when : {"no", "never", "open", "closed"}, team : {NoTeam, Team},
                                  delivered : BOOLEAN]]
    /\ hand \in [PendingEvents -> [at : {"none", "read", "inserted", "locked"}, team : {NoTeam, Team}]]
    /\ raw \in [TeamEvents -> {"absent", NoTeam, Team}]
    /\ remarked \subseteq TeamEvents
    /\ rollup \in [Tables -> [OldBuckets -> SUBSET {NoTeam, Team}]]
    /\ staged \in [Tables -> SUBSET OldBuckets]
    /\ fence \subseteq OldBuckets /\ stale \subseteq OldBuckets
    /\ job \in [status : {"none", "pending", "running", "succeeded", "failed"}, due : BOOLEAN]
    /\ worker \in [at : {"idle", "dead", "outbox", "raw", "replace", "pick", "progress"}
                           \cup DOMAIN After,
                   to : {"never", "open", "closed"}, left : 0..TeamLimit,
                   events : SUBSET TeamEvents, buckets : SUBSET OldBuckets, more : BOOLEAN]
    /\ teamFaults \in 0..MaxTeamFaults

(* Usage of which only the rollup is left is never lost or counted twice:  *)
(* outside the fence a bucket's usage is there for one team exactly, in    *)
(* both tables, and behind the fence it is in the table or staged,         *)
(* whichever call the worker died in or failed at (backfillRollupOnly).    *)
RollupUsageKept ==
    \A t \in Tables, b \in OldBuckets :
       /\ b \notin fence => Cardinality(rollup[t][b]) = 1
       /\ rollup[t][b] # {} \/ b \in staged[t]

(* A job that is done has given the team every bucket and every event that *)
(* was in ClickHouse when the user got it, has marked what the rollups of  *)
(* these events must be built from again and has told the timezone rollups *)
(* (markProgress, backfillUnassignedTeamAttribution).                      *)
DoneIsAttributed ==
    job.status = "succeeded" =>
       /\ \A t \in Tables, b \in OldBuckets : rollup[t][b] = {Team}
       /\ \A e \in RawEvents : raw[e] = Team /\ e \in remarked
       /\ stale = OldBuckets

(* A first assignment is backfilled in the end, its fence removed, although*)
(* workers die and calls fail (runTeamAttributionBatchAt).                 *)
BackfillCompletes ==
    membership = "open" ~> job.status = "succeeded" /\ fence = {}
=============================================================================
