--------------------------- MODULE PricingHistory ---------------------------
(***************************************************************************)
(* Historical pricing recovery (apps/web/lib/pricing-history.ts): a job    *)
(* row in PostgreSQL walks the commits of the public price list over the   *)
(* days of the usage that has no price, a few snapshots per step, folds    *)
(* them into candidate price intervals and promotes the closed intervals   *)
(* to price revisions.  Steps are taken by the pricing repair; a step may  *)
(* die anywhere, the source may fail, a commit may hold an unreadable      *)
(* snapshot, and late usage arrives while a job is under way.              *)
(*                                                                         *)
(* Time is a small number of ticks, HistDay of them to a day.  A price     *)
(* stands for the resolved entry and all its rates.                        *)
(***************************************************************************)
EXTENDS Integers, SequencesExt

CONSTANTS
  HistModels,      \* models that usage names
  HistPrices,      \* prices a snapshot may give a model
  NoPrice,         \* the snapshot does not resolve the model
  HistTicks,       \* number of ticks
  HistDay,         \* ticks of a day
  CommitTime,      \* commit -> tick, ascending: the history of the price list
  HistPage,        \* commits per page of the list (100)
  HistStep,        \* snapshots per step (4)
  HistSkipAfter,   \* failures before an unreadable snapshot is skipped (2)
  Steppers,        \* processes that may take steps
  MaxHistJobs,     \* bound: jobs completed
  MaxHistUsage     \* bound: stored events

Commits == DOMAIN CommitTime
Ticks == 0 .. HistTicks - 1
DayOf(t) == t - (t % HistDay)

(* The list has a commit before all usage, and no later commit falls on the
   second at which a day of usage begins or ends. *)
ASSUME HistTimesAssumption ==
  /\ CommitTime \in Seq(Nat) /\ CommitTime # << >> /\ CommitTime[1] = 0
  /\ \A c, d \in Commits : c < d => CommitTime[c] < CommitTime[d]
  /\ \A c \in Commits \ {1}, t \in Ticks : CommitTime[c] \notin {DayOf(t), DayOf(t) + HistDay}

ASSUME HistoryAssumption ==
  /\ NoPrice \notin HistPrices
  /\ HistTicks \in Nat /\ HistDay \in Nat \ {0}
  /\ HistPage \in Nat \ {0} /\ HistStep \in Nat \ {0} /\ HistSkipAfter \in Nat
  /\ MaxHistJobs \in Nat

NoJob == [id |-> 0]
Open == HistTicks + HistDay   \* valid_until IS NULL

VARIABLES
  snapshots,    \* commit -> model -> price, fixed
  unreadable,   \* commits whose snapshot cannot be parsed, fixed
  now,          \* the current tick
  usage,        \* stored events without a price of their own: [model, at]
  histJob,      \* the job that is not completed, or NoJob
  histDone,     \* the completed jobs: [from, to, models]
  candidates,   \* intervals of the job: [model, from, until, price]
  revisions,    \* promoted intervals
  stepper       \* stepper -> [pc, input, job]

histVars == <<snapshots, unreadable, now, usage, histJob, histDone,
              candidates, revisions, stepper>>

Idle == [pc |-> "idle"]
CoveredBy(set, m, t) == {i \in set : i.model = m /\ i.from <= t /\ t < i.until}

(* completedHistoricalDiagnostics: unpriced usage of the days before today. *)
UnpricedUsage == {u \in usage : u.at < DayOf(now) /\ CoveredBy(revisions, u.model, u.at) = {}}

(* jobInput: whole days from the first to the last event without a price. *)
JobInput ==
  [from |-> DayOf(Min({u.at : u \in UnpricedUsage})),
   to |-> DayOf(Max({u.at : u \in UnpricedUsage})) + HistDay,
   models |-> {u.model : u \in UnpricedUsage}]

HistInit ==
  /\ snapshots \in [Commits -> [HistModels -> HistPrices \union {NoPrice}]]
  /\ unreadable \in SUBSET Commits
  /\ now = 0
  /\ usage = {}
  /\ histJob = NoJob
  /\ histDone = {}
  /\ candidates = {}
  /\ revisions = {}
  /\ stepper = [s \in Steppers |-> Idle]

-----------------------------------------------------------------------------
(* The source.  Pages come newest first; the list ends with the commit that
   is also the baseline when that one falls on the first second. *)

Baseline(from) == {c \in Commits : CommitTime[c] <= from}
InRange(from, to) == {c \in Commits : from <= CommitTime[c] /\ CommitTime[c] <= to}

(* A set of commits, newest first. *)
Newest(set) ==
  [n \in 1 .. Cardinality(set) |-> CHOOSE c \in set : Cardinality({d \in set : d > c}) = n - 1]

Page(job) ==
  LET newest == Newest(InRange(job.from, job.to))
  IN SubSeq(newest, (job.page - 1) * HistPage + 1, Min({job.page * HistPage, Len(newest)}))

(* The elements of seq that are not in set, in their order. *)
Without(seq, set) ==
  LET kept == {i \in DOMAIN seq : seq[i] \notin set}
  IN [n \in 1 .. Cardinality(kept) |->
        seq[CHOOSE i \in kept : Cardinality({j \in kept : j < i}) = n - 1]]

AppendUnique(refs, more) == refs \o Without(more, ToSet(refs))

(* Mutant of ExecutionOrder: the baseline does not stay in front. *)
ExecutionOrderReversed(refs) == Reverse(refs)

(* executionOrder: the baseline, then the changes oldest first. *)
ExecutionOrder(refs) == <<Head(refs)>> \o Reverse(Without(Tail(refs), {Head(refs)}))

-----------------------------------------------------------------------------
(* The fold of snapshots into candidate intervals. *)

Boundary(job, c) == IF CommitTime[c] < job.from THEN job.from ELSE CommitTime[c]

ApplyModel(job, c, m, set) ==
  LET mine == {i \in set : i.model = m}
      open == {i \in mine : i.until = Open}
      price == snapshots[c][m]
      boundary == Boundary(job, c)
      closed == {[i EXCEPT !.until = boundary] : i \in {o \in open : boundary > o.from}}
      start == IF mine = {} THEN job.from ELSE boundary
      next == IF price = NoPrice \/ start >= job.to THEN {}
              ELSE {[model |-> m, from |-> start, until |-> Open, price |-> price]}
      kept == {i \in (set \ open) \union closed : next = {} \/ i.model # m \/ i.from # start}
  IN IF \E i \in open : i.price = price THEN set ELSE kept \union next

ApplySnapshot(job, set, c) ==
  UNION {{i \in ApplyModel(job, c, m, set) : i.model = m} : m \in job.models}

ApplySnapshots(job, refs) ==
  LET folded[n \in 0 .. Len(refs)] ==
        IF n = 0 THEN candidates ELSE ApplySnapshot(job, folded[n - 1], refs[n])
  IN folded[Len(refs)]

(* The last snapshot closes what is open at the end of the range. *)
CloseOpen(job, set) ==
  {[i EXCEPT !.until = IF @ = Open THEN job.to ELSE @] :
     i \in {i \in set : i.until = Open => i.from < job.to}}

-----------------------------------------------------------------------------
(* A step reads the diagnostics and the active job, asks the source, and    *)
(* writes under the guard of the job's id and state.                        *)

Begin(s) ==
  /\ stepper[s].pc = "idle"
  /\ histJob # NoJob \/ UnpricedUsage # {}
  /\ histJob = NoJob => Cardinality(histDone) < MaxHistJobs
  /\ stepper' = [stepper EXCEPT ![s] =
       IF histJob = NoJob THEN [pc |-> "create", input |-> JobInput]
       ELSE [pc |-> "write", job |-> histJob]]
  /\ UNCHANGED <<snapshots, unreadable, now, usage, histJob, histDone, candidates, revisions>>

Ends(s) == stepper' = [stepper EXCEPT ![s] = Idle]

(* findCompleted, then create ON CONFLICT DO NOTHING (one active job). *)
Create(s) ==
  /\ stepper[s].pc = "create"
  /\ Cardinality(histDone) < MaxHistJobs
  /\ LET input == stepper[s].input
     IN histJob' = IF input \in histDone \/ histJob # NoJob THEN histJob
                   ELSE [id |-> Cardinality(histDone) + 1, state |-> "pending",
                         from |-> input.from, to |-> input.to, models |-> input.models,
                         refs |-> << >>, page |-> 0, next |-> 0, failures |-> 0]
  /\ Ends(s)
  /\ UNCHANGED <<snapshots, unreadable, now, usage, histDone, candidates, revisions>>

Holds(s, state) == stepper[s].pc = "write" /\ stepper[s].job.state = state
CurrentAt(s, state) == histJob.id = stepper[s].job.id /\ histJob.state = state

(* waiting_source and due: back to the state the row shows. *)
ResumeState(job) ==
  IF job.page > 0 THEN "listing" ELSE IF job.refs # << >> THEN "fetching" ELSE "pending"

Resume(s) ==
  /\ Holds(s, "waiting")
  /\ histJob' = IF CurrentAt(s, "waiting")
                THEN [histJob EXCEPT !.state = ResumeState(stepper[s].job)] ELSE histJob
  /\ Ends(s)
  /\ UNCHANGED <<snapshots, unreadable, now, usage, histDone, candidates, revisions>>

(* Mutant of Waiting: failures are not counted. *)
WaitingUncounted(job) == [job EXCEPT !.state = "waiting"]

(* waitForSource; failures only matter up to the skip. *)
Waiting(job) == [job EXCEPT !.state = "waiting", !.failures = Min({@ + 1, HistSkipAfter})]

(* The source fails, the row was superseded, or the first snapshot that is
   missing is unreadable and has not failed often enough. *)
SourceFails(s) ==
  /\ stepper[s].pc \in {"write", "skip"}
  /\ stepper[s].job.state \in {"pending", "listing", "fetching"}
  /\ histJob' = IF /\ histJob.id = stepper[s].job.id
                   /\ histJob.state \in {"pending", "listing", "fetching"}
                THEN Waiting(histJob) ELSE histJob
  /\ Ends(s)
  /\ UNCHANGED <<snapshots, unreadable, now, usage, histDone, candidates, revisions>>

SaveBaseline(s) ==
  /\ Holds(s, "pending") /\ CurrentAt(s, "pending")
  /\ Baseline(stepper[s].job.from) # {}
  /\ histJob' = [histJob EXCEPT !.state = "listing", !.page = 1, !.failures = 0,
                                !.refs = <<Max(Baseline(stepper[s].job.from))>>]
  /\ Ends(s)
  /\ UNCHANGED <<snapshots, unreadable, now, usage, histDone, candidates, revisions>>

SaveCommitPage(s) ==
  /\ Holds(s, "listing") /\ CurrentAt(s, "listing")
  /\ stepper[s].job.page > 0
  /\ LET job == stepper[s].job
         refs == AppendUnique(job.refs, Page(job))
     IN histJob' =
          IF Len(Page(job)) < HistPage
          THEN [histJob EXCEPT !.state = "fetching", !.refs = ExecutionOrder(refs), !.page = 0,
                               !.next = 0, !.failures = 0]
          ELSE [histJob EXCEPT !.refs = refs, !.page = job.page + 1, !.next = 0, !.failures = 0]
  /\ Ends(s)
  /\ UNCHANGED <<snapshots, unreadable, now, usage, histDone, candidates, revisions>>

(* The snapshots of one step, and how many are readable before the first that is not. *)
StepRefs(job) ==
  SubSeq(job.refs, job.next + 1, Min({job.next + HistStep, Len(job.refs)}))
Readable(refs) ==
  CHOOSE n \in 0 .. Len(refs) :
    /\ \A i \in 1 .. n : refs[i] \notin unreadable
    /\ n < Len(refs) => refs[n + 1] \in unreadable

Advance(job, count) ==
  [job EXCEPT !.next = @ + count, !.failures = 0,
              !.state = IF job.next + count = Len(job.refs) THEN "promoting" ELSE "fetching"]

(* saveSnapshots: all of the step, or what precedes a snapshot to be skipped. *)
SaveSnapshots(s) ==
  /\ Holds(s, "fetching") /\ CurrentAt(s, "fetching")
  /\ histJob.next = stepper[s].job.next
  /\ LET job == stepper[s].job
         refs == StepRefs(job)
         n == Readable(refs)
         folded == ApplySnapshots(job, SubSeq(refs, 1, n))
     IN /\ n > 0
        /\ n = Len(refs) \/ job.failures >= HistSkipAfter
        /\ histJob' = Advance(histJob, n)
        /\ candidates' = IF histJob'.state = "promoting" THEN CloseOpen(job, folded) ELSE folded
        /\ stepper' = [stepper EXCEPT ![s] =
             IF n = Len(refs) THEN Idle ELSE [pc |-> "skip", job |-> histJob']]
  /\ UNCHANGED <<snapshots, unreadable, now, usage, histDone, revisions>>

(* skipSnapshot: the unreadable snapshot at the cursor is passed over. *)
SkipSnapshot(s) ==
  /\ \/ stepper[s].pc = "skip"
     \/ /\ Holds(s, "fetching") /\ stepper[s].job.failures >= HistSkipAfter
        /\ Readable(StepRefs(stepper[s].job)) = 0
  /\ CurrentAt(s, "fetching") /\ histJob.next = stepper[s].job.next
  /\ histJob' = Advance(histJob, 1)
  /\ Ends(s)
  /\ UNCHANGED <<snapshots, unreadable, now, usage, histDone, candidates, revisions>>

(* promote: closed candidates become revisions unless one of that model begins there. *)
Promoted ==
  {i \in candidates : i.until # Open /\ ~\E r \in revisions : r.model = i.model /\ r.from = i.from}

Promote(s) ==
  /\ Holds(s, "promoting") /\ CurrentAt(s, "promoting")
  /\ revisions' = revisions \union Promoted
  /\ histDone' = histDone \union {[from |-> histJob.from, to |-> histJob.to, models |-> histJob.models]}
  /\ histJob' = NoJob
  /\ candidates' = {}
  /\ Ends(s)
  /\ UNCHANGED <<snapshots, unreadable, now, usage>>

(* The process dies, or finds nothing to write. *)
StepDies(s) ==
  /\ stepper[s].pc # "idle"
  /\ Ends(s)
  /\ UNCHANGED <<snapshots, unreadable, now, usage, histJob, histDone, candidates, revisions>>

-----------------------------------------------------------------------------
Passes ==
  /\ now < HistTicks
  /\ now' = now + 1
  /\ UNCHANGED <<snapshots, unreadable, usage, histJob, histDone, candidates, revisions, stepper>>

(* Usage of a model arrives, possibly late. *)
Use(m, t) ==
  /\ t < now
  /\ Cardinality(usage) < MaxHistUsage
  /\ usage' = usage \union {[model |-> m, at |-> t]}
  /\ UNCHANGED <<snapshots, unreadable, now, histJob, histDone, candidates, revisions, stepper>>

Work(s) ==
  Create(s) \/ Resume(s) \/ SaveBaseline(s) \/ SaveCommitPage(s)
    \/ SaveSnapshots(s) \/ SkipSnapshot(s) \/ Promote(s)

HistNext ==
  \/ \E s \in Steppers : Begin(s) \/ Work(s) \/ SourceFails(s) \/ StepDies(s)
  \/ Passes
  \/ \E m \in HistModels, t \in Ticks : Use(m, t)

HistSpec == HistInit /\ [][HistNext]_histVars

(* The read-and-parse of an unreadable snapshot that must be repeated. *)
Rejects(s) ==
  /\ SourceFails(s) /\ Holds(s, "fetching")
  /\ Readable(StepRefs(stepper[s].job)) < Len(StepRefs(stepper[s].job))
  /\ stepper[s].job.failures < HistSkipAfter

(* A step whose row nobody changed meets a source that does not answer, or
   dies. *)
StepFails ==
  \E s \in Steppers :
    \/ SourceFails(s) /\ ~ Rejects(s)
    \/ StepDies(s) /\ (stepper[s].pc = "create" \/ CurrentAt(s, stepper[s].job.state))

(* What a step does of itself: its next write, or the write of a refusal. *)
HistorySteps(s) == Work(s) \/ Rejects(s)

-----------------------------------------------------------------------------
(* What the history says, without jobs, pages and folds. *)

Evidence(job) ==
  (InRange(job.from, job.to) \union {Max(Baseline(job.from))}) \ unreadable

(* The price of m at t: the one of the newest snapshot up to t, or, when no
   snapshot has shown m by then, of the first one that does. *)
HistoryPrice(job, m, t) ==
  LET before == {c \in Evidence(job) : Boundary(job, c) <= t}
      showing == {c \in Evidence(job) : snapshots[c][m] # NoPrice}
  IN IF before \intersect showing # {} THEN snapshots[Max(before)][m]
     ELSE IF showing # {} THEN snapshots[Min(showing)][m] ELSE NoPrice

PriceIn(set, m, t) ==
  IF CoveredBy(set, m, t) = {} THEN NoPrice ELSE (CHOOSE i \in CoveredBy(set, m, t) : TRUE).price

(* Type correctness: the cursor stays in the list, candidates have prices. *)
HistTypeOK ==
  /\ histJob = NoJob \/ histJob.state \in {"pending", "listing", "fetching", "waiting", "promoting"}
  /\ histJob # NoJob => histJob.next \in 0 .. Len(histJob.refs) /\ histJob.failures \in 0 .. HistSkipAfter
  /\ \A i \in candidates : i.model \in HistModels /\ i.price \in HistPrices
  /\ \A s \in Steppers : stepper[s].pc \in {"idle", "create", "write", "skip"}

(* However the list was paged, the steps were cut, repeated or resumed and
   unreadable snapshots were passed over, the candidates of a job that is
   ready to promote are the prices of the history (saveCommitPage,
   executionOrder, applySnapshot, saveSnapshots, skipSnapshot). *)
EvidenceExact ==
  histJob # NoJob /\ histJob.state = "promoting" =>
    \A m \in histJob.models, t \in histJob.from .. histJob.to - 1 :
      PriceIn(candidates, m, t) = HistoryPrice(histJob, m, t)

(* Once the source answers and steps survive, a job ends, however often it
   was put off and however many snapshots are unreadable (waitForSource,
   resume, skipSnapshot). *)
HistoryFinishes ==
  <>[][~ StepFails]_histVars =>
    \A n \in 1 .. MaxHistJobs : (histJob.id = n) ~> (histJob.id # n)
=============================================================================
