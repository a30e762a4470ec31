----------------------------- MODULE ToolRollout -----------------------------
(***************************************************************************)
(* The deployment of one catalog tool to the devices of one team: the team *)
(* policy and the coordinator that moves it from phase to phase            *)
(* (apps/web/lib/tool-deployment-repository.ts and                         *)
(* tool-rollout-coordinator.ts, packages/core/src/tool-deployment.ts), the *)
(* manifest a device is served, with its ETag, and the reports it sends    *)
(* back (tool-deployment-api.ts), and the run of the device that applies   *)
(* the manifest (shim/rust/src/tool_deployment/reconcile.rs and state.rs). *)
(*                                                                         *)
(* Every device belongs to a user of its own.  The hash of the rollout     *)
(* seed and the fingerprint is one of three cohorts, drawn at each         *)
(* deployment; the seed is the number of the deployment.  A tool is a      *)
(* skill, a directory that exists or not: a plugin, the archive and its    *)
(* digest are left out (a failed install stands for them).                 *)
(***************************************************************************)
EXTENDS Integers, FiniteSets

CONSTANTS
    ToolDevices,   \* devices of the team, each in the tool inventory
    Cohorts,       \* the functions ToolDevices -> {10, 50, 100} a seed may hash to
    MaxVersions,   \* the versions of the tool are 1 .. MaxVersions
    MaxDeploys,    \* bound: deployments by the team leader
    MaxChoices,    \* bound: changes of a user's preference or own files
    MaxMishaps,    \* bound: failed installs, posts without answer and killed runs together
    MaxReconcileKills  \* bound: runs killed between two of their steps, of these

ASSUME ToolAssumption ==
    /\ MaxVersions \in Nat /\ MaxDeploys \in Nat /\ MaxChoices \in Nat /\ MaxMishaps \in Nat
    /\ MaxReconcileKills \in Nat

Versions == 1 .. MaxVersions
NoTool == 0
OwnTool == -1      \* a directory of the user's at the path of the tool

VARIABLES
    teamPolicy,   \* row of team_tool_policies
    cohort,       \* rolloutCohortPercent of each device under the row's seed: below this percent
    dwelt,        \* the time the phase has to last is over
    decision,     \* what the running tick of the coordinator is about to write
    reports,      \* tool_deployment_reports, one row a device
    preference,   \* user_tool_preferences of the device's owner
    installed,    \* what is at the tool's path on the device
    managed,      \* version recorded in tools/state.json
    etag,         \* client-state.json: manifest whose ETag is sent
    reconcile,    \* the device's run
    unsent,       \* report-queue.json
    spent         \* deployments, choices, mishaps and kills so far

toolVars == << teamPolicy, cohort, dwelt, decision, reports, preference, installed,
               managed, etag, reconcile, unsent, spent >>
deviceVars == << preference, installed, managed, etag, reconcile, unsent >>
serverVars == << teamPolicy, cohort, dwelt, decision >>

Phases == {"none", "preflight", "canary", "expand", "active", "paused", "rollback"}
OpenPhases == {"preflight", "canary", "expand"}
Empty == [version |-> NoTool, rollout |-> 0]
NoTag == [version |-> NoTool, rollout |-> -1]
NoReport == [version |-> NoTool, rollout |-> 0, status |-> "none", since |-> "before"]
AtRest == [pc |-> "idle", body |-> Empty, version |-> NoTool, status |-> "none"]
Manifests == [version : 0 .. MaxVersions, rollout : 0 .. MaxDeploys]
Statuses == {"none", "installed", "conflict", "failed"}
QueuedReports == [version : 0 .. MaxVersions, rollout : 0 .. MaxDeploys, status : Statuses]
OptedOut == -1     \* preference of mode exclude; 0 is no preference, a version an install

\* A device whose owner excluded the tool gets nothing, one whose owner
\* installed a version gets that, the others what the team policy gives their
\* cohort while it is enabled and in a phase that is served.
Manifest(d) ==
    IF preference[d] = OptedOut THEN Empty
    ELSE IF preference[d] # 0 THEN [version |-> preference[d], rollout |-> 0]
    ELSE IF /\ teamPolicy.enabled
            /\ teamPolicy.phase \in {"canary", "expand", "active", "rollback"}
            /\ cohort[d] <= teamPolicy.percent
         THEN [version |-> teamPolicy.version, rollout |-> teamPolicy.rollout]
         ELSE Empty

Spend(what) == spent' = [spent EXCEPT ![what] = @ + 1]
MishapsLeft == spent.mishaps + spent.kills < MaxMishaps

\* last_attempted_at against phase_started_at: a report made before the phase,
\* since its start, or even since the running tick read the clock (the tick's
\* time becomes the start of the phase it writes).
Aged(since) == [d \in ToolDevices |-> [reports[d] EXCEPT !.since = since[@]]]
NewPhase == Aged([before |-> "before", phase |-> "before", tick |-> "before"])
PhaseOfTick == Aged([before |-> "before", phase |-> "before", tick |-> "phase"])
TickOver == Aged([before |-> "before", phase |-> "phase", tick |-> "phase"])

ToolInit ==
    /\ teamPolicy = [version |-> NoTool, lkg |-> NoTool, phase |-> "none", percent |-> 0,
                     rollout |-> 0, enabled |-> FALSE]
    /\ cohort \in Cohorts
    /\ dwelt = FALSE
    /\ decision = "none"
    /\ reports = [d \in ToolDevices |-> NoReport]
    /\ preference = [d \in ToolDevices |-> 0]
    /\ installed = [d \in ToolDevices |-> NoTool]
    /\ managed = [d \in ToolDevices |-> NoTool]
    /\ etag = [d \in ToolDevices |-> NoTag]
    /\ reconcile = [d \in ToolDevices |-> AtRest]
    /\ unsent = [d \in ToolDevices |-> {}]
    /\ spent = [deploys |-> 0, choices |-> 0, mishaps |-> 0, kills |-> 0]

-----------------------------------------------------------------------------
(* The team leader.                                                          *)

\* A deployment waits in preflight, or paused for the leader's approval when
\* it asks for more than the last known good version does.
SaveTeamPolicy(v, approval) ==
    /\ spent.deploys < MaxDeploys
    /\ approval => teamPolicy.lkg # NoTool
    /\ teamPolicy' = [teamPolicy EXCEPT !.version = v, !.percent = 0, !.enabled = TRUE,
                                        !.phase = IF approval THEN "paused" ELSE "preflight",
                                        !.rollout = spent.deploys + 1]
    /\ cohort' \in Cohorts
    /\ dwelt' = FALSE
    /\ reports' = NewPhase
    /\ Spend("deploys")
    /\ UNCHANGED << decision, deviceVars >>

\* The approval leaves enabled as it is.
ApproveTeamRollout ==
    /\ teamPolicy.phase = "paused"
    /\ teamPolicy' = [teamPolicy EXCEPT !.phase = "canary", !.percent = 10]
    /\ dwelt' = FALSE
    /\ reports' = NewPhase
    /\ UNCHANGED << cohort, decision, deviceVars, spent >>

-----------------------------------------------------------------------------
(* The coordinator.                                                          *)

\* 30 minutes of a canary, 60 of an expansion have passed.
Dwell ==
    /\ teamPolicy.phase \in {"canary", "expand"}
    /\ ~ dwelt
    /\ dwelt' = TRUE
    /\ UNCHANGED << teamPolicy, cohort, decision, reports, deviceVars, spent >>

\* The reports of this phase about what the policy asks for now.
Counted == {d \in ToolDevices : /\ reports[d].rollout = teamPolicy.rollout
                                /\ reports[d].version = teamPolicy.version
                                /\ reports[d].since # "before"}
CountFailed == Cardinality({d \in Counted : reports[d].status = "failed"})

\* Mutant of Share: one device more than the share.
ShareAndOne(percent) == (Cardinality(ToolDevices) * percent) \div 100 + 1
Share(percent) == (Cardinality(ToolDevices) * percent + 99) \div 100

EvaluateRollout ==
    IF CountFailed >= 2 \/ (Counted # {} /\ CountFailed * 5 >= Cardinality(Counted)) THEN "rollback"
    ELSE IF teamPolicy.phase = "canary" /\ dwelt /\ Cardinality(Counted) >= Share(10) THEN "expand"
    ELSE IF teamPolicy.phase = "expand" /\ dwelt /\ Cardinality(Counted) >= Share(50) THEN "active"
    ELSE "none"

\* A tick reads the open rollouts ...
ListOpenRollouts ==
    /\ decision = "none"
    /\ teamPolicy.enabled
    /\ teamPolicy.phase \in OpenPhases
    /\ decision' = IF teamPolicy.phase = "preflight" THEN "canary" ELSE EvaluateRollout
    /\ UNCHANGED << teamPolicy, cohort, dwelt, reports, deviceVars, spent >>

Percent == [canary |-> 10, expand |-> 50, active |-> 100]

\* ... and writes what it decided, to the row it finds by then.
AdvanceRollout ==
    /\ decision \in {"canary", "expand", "active"}
    /\ decision' = "none"
    /\ IF teamPolicy.phase \in OpenPhases
       THEN /\ teamPolicy' = [teamPolicy EXCEPT
                     !.phase = decision, !.percent = Percent[decision],
                     !.lkg = IF decision = "active" THEN teamPolicy.version ELSE @]
            /\ dwelt' = FALSE
            /\ reports' = PhaseOfTick
       ELSE reports' = TickOver /\ UNCHANGED << teamPolicy, dwelt >>
    /\ UNCHANGED << cohort, deviceVars, spent >>

\* Mutant of RolledBack: only the devices served so far go back.
RolledBackInCohort ==
    IF teamPolicy.lkg = NoTool
    THEN [teamPolicy EXCEPT !.phase = "paused", !.percent = 0, !.enabled = FALSE]
    ELSE [teamPolicy EXCEPT !.phase = "rollback", !.version = teamPolicy.lkg]

\* Back to the last known good version on every device, or to a pause when
\* the team has none.
RolledBack ==
    IF teamPolicy.lkg = NoTool
    THEN [teamPolicy EXCEPT !.phase = "paused", !.percent = 0, !.enabled = FALSE]
    ELSE [teamPolicy EXCEPT !.phase = "rollback", !.percent = 100, !.version = teamPolicy.lkg]

RollbackToLastKnownGood ==
    /\ decision = "rollback"
    /\ decision' = "none"
    /\ IF teamPolicy.phase \in {"canary", "expand"}
       THEN teamPolicy' = RolledBack /\ dwelt' = FALSE /\ reports' = PhaseOfTick
       ELSE reports' = TickOver /\ UNCHANGED << teamPolicy, dwelt >>
    /\ UNCHANGED << cohort, deviceVars, spent >>

-----------------------------------------------------------------------------
(* The user of a device.                                                     *)

SavePersonalPreference(d, p) ==
    /\ spent.choices < MaxChoices
    /\ p # preference[d]
    /\ preference' = [preference EXCEPT ![d] = p]
    /\ Spend("choices")
    /\ UNCHANGED << serverVars, reports, installed, managed, etag, reconcile, unsent >>

\* Someone's own skill appears where the tool would be installed.
WriteOwnTool(d) ==
    /\ spent.choices < MaxChoices
    /\ installed[d] = NoTool
    /\ installed' = [installed EXCEPT ![d] = OwnTool]
    /\ Spend("choices")
    /\ UNCHANGED << serverVars, reports, preference, managed, etag, reconcile, unsent >>

-----------------------------------------------------------------------------
(* A run on the device: send what is queued, fetch, apply, save the managed  *)
(* state, queue and send the reports, keep the ETag.                         *)

Issued(d, r) == [version |-> r.version, rollout |-> r.rollout] = Manifest(d)
Store(d, r) == [reports EXCEPT ![d] = [version |-> r.version, rollout |-> r.rollout,
                   status |-> r.status, since |-> IF decision = "none" THEN "phase" ELSE "tick"]]

\* Each report is posted once; the server stores the one about what the device
\* is issued now and refuses the others, which the device drops.  A post
\* without an answer may have been stored and is kept.
Posted(d, queue, left) ==
    /\ left \subseteq queue
    /\ left = {} \/ MishapsLeft
    /\ spent' = IF left = {} THEN spent ELSE [spent EXCEPT !.mishaps = @ + 1]
    /\ unsent' = [unsent EXCEPT ![d] = left]
    /\ LET matching == {r \in queue : Issued(d, r)}
           certain == matching \ left
       IN  \/ /\ certain = {}
              /\ reports' = reports
           \/ \E r \in matching : /\ certain = {} \/ r \in certain
                                  /\ reports' = Store(d, r)

FlushReports(d, left) ==
    /\ reconcile[d].pc = "idle"
    /\ unsent[d] # {}
    /\ Posted(d, unsent[d], left)
    /\ reconcile' = [reconcile EXCEPT ![d].pc = "flushed"]
    /\ UNCHANGED << serverVars, preference, installed, managed, etag >>

FetchManifest(d) ==
    /\ \/ reconcile[d].pc = "flushed"
       \/ reconcile[d].pc = "idle" /\ unsent[d] = {}
    /\ reconcile' = [reconcile EXCEPT ![d] =
           IF etag[d] = Manifest(d) THEN AtRest     \* 304
           ELSE [AtRest EXCEPT !.pc = "fetched", !.body = Manifest(d)]]
    /\ UNCHANGED << serverVars, reports, preference, installed, managed, etag, unsent, spent >>

\* No answer to the fetch, or the back-off of an earlier failure.
FetchNothing(d) ==
    /\ reconcile[d].pc = "flushed"
    /\ reconcile' = [reconcile EXCEPT ![d] = AtRest]
    /\ UNCHANGED << serverVars, reports, preference, installed, managed, etag, unsent, spent >>

Ended(d, version, status) ==
    reconcile' = [reconcile EXCEPT ![d].pc = "applied", ![d].version = version, ![d].status = status]

\* Mutant of Conflict: only before the first manifest was applied.
ConflictFirst(d) == installed[d] # NoTool /\ managed[d] = NoTool /\ etag[d] = NoTag

\* A directory that is there without an entry is the user's own.
Conflict(d) == installed[d] # NoTool /\ managed[d] = NoTool

\* A tool that is no longer wanted goes away with its entry; a directory of
\* the user is not touched.
ApplyItems(d) ==
    LET wanted == reconcile[d].body.version IN
    /\ reconcile[d].pc = "fetched"
    /\ \/ /\ wanted = managed[d]
          /\ Ended(d, wanted, IF wanted = NoTool THEN "none" ELSE "installed")
          /\ UNCHANGED << installed, spent >>
       \/ /\ wanted = NoTool /\ managed[d] # NoTool
          /\ installed' = [installed EXCEPT ![d] = NoTool]
          /\ Ended(d, NoTool, "none")
          /\ UNCHANGED spent
       \/ /\ wanted \notin {NoTool, managed[d]} /\ Conflict(d)
          /\ Ended(d, managed[d], "conflict")
          /\ UNCHANGED << installed, spent >>
       \/ /\ wanted \notin {NoTool, managed[d]} /\ ~ Conflict(d)
          /\ installed' = [installed EXCEPT ![d] = wanted]
          /\ Ended(d, wanted, "installed")
          /\ UNCHANGED spent
       \/ /\ wanted # managed[d]
          /\ MishapsLeft
          /\ Spend("mishaps")
          /\ Ended(d, managed[d], "failed")
          /\ UNCHANGED installed
    /\ UNCHANGED << serverVars, reports, preference, managed, etag, unsent >>

SaveManagedState(d) ==
    /\ reconcile[d].pc = "applied"
    /\ managed' = [managed EXCEPT ![d] = reconcile[d].version]
    /\ reconcile' = [reconcile EXCEPT ![d].pc = "saved"]
    /\ UNCHANGED << serverVars, reports, preference, installed, etag, unsent, spent >>

\* A report replaces the queued one about the same version and rollout; the
\* ETag is kept only when nothing failed and every report went through.
Report(d, left) ==
    LET body == reconcile[d].body
        mine == [version |-> body.version, rollout |-> body.rollout, status |-> reconcile[d].status]
        kept == {r \in unsent[d] : << r.version, r.rollout >> # << body.version, body.rollout >>}
        queue == IF body.version = NoTool THEN unsent[d] ELSE kept \cup {mine}
    IN  /\ reconcile[d].pc = "saved"
        /\ Posted(d, queue, left)
        /\ etag' = IF left = {} /\ reconcile[d].status # "failed"
                   THEN [etag EXCEPT ![d] = body] ELSE etag
        /\ reconcile' = [reconcile EXCEPT ![d] = AtRest]
        /\ UNCHANGED << serverVars, preference, installed, managed >>

KillReconcile(d) ==
    /\ reconcile[d].pc # "idle"
    /\ MishapsLeft /\ spent.kills < MaxReconcileKills
    /\ Spend("kills")
    /\ reconcile' = [reconcile EXCEPT ![d] = AtRest]
    /\ UNCHANGED << serverVars, reports, preference, installed, managed, etag, unsent >>

-----------------------------------------------------------------------------
ToolStep(d) ==
    \/ FetchManifest(d)
    \/ ApplyItems(d)
    \/ SaveManagedState(d)
    \/ \E left \in SUBSET unsent[d] : FlushReports(d, left)
    \/ \E left \in SUBSET (unsent[d] \cup {[version |-> reconcile[d].body.version,
            rollout |-> reconcile[d].body.rollout, status |-> reconcile[d].status]}) : Report(d, left)

ToolNext ==
    \/ \E v \in Versions, approval \in BOOLEAN : SaveTeamPolicy(v, approval)
    \/ ApproveTeamRollout
    \/ Dwell
    \/ ListOpenRollouts
    \/ AdvanceRollout
    \/ RollbackToLastKnownGood
    \/ \E d \in ToolDevices : \/ \E p \in Versions \cup {OptedOut} : SavePersonalPreference(d, p)
                              \/ WriteOwnTool(d)
                              \/ ToolStep(d)
                              \/ FetchNothing(d)
                              \/ KillReconcile(d)

ToolSpec == ToolInit /\ [][ToolNext]_toolVars


-----------------------------------------------------------------------------
(* Properties.                                                               *)

ToolTypeOK ==
    /\ teamPolicy \in [version : 0 .. MaxVersions, lkg : 0 .. MaxVersions, phase : Phases,
                       percent : {0, 10, 50, 100}, rollout : 0 .. MaxDeploys, enabled : BOOLEAN]
    /\ cohort \in Cohorts
    /\ dwelt \in BOOLEAN
    /\ decision \in {"none", "canary", "expand", "active", "rollback"}
    /\ reports \in [ToolDevices -> [version : 0 .. MaxVersions, rollout : 0 .. MaxDeploys,
                                    status : Statuses, since : {"before", "phase", "tick"}]]
    /\ preference \in [ToolDevices -> {OptedOut} \cup (0 .. MaxVersions)]
    /\ installed \in [ToolDevices -> {OwnTool} \cup (0 .. MaxVersions)]
    /\ managed \in [ToolDevices -> 0 .. MaxVersions]
    /\ etag \in [ToolDevices -> Manifests \cup {NoTag}]
    /\ reconcile \in [ToolDevices -> [pc : {"idle", "flushed", "fetched", "applied", "saved"},
                                      body : Manifests, version : 0 .. MaxVersions, status : Statuses]]
    /\ unsent \in [ToolDevices -> SUBSET QueuedReports]
    /\ spent \in [deploys : 0 .. MaxDeploys, choices : 0 .. MaxChoices,
                  mishaps : 0 .. MaxMishaps, kills : 0 .. MaxMishaps]
    /\ \A d \in ToolDevices : decision = "none" => reports[d].since # "tick"

\* A directory of the user's at the tool's path is never replaced or removed,
\* whatever failed, was excluded or withdrawn before: the entry an earlier run
\* recorded decides between replacing, removing and reporting a conflict.
OwnToolKept ==
    [][\A d \in ToolDevices : installed[d] = OwnTool => installed'[d] = OwnTool]_toolVars

\* A rollback brings every device that follows the team back to the last known
\* good version, those outside the cohorts served so far too, unless the leader
\* deploys again or the user has a tool of their own there.
RollbackReachesDevices ==
    \A d \in ToolDevices :
        teamPolicy.phase = "rollback"
            ~> \/ teamPolicy.phase # "rollback"
               \/ managed[d] = teamPolicy.version
               \/ preference[d] # 0
               \/ Conflict(d)

\* A rollout does not stay half way: it ends active on every device, rolled
\* back or paused, or gives way to another deployment.
RolloutCompletes ==
    teamPolicy.enabled /\ teamPolicy.phase \in {"canary", "expand"}
        ~> teamPolicy.phase \notin {"canary", "expand"}
=============================================================================
