----------------------------- MODULE ManagedKeys ------------------------------
(***************************************************************************)
(* The wrappers of the keys that prompt content is encrypted with: one key *)
(* per user, made when the user's first content is written and stored      *)
(* wrapped by a key provider, and the command that moves every user from   *)
(* one provider to another so that the old one can be taken away.  Web     *)
(* processes create keys all the while, each with the providers it was     *)
(* started with.  A transaction that changes the distribution of the       *)
(* wrappers holds one advisory lock until it commits.                      *)
(***************************************************************************)
EXTENDS FiniteSets, Integers

CONSTANTS
    ContentUsers,
    KeyPods,          \* web processes that write content
    KeyProviders,     \* fingerprints of the providers
    Migrators,        \* runs of toard-admin rewrap-provider
    MaxKeyFaults,     \* bound: restarts, failures and interrupts
    MaxMigrations     \* bound: runs of the command that are started

VARIABLES
    wrapper,      \* wrapper[user][provider]: its state
    writeFence,   \* target of the latest provider_migration_started
    completed,    \* target of a provider_migration_completed after it
    keyLock,      \* the process that holds the distribution lock
    writer,       \* writer[pod]: the creation of a key it is in
    registry,     \* registry[pod]: its active and its migration provider
    migrator,     \* migrator[run]: what the command is doing
    keyFaults, migrations

keyVars == <<wrapper, writeFence, completed, keyLock, writer, registry, migrator, keyFaults,
             migrations>>

NoProvider == "none"

ASSUME KeyAssumption ==
    /\ NoProvider \notin KeyProviders \cup ContentUsers \cup KeyPods
    /\ MaxKeyFaults \in Nat /\ MaxMigrations \in Nat

ProviderOrNone == KeyProviders \cup {NoProvider}
Directions == {d \in KeyProviders \X KeyProviders : d[1] # d[2]}
NoCreation == [user |-> NoProvider, fence |-> NoProvider]
NoMigration == [at |-> "idle", from |-> NoProvider, to |-> NoProvider, unlisted |-> {},
                todo |-> {}, user |-> NoProvider, failed |-> FALSE]

(* The provider of a user's active wrapper: an index allows only one. *)
ActiveOf(u) == IF \E p \in KeyProviders : wrapper[u][p] = "active"
                 THEN CHOOSE p \in KeyProviders : wrapper[u][p] = "active" ELSE NoProvider

KeyInit ==
    /\ wrapper = [u \in ContentUsers |-> [p \in KeyProviders |-> NoProvider]]
    /\ writeFence = NoProvider /\ completed = NoProvider /\ keyLock = NoProvider
    /\ writer = [p \in KeyPods |-> NoCreation]
    /\ registry \in [KeyPods -> [active : KeyProviders, migration : {NoProvider}]]
    /\ migrator = [c \in Migrators |-> NoMigration]
    /\ keyFaults = 0 /\ migrations = 0

-----------------------------------------------------------------------------
(* A web process is started again, perhaps with other providers; the       *)
(* transaction it was in is rolled back.                                   *)
RestartPod(p) ==
    /\ keyFaults < MaxKeyFaults /\ keyFaults' = keyFaults + 1
    /\ \E a \in KeyProviders, m \in ProviderOrNone :
          a # m /\ registry' = [registry EXCEPT ![p] = [active |-> a, migration |-> m]]
    /\ writer' = [writer EXCEPT ![p] = NoCreation]
    /\ keyLock' = IF keyLock = p THEN NoProvider ELSE keyLock
    /\ UNCHANGED <<wrapper, writeFence, completed, migrator, migrations>>

(* A bug: fence and wrapper are read without the lock. *)
LoadActiveUnlocked(p, u) ==
    /\ writer[p] = NoCreation /\ ActiveOf(u) = NoProvider
    /\ writer' = [writer EXCEPT ![p] = [user |-> u, fence |-> writeFence]]
    /\ UNCHANGED <<wrapper, writeFence, completed, keyLock, registry, migrator, keyFaults, migrations>>

(* loadOrCreateActive, for a user without a key: under the lock, the fence *)
(* is read before the active wrapper.                                      *)
LoadActive(p, u) ==
    /\ writer[p] = NoCreation /\ keyLock = NoProvider /\ ActiveOf(u) = NoProvider
    /\ keyLock' = p
    /\ writer' = [writer EXCEPT ![p] = [user |-> u, fence |-> writeFence]]
    /\ UNCHANGED <<wrapper, writeFence, completed, registry, migrator, keyFaults, migrations>>

(* A new key is wrapped by the target of the latest migration, or by the   *)
(* active provider when there was none, and inserted unless the user has   *)
(* one; a process that does not know the target gives up.                  *)
CreateKey(p) ==
    /\ writer[p] # NoCreation
    /\ LET u == writer[p].user
           provider == IF writer[p].fence # NoProvider THEN writer[p].fence ELSE registry[p].active
           known == provider \in {registry[p].active, registry[p].migration}
       IN wrapper' = IF known /\ ActiveOf(u) = NoProvider
                       THEN [wrapper EXCEPT ![u][provider] = "active"] ELSE wrapper
    /\ writer' = [writer EXCEPT ![p] = NoCreation]
    /\ keyLock' = IF keyLock = p THEN NoProvider ELSE keyLock
    /\ UNCHANGED <<writeFence, completed, registry, migrator, keyFaults, migrations>>

-----------------------------------------------------------------------------
(* rewrapProviders: the target is healthy, and the start is recorded under *)
(* the lock.  Another run may be under way in the same direction: moving   *)
(* back is done in a window of its own (docs/content-encryption-runbook).  *)
RecordStarted(c) ==
    /\ migrator[c].at = "idle" /\ keyLock = NoProvider
    /\ migrations < MaxMigrations /\ migrations' = migrations + 1
    /\ \E d \in Directions :
          /\ \A o \in Migrators : migrator[o].at = "idle" \/ migrator[o].to = d[2]
          /\ writeFence' = d[2]
          /\ migrator' = [migrator EXCEPT ![c] = [NoMigration EXCEPT !.at = "list", !.from = d[1],
                                                  !.to = d[2], !.unlisted = ContentUsers]]
    /\ completed' = NoProvider
    /\ UNCHANGED <<wrapper, keyLock, writer, registry, keyFaults>>

(* getProviderRewrapUsers: user by user, in a transaction each. *)
ListUser(c, u) ==
    /\ migrator[c].at = "list" /\ u \in migrator[c].unlisted
    /\ LET m == migrator[c]
       IN migrator' = [migrator EXCEPT ![c] =
             [m EXCEPT !.unlisted = @ \ {u},
                       !.todo = IF ActiveOf(u) = m.from THEN @ \cup {u} ELSE @,
                       !.at = IF m.unlisted = {u} THEN "rewrap" ELSE "list"]]
    /\ UNCHANGED <<wrapper, writeFence, completed, keyLock, writer, registry, keyFaults, migrations>>

(* rewrapUserKey: the active wrapper is read, and unless it is the         *)
(* target's already, unwrapped and wrapped again outside any transaction.  *)
LoadWrapper(c) ==
    /\ migrator[c].at = "rewrap" /\ migrator[c].todo # {}
    /\ \E u \in migrator[c].todo :
          LET a == ActiveOf(u)
              m == [migrator[c] EXCEPT !.todo = @ \ {u}]
          IN \/ /\ a = m.to
                /\ migrator' = [migrator EXCEPT ![c] = m]
             \/ /\ a = m.from
                /\ migrator' = [migrator EXCEPT ![c] = [m EXCEPT !.at = "promote", !.user = u]]
             \/ /\ a \notin {m.from, m.to}
                /\ migrator' = [migrator EXCEPT ![c] = [m EXCEPT !.failed = TRUE]]
    /\ UNCHANGED <<wrapper, writeFence, completed, keyLock, writer, registry, keyFaults, migrations>>

(* promotePendingWrapper, one transaction: if the active wrapper is still  *)
(* the one that was read, the target's becomes active and it retires.      *)
PromotePending(c) ==
    /\ migrator[c].at = "promote" /\ keyLock = NoProvider
    /\ LET m == migrator[c]
           same == wrapper[m.user][m.from] = "active"
       IN /\ wrapper' = IF same
                          THEN [wrapper EXCEPT ![m.user][m.from] = "retiring",
                                               ![m.user][m.to] = "active"]
                          ELSE wrapper
          /\ migrator' = [migrator EXCEPT ![c] =
                            [m EXCEPT !.at = "rewrap", !.user = NoProvider, !.failed = @ \/ ~same]]
    /\ UNCHANGED <<writeFence, completed, keyLock, writer, registry, keyFaults, migrations>>

(* A provider or a query fails: the run goes on with the next user. *)
RewrapFails(c) ==
    /\ migrator[c].at = "promote" /\ keyFaults < MaxKeyFaults
    /\ keyFaults' = keyFaults + 1
    /\ migrator' = [migrator EXCEPT ![c].at = "rewrap", ![c].user = NoProvider, ![c].failed = TRUE]
    /\ UNCHANGED <<wrapper, writeFence, completed, keyLock, writer, registry, migrations>>

(* evaluateProviderRemovalReadiness, over the distribution. *)
RemovalReady(to) ==
    /\ \A u \in ContentUsers : ActiveOf(u) \in {NoProvider, to}
    /\ \A u \in ContentUsers, p \in KeyProviders : wrapper[u][p] # "pending"

AllRewrapped(c) == migrator[c].at = "rewrap" /\ migrator[c].todo = {}

(* completeProviderMigration: with no failure, under the lock, and only    *)
(* when the old provider can be removed.                                   *)
CompleteMigration(c) ==
    /\ AllRewrapped(c) /\ (keyLock = NoProvider \/ migrator[c].failed)
    /\ completed' = IF ~migrator[c].failed /\ RemovalReady(migrator[c].to)
                      THEN migrator[c].to ELSE completed
    /\ migrator' = [migrator EXCEPT ![c] = NoMigration]
    /\ UNCHANGED <<wrapper, writeFence, keyLock, writer, registry, keyFaults, migrations>>

(* The command is interrupted. *)
InterruptMigration(c) ==
    /\ migrator[c].at # "idle" /\ keyFaults < MaxKeyFaults
    /\ keyFaults' = keyFaults + 1
    /\ migrator' = [migrator EXCEPT ![c] = NoMigration]
    /\ UNCHANGED <<wrapper, writeFence, completed, keyLock, writer, registry, migrations>>

KeyNext ==
    \/ \E p \in KeyPods : \/ RestartPod(p) \/ CreateKey(p)
                          \/ \E u \in ContentUsers : LoadActive(p, u)
    \/ \E c \in Migrators : \/ RecordStarted(c) \/ LoadWrapper(c) \/ PromotePending(c)
                            \/ RewrapFails(c) \/ CompleteMigration(c) \/ InterruptMigration(c)
                            \/ \E u \in ContentUsers : ListUser(c, u)

KeySpec == KeyInit /\ [][KeyNext]_keyVars

-----------------------------------------------------------------------------
(* Types: wrappers, writers, processes and runs of the command. *)
KeyTypeOK ==
    /\ wrapper \in [ContentUsers -> [KeyProviders -> {NoProvider, "active", "pending", "retiring"}]]
    /\ {writeFence, completed} \subseteq ProviderOrNone
    /\ keyLock \in KeyPods \cup {NoProvider}
    /\ writer \in [KeyPods -> [user : ContentUsers \cup {NoProvider}, fence : ProviderOrNone]]
    /\ registry \in [KeyPods -> [active : KeyProviders, migration : ProviderOrNone]]
    /\ migrator \in [Migrators -> [at : {"idle", "list", "rewrap", "promote"},
                                   from : ProviderOrNone, to : ProviderOrNone,
                                   unlisted : SUBSET ContentUsers, todo : SUBSET ContentUsers,
                                   user : ContentUsers \cup {NoProvider}, failed : BOOLEAN]]
    /\ keyFaults \in 0..MaxKeyFaults /\ migrations \in 0..MaxMigrations

(* Once a migration is recorded as completed, and until another starts, no *)
(* user has another provider's wrapper active, new users included, so that *)
(* the old provider can be taken away; and a run that has failed for no    *)
(* user is not refused (recordProviderMigrationEvent before                *)
(* getProviderRewrapUsers, loadOrCreateActive, completeProviderMigration). *)
OldProviderUnused ==
    /\ completed # NoProvider => RemovalReady(completed)
    /\ \A c \in Migrators :
          (AllRewrapped(c) /\ ~migrator[c].failed) =>
             \A u \in ContentUsers : ActiveOf(u) # migrator[c].from
=============================================================================
