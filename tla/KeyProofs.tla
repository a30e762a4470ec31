------------------------------ MODULE KeyProofs -------------------------------
(***************************************************************************)
(* What the keys of prompt content keep: ManagedKeys for any users, web    *)
(* processes, key providers and runs of the command, and UserKeyCache for  *)
(* any keys, calls and capacity.                                           *)
(***************************************************************************)
EXTENDS ManagedKeys, UserKeyCache, SequenceTheorems, FiniteSetTheorems, TLAPS

(***************************************************************************)
(*                              ManagedKeys                                *)
(***************************************************************************)

(* The records of the runs of the command.                                 *)
MigrationRecords ==
    [at : {"idle", "list", "rewrap", "promote"}, from : ProviderOrNone, to : ProviderOrNone,
     unlisted : SUBSET ContentUsers, todo : SUBSET ContentUsers,
     user : ContentUsers \cup {NoProvider}, failed : BOOLEAN]

(* A user has at most one active wrapper, and no wrapper waits.            *)
OneActive ==
    \A u \in ContentUsers, p, q \in KeyProviders :
       wrapper[u][p] = "active" /\ wrapper[u][q] = "active" => p = q

NonePending == \A u \in ContentUsers, p \in KeyProviders : wrapper[u][p] # "pending"

(* A process that creates a key holds the lock, so that the fence it has   *)
(* read is the fence.                                                      *)
WritersHoldLock ==
    \A p \in KeyPods : writer[p] # NoCreation =>
       writer[p].user \in ContentUsers /\ keyLock = p /\ writer[p].fence = writeFence

(* A run of the command moves users to the fence, away from another        *)
(* provider, and has not lost sight of a user it has yet to move.          *)
OnItsWay(m) ==
    /\ m.from \in KeyProviders /\ m.to \in KeyProviders
    /\ m.to = writeFence /\ m.from # m.to
    /\ m.at # "list" => m.unlisted = {}
    /\ m.at # "promote" => m.user = NoProvider
    /\ m.at = "promote" => m.user \in ContentUsers
    /\ ~m.failed => \A u \in ContentUsers :
          wrapper[u][m.from] = "active" => u \in m.unlisted \/ u \in m.todo \/ u = m.user

RunsOnTheirWay == \A c \in Migrators : migrator[c].at # "idle" => OnItsWay(migrator[c])

(* A completed migration is the latest, and nobody uses another provider.  *)
NobodyBehind ==
    completed # NoProvider =>
       /\ completed = writeFence
       /\ \A u \in ContentUsers, p \in KeyProviders : wrapper[u][p] = "active" => p = completed

KeyInv == KeyTypeOK /\ OneActive /\ NonePending /\ WritersHoldLock /\ RunsOnTheirWay /\ NobodyBehind

-----------------------------------------------------------------------------
(* ActiveOf finds the active wrapper, if there is one.                     *)
LEMMA ActiveOfFinds ==
    ASSUME OneActive
    PROVE  \A u \in ContentUsers :
              /\ \A p \in KeyProviders : wrapper[u][p] = "active" <=> ActiveOf(u) = p
              /\ ActiveOf(u) \in ProviderOrNone
<1> TAKE u \in ContentUsers
<1>1. CASE \E p \in KeyProviders : wrapper[u][p] = "active"
  BY <1>1 DEF ActiveOf, OneActive, ProviderOrNone
<1>2. CASE \A p \in KeyProviders : wrapper[u][p] # "active"
  BY <1>2, KeyAssumption DEF ActiveOf, ProviderOrNone
<1> QED  BY <1>1, <1>2

(* What happens to a process that writes leaves the rest as it is.         *)
LEMMA RestartPodKeeps ==
    ASSUME KeyInv, NEW p \in KeyPods, RestartPod(p)
    PROVE  KeyInv'
<1> USE DEF KeyInv
<1>1. KeyTypeOK'
  BY KeyAssumption DEF RestartPod, KeyTypeOK, ProviderOrNone, NoCreation
<1>2. OneActive' /\ NonePending' /\ NobodyBehind'
  BY DEF RestartPod, OneActive, NonePending, NobodyBehind
<1>3. WritersHoldLock'
  BY KeyAssumption DEF RestartPod, WritersHoldLock, KeyTypeOK, NoCreation
<1>4. RunsOnTheirWay'
  BY DEF RestartPod, RunsOnTheirWay, OnItsWay
<1> QED  BY <1>1, <1>2, <1>3, <1>4

(* The lock is taken with the fence that is in force.                      *)
LEMMA LoadActiveKeeps ==
    ASSUME KeyInv, NEW p \in KeyPods, NEW u \in ContentUsers, LoadActive(p, u)
    PROVE  KeyInv'
<1> USE DEF KeyInv
<1>1. KeyTypeOK'
  BY KeyAssumption DEF LoadActive, KeyTypeOK, ProviderOrNone, NoCreation
<1>2. OneActive' /\ NonePending' /\ NobodyBehind'
  BY DEF LoadActive, OneActive, NonePending, NobodyBehind
<1>3. WritersHoldLock'
  BY KeyAssumption DEF LoadActive, WritersHoldLock, KeyTypeOK, NoCreation
<1>4. RunsOnTheirWay'
  BY DEF LoadActive, RunsOnTheirWay, OnItsWay
<1> QED  BY <1>1, <1>2, <1>3, <1>4

(* A new key is wrapped by the target of the latest migration: it is no    *)
(* user that a run would have to move.                                     *)
LEMMA CreateKeyKeeps ==
    ASSUME KeyInv, NEW p \in KeyPods, CreateKey(p)
    PROVE  KeyInv'
<1> USE DEF KeyInv
<1> DEFINE u == writer[p].user
           a == IF writer[p].fence # NoProvider THEN writer[p].fence ELSE registry[p].active
<1>1. u \in ContentUsers /\ a \in KeyProviders /\ keyLock = p
      /\ (writeFence # NoProvider => a = writeFence)
  BY DEF CreateKey, WritersHoldLock, KeyTypeOK, ProviderOrNone
<1>2. \/ wrapper' = wrapper
      \/ /\ wrapper' = [wrapper EXCEPT ![u][a] = "active"]
         /\ \A q \in KeyProviders : wrapper[u][q] # "active"
  <2>1. ActiveOf(u) = NoProvider => \A q \in KeyProviders : wrapper[u][q] # "active"
    BY <1>1, ActiveOfFinds, KeyAssumption
  <2> QED  BY <2>1 DEF CreateKey
<1>3. \A v \in ContentUsers, q \in KeyProviders :
         wrapper'[v][q] = wrapper[v][q] \/ (v = u /\ q = a /\ wrapper'[v][q] = "active")
  BY <1>1, <1>2 DEF KeyTypeOK
<1>4. writer' = [writer EXCEPT ![p] = NoCreation] /\ keyLock' = NoProvider
      /\ UNCHANGED <<writeFence, completed, registry, migrator, keyFaults, migrations>>
  BY <1>1 DEF CreateKey
<1> HIDE DEF u, a
<1>5. wrapper' \in [ContentUsers -> [KeyProviders -> {NoProvider, "active", "pending", "retiring"}]]
  <2> DEFINE w == [wrapper[u] EXCEPT ![a] = "active"]
  <2>1. wrapper[u] \in [KeyProviders -> {NoProvider, "active", "pending", "retiring"}]
    BY <1>1 DEF KeyTypeOK
  <2>2. w \in [KeyProviders -> {NoProvider, "active", "pending", "retiring"}]
    BY <2>1
  <2>3. wrapper' = wrapper \/ wrapper' = [wrapper EXCEPT ![u] = w]
    BY <1>2
  <2> HIDE DEF w
  <2> QED  BY <2>2, <2>3 DEF KeyTypeOK
<1>6. KeyTypeOK'
  BY <1>4, <1>5 DEF KeyTypeOK, ProviderOrNone, NoCreation
<1>7. OneActive' /\ NonePending'
  BY <1>2, <1>3 DEF OneActive, NonePending
<1>8. WritersHoldLock'
  BY <1>1, <1>4, KeyAssumption DEF WritersHoldLock, KeyTypeOK, NoCreation
<1>9. RunsOnTheirWay'
  BY <1>1, <1>3, <1>4, KeyAssumption DEF RunsOnTheirWay, OnItsWay
<1>10. NobodyBehind'
  BY <1>1, <1>3, <1>4 DEF NobodyBehind
<1> QED  BY <1>6, <1>7, <1>8, <1>9, <1>10

-----------------------------------------------------------------------------
(* A start changes the fence while nobody creates a key, and only to where *)
(* the other runs are moving.                                              *)
LEMMA RecordStartedKeeps ==
    ASSUME KeyInv, NEW c \in Migrators, RecordStarted(c)
    PROVE  KeyInv'
<1> USE DEF KeyInv
<1>1. PICK d \in Directions :
          /\ \A o \in Migrators : migrator[o].at = "idle" \/ migrator[o].to = d[2]
          /\ writeFence' = d[2]
          /\ migrator' = [migrator EXCEPT ![c] = [NoMigration EXCEPT !.at = "list", !.from = d[1],
                                                  !.to = d[2], !.unlisted = ContentUsers]]
  BY DEF RecordStarted
<1>2. d[1] \in KeyProviders /\ d[2] \in KeyProviders /\ d[1] # d[2]
  BY DEF Directions
<1> DEFINE m == [NoMigration EXCEPT !.at = "list", !.from = d[1], !.to = d[2],
                                    !.unlisted = ContentUsers]
<1>3. m.at = "list" /\ m.from = d[1] /\ m.to = d[2] /\ m.unlisted = ContentUsers
      /\ m.user = NoProvider /\ m \in MigrationRecords
  BY <1>2, KeyAssumption DEF NoMigration, MigrationRecords, ProviderOrNone
<1>4. migrator' = [migrator EXCEPT ![c] = m]
  BY <1>1
<1> HIDE DEF m
<1>5. KeyTypeOK'
  <2>1. /\ migrations < MaxMigrations /\ migrations' = migrations + 1 /\ completed' = NoProvider
        /\ UNCHANGED <<wrapper, keyLock, writer, registry, keyFaults>>
    BY DEF RecordStarted
  <2>2. migrations' \in 0..MaxMigrations
    BY <2>1, KeyAssumption DEF KeyTypeOK
  <2>3. migrator' \in [Migrators -> MigrationRecords]
    BY <1>3, <1>4 DEF KeyTypeOK, MigrationRecords
  <2> QED  BY <1>1, <1>2, <2>1, <2>2, <2>3 DEF KeyTypeOK, ProviderOrNone, MigrationRecords
<1>6. OneActive' /\ NonePending' /\ NobodyBehind'
  BY DEF RecordStarted, OneActive, NonePending, NobodyBehind
<1>7. WritersHoldLock'
  BY KeyAssumption DEF RecordStarted, WritersHoldLock, KeyTypeOK, NoCreation
<1>8. \A o \in Migrators : migrator'[o] = IF o = c THEN m ELSE migrator[o]
  BY <1>4 DEF KeyTypeOK
<1>9. wrapper' = wrapper
  BY DEF RecordStarted
<1>10. RunsOnTheirWay'
  <2> SUFFICES ASSUME NEW o \in Migrators, migrator'[o].at # "idle"
               PROVE  OnItsWay(migrator[o])'
    BY DEF RunsOnTheirWay
  <2>1. CASE o = c
    BY <1>1, <1>2, <1>3, <1>8, <1>9, <2>1 DEF OnItsWay
  <2>2. CASE o # c
    <3>1. migrator'[o] = migrator[o] /\ OnItsWay(migrator[o])
      BY <1>8, <2>2 DEF RunsOnTheirWay
    <3>2. migrator[o].to = d[2]
      BY <1>1, <3>1
    <3> QED  BY <1>1, <1>9, <3>1, <3>2 DEF OnItsWay
  <2> QED  BY <2>1, <2>2
<1> QED  BY <1>5, <1>6, <1>7, <1>10

(* A run that goes on, and nothing else, keeps the invariant if its new    *)
(* record does.                                                            *)
LEMMA MigrationGoesOn ==
    ASSUME KeyInv, NEW c \in Migrators, NEW m,
           migrator' = [migrator EXCEPT ![c] = m],
           UNCHANGED <<wrapper, writeFence, keyLock, writer, registry, migrations>>,
           completed' = completed, keyFaults' \in 0..MaxKeyFaults,
           m \in MigrationRecords,
           m.at # "idle" => OnItsWay(m)
    PROVE  KeyInv'
<1> USE DEF KeyInv
<1>1. KeyTypeOK'
  BY DEF KeyTypeOK, ProviderOrNone, MigrationRecords
<1>2. OneActive' /\ NonePending' /\ NobodyBehind' /\ WritersHoldLock'
  BY DEF OneActive, NonePending, NobodyBehind, WritersHoldLock
<1>3. \A o \in Migrators : migrator'[o] = IF o = c THEN m ELSE migrator[o]
  BY DEF KeyTypeOK
<1>4. RunsOnTheirWay'
  BY <1>3 DEF RunsOnTheirWay, OnItsWay
<1> QED  BY <1>1, <1>2, <1>4

(* A user is listed if the old provider wraps its key.                     *)
LEMMA ListUserKeeps ==
    ASSUME KeyInv, NEW c \in Migrators, NEW u \in ContentUsers, ListUser(c, u)
    PROVE  KeyInv'
<1> USE DEF KeyInv
<1> DEFINE o == migrator[c]
           more == IF ActiveOf(u) = o.from THEN o.todo \cup {u} ELSE o.todo
           at == IF o.unlisted = {u} THEN "rewrap" ELSE "list"
           m == [o EXCEPT !.unlisted = @ \ {u},
                          !.todo = IF ActiveOf(u) = o.from THEN @ \cup {u} ELSE @,
                          !.at = IF o.unlisted = {u} THEN "rewrap" ELSE "list"]
<1>1. OnItsWay(o) /\ o.at = "list" /\ u \in o.unlisted
  BY DEF ListUser, RunsOnTheirWay
<1>2. o \in MigrationRecords
  BY DEF KeyTypeOK, MigrationRecords
<1>3. migrator' = [migrator EXCEPT ![c] = m]
      /\ UNCHANGED <<wrapper, writeFence, completed, keyLock, writer, registry, keyFaults, migrations>>
  BY DEF ListUser
<1>4. ActiveOf(u) = o.from <=> wrapper[u][o.from] = "active"
  BY <1>1, ActiveOfFinds DEF OnItsWay
<1>5. m.at = at /\ m.from = o.from /\ m.to = o.to /\ m.unlisted = o.unlisted \ {u} /\ m.todo = more
      /\ m.user = o.user /\ m.failed = o.failed /\ m \in MigrationRecords
  BY <1>2 DEF MigrationRecords
<1>6. more \in SUBSET ContentUsers /\ o.todo \subseteq more /\ (ActiveOf(u) = o.from => u \in more)
      /\ at \in {"list", "rewrap"} /\ (at = "rewrap" => o.unlisted = {u})
  <2>1. o.todo \in SUBSET ContentUsers
    BY <1>2 DEF MigrationRecords
  <2> HIDE DEF o
  <2> QED  BY <2>1
<1> HIDE DEF o, m, more, at
<1>7. OnItsWay(m)
  BY <1>1, <1>4, <1>5, <1>6 DEF OnItsWay
<1>9. keyFaults' \in 0..MaxKeyFaults
  BY <1>3 DEF KeyTypeOK
<1> QED  BY <1>3, <1>5, <1>7, <1>9, MigrationGoesOn

(* A user is left out of the list when the target wraps its key, and is    *)
(* the run's user while its wrapper is made.                               *)
LEMMA LoadWrapperKeeps ==
    ASSUME KeyInv, NEW c \in Migrators, LoadWrapper(c)
    PROVE  KeyInv'
<1> USE DEF KeyInv
<1> DEFINE o == migrator[c]
<1>1. PICK u \in o.todo :
         LET m == [o EXCEPT !.todo = @ \ {u}]
         IN \/ ActiveOf(u) = m.to /\ migrator' = [migrator EXCEPT ![c] = m]
            \/ /\ ActiveOf(u) = m.from
               /\ migrator' = [migrator EXCEPT ![c] = [m EXCEPT !.at = "promote", !.user = u]]
            \/ /\ ActiveOf(u) \notin {m.from, m.to}
               /\ migrator' = [migrator EXCEPT ![c] = [m EXCEPT !.failed = TRUE]]
  BY DEF LoadWrapper
<1>2. OnItsWay(o) /\ o.at = "rewrap"
  BY DEF LoadWrapper, RunsOnTheirWay
<1>3. o \in MigrationRecords
  BY DEF KeyTypeOK, MigrationRecords
<1>4. /\ UNCHANGED <<wrapper, writeFence, completed, keyLock, writer, registry, migrations>>
      /\ keyFaults' \in 0..MaxKeyFaults
  BY DEF LoadWrapper, KeyTypeOK
<1>5. u \in ContentUsers
  BY <1>3 DEF MigrationRecords
<1>6. \A p \in KeyProviders : wrapper[u][p] = "active" <=> ActiveOf(u) = p
  BY <1>5, ActiveOfFinds
<1> DEFINE m == [o EXCEPT !.todo = @ \ {u}]
           n == [m EXCEPT !.at = "promote", !.user = u]
           f == [m EXCEPT !.failed = TRUE]
<1>7. \/ ActiveOf(u) = m.to /\ migrator' = [migrator EXCEPT ![c] = m]
      \/ ActiveOf(u) = m.from /\ migrator' = [migrator EXCEPT ![c] = n]
      \/ migrator' = [migrator EXCEPT ![c] = f]
  BY <1>1
<1> HIDE DEF o
<1>8. /\ m \in MigrationRecords /\ m.at = o.at /\ m.from = o.from /\ m.to = o.to
      /\ m.unlisted = o.unlisted /\ m.todo = o.todo \ {u} /\ m.user = o.user /\ m.failed = o.failed
  BY <1>3 DEF MigrationRecords
<1> HIDE DEF m
<1>9. /\ n \in MigrationRecords /\ n.at = "promote" /\ n.from = m.from /\ n.to = m.to
      /\ n.unlisted = m.unlisted /\ n.todo = m.todo /\ n.user = u /\ n.failed = m.failed
  BY <1>5, <1>8 DEF MigrationRecords
<1>10. /\ f \in MigrationRecords /\ f.at = m.at /\ f.from = m.from /\ f.to = m.to
       /\ f.unlisted = m.unlisted /\ f.user = m.user /\ f.failed = TRUE
  BY <1>8 DEF MigrationRecords
<1> HIDE DEF n, f
<1>11. CASE ActiveOf(u) = m.to /\ migrator' = [migrator EXCEPT ![c] = m]
  <2>1. OnItsWay(m)
    BY <1>2, <1>6, <1>8, <1>11 DEF OnItsWay
  <2> QED  BY <1>4, <1>8, <1>11, <2>1, MigrationGoesOn
<1>12. CASE ActiveOf(u) = m.from /\ migrator' = [migrator EXCEPT ![c] = n]
  <2>1. OnItsWay(n)
    BY <1>2, <1>5, <1>8, <1>9, KeyAssumption DEF OnItsWay
  <2> QED  BY <1>4, <1>9, <1>12, <2>1, MigrationGoesOn
<1>13. CASE migrator' = [migrator EXCEPT ![c] = f]
  <2>1. OnItsWay(f)
    BY <1>2, <1>8, <1>10 DEF OnItsWay
  <2> QED  BY <1>4, <1>10, <1>13, <2>1, MigrationGoesOn
<1> QED  BY <1>7, <1>11, <1>12, <1>13

(* The target takes over from the provider the run has read, if that is    *)
(* still the user's, and else the run has failed.                          *)
LEMMA PromotePendingKeeps ==
    ASSUME KeyInv, NEW c \in Migrators, PromotePending(c)
    PROVE  KeyInv'
<1> USE DEF KeyInv
<1> DEFINE o == migrator[c]
           same == wrapper[o.user][o.from] = "active"
           n == [o EXCEPT !.at = "rewrap", !.user = NoProvider, !.failed = @ \/ ~same]
<1>1. OnItsWay(o) /\ o.at = "promote" /\ o \in MigrationRecords
  BY DEF PromotePending, RunsOnTheirWay, KeyTypeOK, MigrationRecords
<1>2. /\ keyLock = NoProvider /\ migrator' = [migrator EXCEPT ![c] = n]
      /\ UNCHANGED <<writeFence, completed, keyLock, writer, registry, keyFaults, migrations>>
  BY DEF PromotePending
<1>3. wrapper' = (IF same THEN [wrapper EXCEPT ![o.user][o.from] = "retiring", ![o.user][o.to] = "active"]
                  ELSE wrapper)
  BY DEF PromotePending
<1>4. o.user \in ContentUsers /\ o.from \in KeyProviders /\ o.to \in KeyProviders
      /\ o.to = writeFence /\ o.from # o.to /\ o.unlisted = {}
  BY <1>1 DEF OnItsWay
<1> HIDE DEF o
<1>5. /\ n \in MigrationRecords /\ n.at = "rewrap" /\ n.from = o.from /\ n.to = o.to
      /\ n.unlisted = o.unlisted /\ n.todo = o.todo /\ n.user = NoProvider
      /\ (~n.failed => ~o.failed /\ same)
  <2> HIDE DEF same
  <2> QED  BY <1>1 DEF MigrationRecords
<1> HIDE DEF n
<1>6. wrapper' \in [ContentUsers -> [KeyProviders -> {NoProvider, "active", "pending", "retiring"}]]
      /\ \A u \in ContentUsers, p \in KeyProviders :
            wrapper'[u][p] = IF same /\ u = o.user /\ p = o.to THEN "active"
                             ELSE IF same /\ u = o.user /\ p = o.from THEN "retiring"
                             ELSE wrapper[u][p]
  <2>1. CASE ~same
    BY <1>3, <2>1 DEF KeyTypeOK
  <2>2. CASE same
    <3> DEFINE x == [wrapper[o.user] EXCEPT ![o.from] = "retiring"]
               y == [x EXCEPT ![o.to] = "active"]
    <3>1. wrapper[o.user] \in [KeyProviders -> {NoProvider, "active", "pending", "retiring"}]
      BY <1>4 DEF KeyTypeOK
    <3>2. x \in [KeyProviders -> {NoProvider, "active", "pending", "retiring"}]
          /\ \A p \in KeyProviders : x[p] = IF p = o.from THEN "retiring" ELSE wrapper[o.user][p]
      BY <3>1
    <3>3. wrapper \in [ContentUsers -> [KeyProviders -> {NoProvider, "active", "pending", "retiring"}]]
      BY DEF KeyTypeOK
    <3>4. wrapper' = [wrapper EXCEPT ![o.user] = y]
      BY <1>3, <1>4, <2>2, <3>3
    <3> HIDE DEF x
    <3>5. y \in [KeyProviders -> {NoProvider, "active", "pending", "retiring"}]
          /\ \A p \in KeyProviders : y[p] = IF p = o.to THEN "active" ELSE x[p]
      BY <3>2
    <3> HIDE DEF y
    <3> QED  BY <1>4, <2>2, <3>2, <3>3, <3>4, <3>5
  <2> QED  BY <2>1, <2>2
<1>7. same => \A p \in KeyProviders : wrapper[o.user][p] = "active" => p = o.from
  BY <1>4 DEF OneActive
<1>8. KeyTypeOK'
  BY <1>2, <1>5, <1>6 DEF KeyTypeOK, MigrationRecords
<1> HIDE DEF same
<1>9. OneActive' /\ NonePending'
  BY <1>6, <1>7 DEF OneActive, NonePending
<1>10. WritersHoldLock'
  BY <1>2 DEF WritersHoldLock
<1>11. NobodyBehind'
  BY <1>2, <1>4, <1>6 DEF NobodyBehind
<1>12. \A i \in Migrators : migrator'[i] = IF i = c THEN n ELSE migrator[i]
  BY <1>2 DEF KeyTypeOK
<1>13. RunsOnTheirWay'
  <2> SUFFICES ASSUME NEW i \in Migrators, migrator'[i].at # "idle"
               PROVE  OnItsWay(migrator[i])'
    BY DEF RunsOnTheirWay
  <2>1. CASE i = c
    <3>1. migrator'[i] = n
      BY <1>12, <2>1
    <3> QED  BY <1>1, <1>2, <1>4, <1>5, <1>6, <1>7, <3>1 DEF OnItsWay
  <2>2. CASE i # c
    <3>1. migrator'[i] = migrator[i] /\ OnItsWay(migrator[i])
      BY <1>12, <2>2 DEF RunsOnTheirWay
    <3> QED  BY <1>2, <1>4, <1>6, <3>1 DEF OnItsWay
  <2> QED  BY <2>1, <2>2
<1> QED  BY <1>8, <1>9, <1>10, <1>11, <1>13

(* A run that fails for a user remembers it.                               *)
LEMMA RewrapFailsKeeps ==
    ASSUME KeyInv, NEW c \in Migrators, RewrapFails(c)
    PROVE  KeyInv'
<1> USE DEF KeyInv
<1> DEFINE o == migrator[c]
           n == [o EXCEPT !.at = "rewrap", !.user = NoProvider, !.failed = TRUE]
<1>1. OnItsWay(o) /\ o.at = "promote" /\ o \in MigrationRecords
  BY DEF RewrapFails, RunsOnTheirWay, KeyTypeOK, MigrationRecords
<1>2. migrator' = [migrator EXCEPT ![c] = n]
  BY DEF RewrapFails, KeyTypeOK
<1>3. UNCHANGED <<wrapper, writeFence, completed, keyLock, writer, registry, migrations>>
      /\ keyFaults' \in 0..MaxKeyFaults
  BY KeyAssumption DEF RewrapFails, KeyTypeOK
<1> HIDE DEF o
<1>4. /\ n \in MigrationRecords /\ n.at = "rewrap" /\ n.from = o.from /\ n.to = o.to
      /\ n.unlisted = o.unlisted /\ n.user = NoProvider /\ n.failed = TRUE
  BY <1>1 DEF MigrationRecords
<1> HIDE DEF n
<1>5. OnItsWay(n)
  BY <1>1, <1>4 DEF OnItsWay
<1> QED  BY <1>2, <1>3, <1>4, <1>5, MigrationGoesOn

(* An interrupted run is forgotten.                                        *)
LEMMA InterruptMigrationKeeps ==
    ASSUME KeyInv, NEW c \in Migrators, InterruptMigration(c)
    PROVE  KeyInv'
<1>1. NoMigration \in MigrationRecords /\ NoMigration.at = "idle"
  BY DEF NoMigration, MigrationRecords, ProviderOrNone
<1>2. UNCHANGED <<wrapper, writeFence, completed, keyLock, writer, registry, migrations>>
      /\ keyFaults' \in 0..MaxKeyFaults
  BY KeyAssumption DEF InterruptMigration, KeyInv, KeyTypeOK
<1>3. migrator' = [migrator EXCEPT ![c] = NoMigration]
  BY DEF InterruptMigration
<1> QED  BY <1>1, <1>2, <1>3, MigrationGoesOn

(* A migration is recorded as completed when nobody uses another provider  *)
(* and nobody creates a key.                                               *)
LEMMA CompleteMigrationKeeps ==
    ASSUME KeyInv, NEW c \in Migrators, CompleteMigration(c)
    PROVE  KeyInv'
<1> USE DEF KeyInv
<1> DEFINE o == migrator[c]
           done == ~o.failed /\ RemovalReady(o.to)
<1>1. OnItsWay(o) /\ o.at = "rewrap"
  BY DEF CompleteMigration, AllRewrapped, RunsOnTheirWay
<1>2. /\ migrator' = [migrator EXCEPT ![c] = NoMigration]
      /\ completed' = (IF done THEN o.to ELSE completed)
      /\ UNCHANGED <<wrapper, writeFence, keyLock, writer, registry, keyFaults, migrations>>
  BY DEF CompleteMigration
<1>3. NoMigration \in MigrationRecords /\ NoMigration.at = "idle"
  BY DEF NoMigration, MigrationRecords, ProviderOrNone
<1>4. done => \A u \in ContentUsers, p \in KeyProviders : wrapper[u][p] = "active" => p = o.to
  BY ActiveOfFinds, KeyAssumption DEF RemovalReady
<1>5. o.to = writeFence /\ o.to \in KeyProviders
  BY <1>1 DEF OnItsWay
<1> HIDE DEF o, done
<1>6. completed' \in ProviderOrNone
  BY <1>2, <1>5 DEF KeyTypeOK, ProviderOrNone
<1>7. KeyTypeOK'
  BY <1>2, <1>3, <1>6 DEF KeyTypeOK, MigrationRecords
<1>8. OneActive' /\ NonePending' /\ WritersHoldLock'
  BY <1>2 DEF OneActive, NonePending, WritersHoldLock
<1>9. NobodyBehind'
  BY <1>2, <1>4, <1>5 DEF NobodyBehind
<1>10. \A i \in Migrators : migrator'[i] = IF i = c THEN NoMigration ELSE migrator[i]
  BY <1>2 DEF KeyTypeOK
<1>11. RunsOnTheirWay'
  BY <1>2, <1>3, <1>10 DEF RunsOnTheirWay, OnItsWay
<1> QED  BY <1>7, <1>8, <1>9, <1>11

-----------------------------------------------------------------------------
(* KeyInv holds at the start.                                              *)
LEMMA KeyInvInit == KeyInit => KeyInv
<1> SUFFICES ASSUME KeyInit PROVE KeyInv
  OBVIOUS
<1>1. KeyTypeOK
  <2>1. NoMigration \in MigrationRecords
    BY DEF NoMigration, MigrationRecords, ProviderOrNone
  <2>2. registry \in [KeyPods -> [active : KeyProviders, migration : ProviderOrNone]]
    BY DEF KeyInit, ProviderOrNone
  <2> QED  BY <2>1, <2>2, KeyAssumption DEF KeyInit, KeyTypeOK, MigrationRecords, NoCreation, ProviderOrNone
<1>2. OneActive /\ NonePending
  BY DEF KeyInit, OneActive, NonePending, NoProvider
<1>3. WritersHoldLock /\ NobodyBehind
  BY DEF KeyInit, WritersHoldLock, NobodyBehind
<1>4. RunsOnTheirWay
  BY DEF KeyInit, RunsOnTheirWay, NoMigration
<1> QED  BY <1>1, <1>2, <1>3, <1>4 DEF KeyInv

(* Every step keeps KeyInv.                                                *)
LEMMA KeyInvNext == KeyInv /\ [KeyNext]_keyVars => KeyInv'
<1> SUFFICES ASSUME KeyInv, [KeyNext]_keyVars PROVE KeyInv'
  OBVIOUS
<1>1. CASE UNCHANGED keyVars
  BY <1>1 DEF keyVars, KeyInv, KeyTypeOK, OneActive, NonePending, WritersHoldLock, RunsOnTheirWay,
              OnItsWay, NobodyBehind
<1>2. CASE KeyNext
  BY <1>2, RestartPodKeeps, LoadActiveKeeps, CreateKeyKeeps, RecordStartedKeeps, ListUserKeeps,
     LoadWrapperKeeps, PromotePendingKeeps, RewrapFailsKeeps, InterruptMigrationKeeps,
     CompleteMigrationKeeps DEF KeyNext
<1> QED  BY <1>1, <1>2

(* KeyInv holds in every behaviour.                                        *)
LEMMA KeyInvAlways == KeySpec => []KeyInv
<1> QED  BY KeyInvInit, KeyInvNext, PTL DEF KeySpec

(* Wrappers, writers, processes and runs of the command keep their types.  *)
THEOREM KeysTyped == KeySpec => []KeyTypeOK
<1>1. KeyInv => KeyTypeOK
  BY DEF KeyInv
<1> QED  BY <1>1, KeyInvAlways, PTL

(* The old provider can be taken away once a migration is recorded as      *)
(* completed: nobody's wrapper but the target's is active, whatever        *)
(* processes with old providers create, restart or run the command again   *)
(* meanwhile; and a run that fails for no user leaves nobody behind        *)
(* (recordProviderMigrationEvent, loadOrCreateActive,                      *)
(* completeProviderMigration).                                             *)
THEOREM OldProviderNeverUsed == KeySpec => []OldProviderUnused
<1>1. KeyInv => OldProviderUnused
  <2> SUFFICES ASSUME KeyInv PROVE OldProviderUnused
    OBVIOUS
  <2>1. \A u \in ContentUsers : /\ \A p \in KeyProviders : wrapper[u][p] = "active" <=> ActiveOf(u) = p
                                /\ ActiveOf(u) \in ProviderOrNone
    BY ActiveOfFinds DEF KeyInv
  <2>2. completed # NoProvider => RemovalReady(completed)
    BY <2>1 DEF KeyInv, NobodyBehind, NonePending, RemovalReady, ProviderOrNone
  <2>3. ASSUME NEW c \in Migrators, AllRewrapped(c), ~migrator[c].failed, NEW u \in ContentUsers
        PROVE  ActiveOf(u) # migrator[c].from
    BY <2>1, <2>3, KeyAssumption DEF KeyInv, RunsOnTheirWay, OnItsWay, AllRewrapped
  <2> QED  BY <2>2, <2>3 DEF OldProviderUnused
<1> QED  BY <1>1, KeyInvAlways, PTL

(***************************************************************************)
(*                              UserKeyCache                               *)
(***************************************************************************)
(* Entries, loads and calls: a call has one of n loads. *)
Entries == [key : CacheKeys, load : 1..MaxLoads, expired : BOOLEAN]
Flights == [key : CacheKeys, gen : Nat, waiters : Nat, born : Nat,
            at : {"loading", "answered", "settled"}, source : {"none", "key", "zeroed"}]
Calls(n) == {NotCalled} \cup [at : {"waiting", "done"}, key : CacheKeys, load : 1..n, since : Nat,
                              source : {"none", "key", "zeroed"}]

(* A key has one entry. *)
Apart(entries) == \A i, j \in DOMAIN entries : entries[i].key = entries[j].key => i = j

(* An entry is of a load of its key that nothing has evicted since. *)
EntryFresh(e) == e.load \in DOMAIN loads /\ loads[e.load].born = evictions[e.key]
EntriesFresh == Apart(kept) /\ \A i \in DOMAIN kept : EntryFresh(kept[i])

(* So is the load of a key, which still has something to do. *)
FlightsFresh ==
    \A k \in CacheKeys : inflight[k] # 0 =>
       /\ inflight[k] \in DOMAIN loads
       /\ loads[inflight[k]].key = k /\ loads[inflight[k]].born = evictions[k]
       /\ ~Finished(loads[inflight[k]])

(* A load counts those who wait for it. *)
WaitersOf(calls, i) == {c \in KeyCallers : calls[c].at = "waiting" /\ calls[c].load = i}
WaitersCounted ==
    \A i \in DOMAIN loads : /\ IsFiniteSet(WaitersOf(caller, i))
                            /\ loads[i].waiters = Cardinality(WaitersOf(caller, i))

(* Keys are wiped when a load is finished, and never before. *)
WipedAtEnd ==
    \A i \in DOMAIN loads : /\ Finished(loads[i]) => loads[i].source # "key"
                            /\ loads[i].source = "zeroed" => Finished(loads[i])

(* Nobody got, or waits for, a key older than the call. *)
CallsFresh ==
    \A c \in KeyCallers : caller[c].at # "idle" =>
       loads[caller[c].load].born >= caller[c].since /\ caller[c].source # "zeroed"

KeyCacheInv ==
    KeyCacheTypeOK /\ EntriesFresh /\ FlightsFresh /\ WaitersCounted /\ WipedAtEnd /\ CallsFresh

-----------------------------------------------------------------------------
(* The end of a sequence, from some place on.                              *)
LEMMA SuffixFacts ==
    ASSUME NEW S, NEW s \in Seq(S), NEW n \in 0..Len(s)
    PROVE  /\ SubSeq(s, n + 1, Len(s)) \in Seq(S) /\ Len(SubSeq(s, n + 1, Len(s))) = Len(s) - n
           /\ \A j \in 1..(Len(s) - n) : SubSeq(s, n + 1, Len(s))[j] = s[n + j]
<1> QED  OBVIOUS

(* An entry that is dropped is the only one of its key; the others stay.   *)
LEMMA DropLeaves ==
    ASSUME NEW S, NEW s \in Seq(S), Apart(s), NEW k
    PROVE  /\ Drop(s, k) \in Seq(S) /\ Apart(Drop(s, k))
           /\ \A j \in DOMAIN Drop(s, k) : /\ Drop(s, k)[j].key # k
                                           /\ \E h \in DOMAIN s : Drop(s, k)[j] = s[h]
           /\ Len(Drop(s, k)) <= Len(s) /\ (InCache(s, k) => Len(Drop(s, k)) = Len(s) - 1)
<1>1. Len(s) \in Nat /\ DOMAIN s = 1..Len(s)
  BY LenProperties
<1>2. CASE ~InCache(s, k)
  <2>1. Drop(s, k) = s
    BY <1>2 DEF Drop
  <2>2. \A j \in DOMAIN s : s[j].key # k
    BY <1>2 DEF InCache
  <2>3. Len(s) <= Len(s)
    BY <1>1
  <2> QED  BY <1>2, <2>1, <2>2, <2>3
<1>3. CASE InCache(s, k)
  <2> DEFINE i == CHOOSE i \in DOMAIN s : s[i].key = k
             r == RemoveAt(s, i)
  <2>1. i \in 1..Len(s) /\ s[i].key = k
    BY <1>1, <1>3 DEF InCache
  <2>2. Drop(s, k) = r
    BY <1>3 DEF Drop
  <2> DEFINE t == SubSeq(s, 1, i - 1)  u == SubSeq(s, i + 1, Len(s))
  <2>3. r = t \o u
    BY DEF RemoveAt
  <2> HIDE DEF i, r
  <2>4. t \in Seq(S) /\ Len(t) = i - 1 /\ \A j \in 1..(i - 1) : t[j] = s[j]
    BY <2>1
  <2>5. u \in Seq(S) /\ Len(u) = Len(s) - i /\ \A j \in 1..(Len(s) - i) : u[j] = s[i + j]
    <3>1. i \in 0..Len(s)
      BY <1>1, <2>1
    <3> QED  BY <3>1, SuffixFacts
  <2> HIDE DEF t, u
  <2>6. r \in Seq(S) /\ Len(r) = Len(t) + Len(u)
        /\ \A j \in 1..(Len(t) + Len(u)) : r[j] = IF j <= Len(t) THEN t[j] ELSE u[j - Len(t)]
    BY <2>3, <2>4, <2>5, ConcatProperties
  <2>7. Len(t) + Len(u) = Len(s) - 1
    BY <1>1, <2>1, <2>4, <2>5
  <2> DEFINE at(j) == IF j < i THEN j ELSE j + 1
  <2>8. ASSUME NEW j \in 1..(Len(s) - 1)
        PROVE  r[j] = s[at(j)] /\ at(j) \in 1..Len(s) /\ at(j) # i
    <3>1. CASE j < i
      BY <1>1, <2>1, <2>4, <2>6, <2>7, <3>1
    <3>2. CASE ~(j < i)
      <4>1. j - Len(t) \in 1..(Len(s) - i) /\ i + (j - Len(t)) = j + 1 /\ ~(j <= Len(t))
        BY <1>1, <2>1, <2>4, <3>2
      <4>2. j + 1 \in 1..Len(s) /\ j + 1 # i
        BY <1>1, <2>1, <3>2
      <4> QED  BY <2>5, <2>6, <2>7, <3>2, <4>1, <4>2
    <3> QED  BY <3>1, <3>2
  <2>9. DOMAIN r = 1..(Len(s) - 1)
    BY <2>6, <2>7, LenProperties
  <2>10. \A j, h \in 1..(Len(s) - 1) : at(j) = at(h) => j = h
    BY <1>1, <2>1
  <2>11. \A j \in 1..(Len(s) - 1) : r[j].key # k
    BY <1>1, <2>1, <2>8 DEF Apart
  <2>12. Apart(r)
    <3> SUFFICES ASSUME NEW j \in 1..(Len(s) - 1), NEW h \in 1..(Len(s) - 1), r[j].key = r[h].key
                 PROVE  j = h
      BY <2>9 DEF Apart
    <3>1. at(j) \in DOMAIN s /\ at(h) \in DOMAIN s /\ s[at(j)].key = s[at(h)].key
      BY <1>1, <2>8
    <3> HIDE DEF at
    <3>2. at(j) = at(h)
      BY <3>1 DEF Apart
    <3> QED  BY <2>10, <3>2
  <2>13. \A j \in 1..(Len(s) - 1) : \E h \in DOMAIN s : r[j] = s[h]
    BY <1>1, <2>8
  <2>14. Len(s) - 1 <= Len(s)
    BY <1>1
  <2> QED  BY <2>2, <2>6, <2>7, <2>9, <2>11, <2>12, <2>13, <2>14
<1> QED  BY <1>2, <1>3

(* Appending the entry of a key that has none.                             *)
LEMMA AppendApart ==
    ASSUME NEW S, NEW s \in Seq(S), Apart(s), NEW e \in S, \A j \in DOMAIN s : s[j].key # e.key
    PROVE  /\ Append(s, e) \in Seq(S) /\ Apart(Append(s, e)) /\ Len(Append(s, e)) = Len(s) + 1
           /\ \A j \in DOMAIN Append(s, e) : \/ Append(s, e)[j] = e
                                             \/ \E h \in DOMAIN s : Append(s, e)[j] = s[h]
<1>1. Len(s) \in Nat /\ DOMAIN s = 1..Len(s)
  BY LenProperties
<1> DEFINE r == Append(s, e)
<1>2. r \in Seq(S) /\ Len(r) = Len(s) + 1 /\ DOMAIN r = 1..(Len(s) + 1)
      /\ \A j \in 1..(Len(s) + 1) : r[j] = IF j <= Len(s) THEN s[j] ELSE e
  BY <1>1, AppendProperties
<1> HIDE DEF r
<1>3. \A j \in 1..(Len(s) + 1) : j \in 1..Len(s) \/ j = Len(s) + 1
  BY <1>1
<1>4. ~(Len(s) + 1 <= Len(s))
  BY <1>1
<1>5. \A j \in 1..(Len(s) + 1) : r[j] = e \/ \E h \in DOMAIN s : r[j] = s[h]
  BY <1>1, <1>2, <1>3, <1>4
<1>6. Apart(r)
  <2> SUFFICES ASSUME NEW j \in 1..(Len(s) + 1), NEW h \in 1..(Len(s) + 1), r[j].key = r[h].key
               PROVE  j = h
    BY <1>2 DEF Apart
  <2>1. CASE j \in 1..Len(s) /\ h \in 1..Len(s)
    BY <1>1, <1>2, <2>1 DEF Apart
  <2>2. CASE j = Len(s) + 1 /\ h \in 1..Len(s)
    BY <1>1, <1>2, <1>4, <2>2
  <2>3. CASE h = Len(s) + 1 /\ j \in 1..Len(s)
    BY <1>1, <1>2, <1>4, <2>3
  <2> QED  BY <1>3, <2>1, <2>2, <2>3
<1> QED  BY <1>2, <1>5, <1>6 DEF r

(* The newest entries of a sequence.                                       *)
LEMMA SuffixApart ==
    ASSUME NEW S, NEW s \in Seq(S), Apart(s), NEW n \in Nat, n <= Len(s)
    PROVE  /\ SubSeq(s, n + 1, Len(s)) \in Seq(S) /\ Apart(SubSeq(s, n + 1, Len(s)))
           /\ Len(SubSeq(s, n + 1, Len(s))) = Len(s) - n
           /\ \A j \in DOMAIN SubSeq(s, n + 1, Len(s)) :
                 \E h \in DOMAIN s : SubSeq(s, n + 1, Len(s))[j] = s[h]
<1>1. Len(s) \in Nat /\ DOMAIN s = 1..Len(s)
  BY LenProperties
<1> DEFINE r == SubSeq(s, n + 1, Len(s))
<1>2. r \in Seq(S) /\ Len(r) = Len(s) - n /\ \A j \in 1..(Len(s) - n) : r[j] = s[n + j]
  <2>1. n \in 0..Len(s)
    BY <1>1
  <2> QED  BY <2>1, SuffixFacts
<1> HIDE DEF r
<1>3. DOMAIN r = 1..(Len(s) - n)
  BY <1>2, LenProperties
<1>4. \A j \in 1..(Len(s) - n) : n + j \in 1..Len(s)
  BY <1>1
<1>5. \A j, h \in 1..(Len(s) - n) : n + j = n + h => j = h
  BY <1>1
<1>6. Apart(r)
  <2> SUFFICES ASSUME NEW j \in 1..(Len(s) - n), NEW h \in 1..(Len(s) - n), r[j].key = r[h].key
               PROVE  j = h
    BY <1>3 DEF Apart
  <2>1. s[n + j].key = s[n + h].key /\ n + j \in DOMAIN s /\ n + h \in DOMAIN s
    BY <1>1, <1>2, <1>4
  <2>2. n + j = n + h
    BY <2>1 DEF Apart
  <2> QED  BY <1>5, <2>2
<1> QED  BY <1>1, <1>2, <1>3, <1>4, <1>6 DEF r

-----------------------------------------------------------------------------
(* What the types say of a load.                                           *)
LEMMA LoadFacts ==
    ASSUME KeyCacheTypeOK
    PROVE  /\ Len(loads) \in Nat /\ DOMAIN loads = 1..Len(loads)
           /\ loads \in Seq(Flights) /\ \A i \in DOMAIN loads : loads[i] \in Flights
           /\ caller \in [KeyCallers -> Calls(Len(loads))]
<1>1. loads \in Seq(Flights) /\ caller \in [KeyCallers -> Calls(Len(loads))]
  BY DEF KeyCacheTypeOK, Flights, Calls
<1>2. Len(loads) \in Nat /\ DOMAIN loads = 1..Len(loads)
  BY <1>1, LenProperties
<1> QED  BY <1>1, <1>2, ElementOfSeq

(* A call that has begun has a load.                                       *)
LEMMA CallHasLoad ==
    ASSUME NEW n, NEW x \in Calls(n), x.at # "idle"
    PROVE  x.load \in 1..n /\ x.at \in {"waiting", "done"} /\ x.since \in Nat
<1>1. NotCalled.at = "idle"
  BY DEF NotCalled
<1> QED  BY <1>1 DEF Calls

(* A fresh entry becomes the newest, and its key is copied.                *)
LEMMA WithCachedKeyKeeps ==
    ASSUME KeyCacheInv, NEW c \in KeyCallers, NEW k \in CacheKeys, WithCachedKey(c, k)
    PROVE  KeyCacheInv'
<1> USE DEF KeyCacheInv
<1>1. PICK i \in DOMAIN kept :
         /\ kept[i].key = k
         /\ kept' = Append(Drop(kept, k), kept[i])
         /\ caller' = [caller EXCEPT ![c] = [at |-> "done", key |-> k, load |-> kept[i].load,
                                             since |-> evictions[k], source |-> "key"]]
  BY DEF WithCachedKey
<1>2. caller[c].at = "idle" /\ UNCHANGED <<loads, inflight, generations, evictions>>
  BY DEF WithCachedKey
<1>3. kept \in Seq(Entries) /\ Apart(kept) /\ kept[i] \in Entries /\ EntryFresh(kept[i])
  <2>1. kept \in Seq(Entries)
    BY DEF KeyCacheTypeOK, Entries
  <2>2. kept[i] \in Entries
    BY <2>1, ElementOfSeq, LenProperties
  <2> QED  BY <2>1, <2>2 DEF EntriesFresh
<1> DEFINE left == Drop(kept, k)  new == kept[i]
           got == [at |-> "done", key |-> k, load |-> new.load, since |-> evictions[k], source |-> "key"]
<1>4. /\ left \in Seq(Entries) /\ Apart(left) /\ Len(left) = Len(kept) - 1
      /\ \A j \in DOMAIN left : left[j].key # k /\ \E h \in DOMAIN kept : left[j] = kept[h]
  BY <1>1, <1>3, DropLeaves DEF InCache
<1>5. caller' = [caller EXCEPT ![c] = got]
  BY <1>1
<1>6. new.key = k /\ new \in Entries /\ EntryFresh(new)
  BY <1>1, <1>3
<1>7. kept' = Append(left, new)
  BY <1>1
<1> HIDE DEF left, new
<1>8. /\ kept' \in Seq(Entries) /\ Apart(kept') /\ Len(kept') = Len(left) + 1
      /\ \A j \in DOMAIN kept' : kept'[j] = new \/ \E h \in DOMAIN left : kept'[j] = left[h]
  BY <1>4, <1>6, <1>7, AppendApart
<1>9. Len(kept') <= CacheCapacity
  <2>1. Len(kept) \in Nat /\ Len(kept) <= CacheCapacity
    BY <1>3, LenProperties DEF KeyCacheTypeOK
  <2> QED  BY <1>4, <1>8, <2>1
<1>10. new.load \in 1..Len(loads) /\ evictions[k] \in Nat
       /\ Len(loads) \in Nat /\ caller \in [KeyCallers -> Calls(Len(loads))]
  BY <1>6, LoadFacts DEF EntryFresh, KeyCacheTypeOK
<1>11. got \in Calls(Len(loads)) /\ got.at = "done" /\ got.load = new.load /\ got.source = "key"
       /\ got.since = evictions[k]
  BY <1>10 DEF Calls
<1> HIDE DEF got
<1>12. KeyCacheTypeOK'
  BY <1>2, <1>5, <1>8, <1>9, <1>10, <1>11 DEF KeyCacheTypeOK, Entries, Calls
<1>13. \A j \in DOMAIN kept' : EntryFresh(kept'[j])
  BY <1>4, <1>6, <1>8 DEF EntriesFresh
<1>14. EntriesFresh'
  BY <1>2, <1>8, <1>13 DEF EntriesFresh, EntryFresh, Apart
<1>15. FlightsFresh' /\ WipedAtEnd'
  BY <1>2 DEF FlightsFresh, WipedAtEnd, Finished
<1>16. \A d \in KeyCallers : caller'[d] = IF d = c THEN got ELSE caller[d]
  BY <1>5, <1>10
<1>17. \A j \in DOMAIN loads : WaitersOf(caller', j) = WaitersOf(caller, j)
  BY <1>2, <1>11, <1>16 DEF WaitersOf
<1>18. WaitersCounted'
  BY <1>2, <1>17 DEF WaitersCounted
<1>19. loads[new.load].born = evictions[k]
  BY <1>6 DEF EntryFresh
<1>20. CallsFresh'
  <2>1. evictions[k] >= evictions[k]
    BY <1>10
  <2> QED  BY <1>2, <1>11, <1>16, <1>19, <2>1 DEF CallsFresh
<1> QED  BY <1>12, <1>14, <1>15, <1>18, <1>20

(* A call that joins a load joins the one of its key, and one that starts  *)
(* a load starts it after whatever was evicted.                            *)
LEMMA WithLoadedKeyKeeps ==
    ASSUME KeyCacheInv, NEW c \in KeyCallers, NEW k \in CacheKeys, WithLoadedKey(c, k)
    PROVE  KeyCacheInv'
<1> USE DEF KeyCacheInv
<1> DEFINE flying == ~InCache(kept, k) /\ inflight[k] # 0
           gen == IF InCache(kept, k) /\ inflight[k] # 0 THEN generations[k] + 1
                  ELSE IF InCache(kept, k) THEN 0 ELSE generations[k]
           load == IF flying THEN inflight[k] ELSE Len(loads) + 1
           got == [at |-> "waiting", key |-> k, load |-> load, since |-> evictions[k], source |-> "none"]
           fresh == [key |-> k, gen |-> gen, waiters |-> 1, at |-> "loading", source |-> "none",
                     born |-> evictions[k]]
<1>1. /\ caller[c].at = "idle"
      /\ flying \/ Len(loads) < MaxLoads
      /\ loads' = (IF flying THEN [loads EXCEPT ![load].waiters = @ + 1] ELSE Append(loads, fresh))
      /\ inflight' = [inflight EXCEPT ![k] = load]
      /\ generations' = [generations EXCEPT ![k] = gen]
      /\ caller' = [caller EXCEPT ![c] = got]
      /\ kept' = Drop(kept, k) /\ evictions' = evictions
  BY DEF WithLoadedKey
<1>2. /\ Len(loads) \in Nat /\ DOMAIN loads = 1..Len(loads) /\ loads \in Seq(Flights)
      /\ \A i \in DOMAIN loads : loads[i] \in Flights
      /\ caller \in [KeyCallers -> Calls(Len(loads))]
  BY LoadFacts
<1>3. gen \in Nat /\ evictions[k] \in Nat
  BY DEF KeyCacheTypeOK
<1>4. flying => /\ inflight[k] \in DOMAIN loads /\ loads[inflight[k]].born = evictions[k]
                /\ loads[inflight[k]].key = k /\ ~Finished(loads[inflight[k]])
  BY DEF FlightsFresh
<1> HIDE DEF gen
<1>5. fresh \in Flights /\ fresh.key = k /\ fresh.waiters = 1 /\ fresh.born = evictions[k]
      /\ fresh.at = "loading" /\ fresh.source = "none"
  BY <1>3 DEF Flights
<1> HIDE DEF fresh
<1> DEFINE joined == [loads[load] EXCEPT !.waiters = @ + 1]
<1>6. flying => /\ load \in DOMAIN loads /\ joined \in Flights /\ joined.key = k
                /\ joined.born = evictions[k] /\ joined.waiters = loads[load].waiters + 1
                /\ joined.at = loads[load].at /\ joined.source = loads[load].source
                /\ loads' = [loads EXCEPT ![load] = joined]
  <2> SUFFICES ASSUME flying
               PROVE  /\ load \in DOMAIN loads /\ joined \in Flights /\ joined.key = k
                      /\ joined.born = evictions[k] /\ joined.waiters = loads[load].waiters + 1
                      /\ joined.at = loads[load].at /\ joined.source = loads[load].source
                      /\ loads' = [loads EXCEPT ![load] = joined]
    OBVIOUS
  <2>1. load = inflight[k] /\ load \in DOMAIN loads /\ loads[load] \in Flights
        /\ loads[load].key = k /\ loads[load].born = evictions[k]
    BY <1>2, <1>4
  <2>2. loads' = [loads EXCEPT ![load] = joined]
    BY <1>1
  <2> HIDE DEF load
  <2> QED  BY <2>1, <2>2 DEF Flights
<1> HIDE DEF joined
<1>7. ~flying => load = Len(loads) + 1 /\ loads' = Append(loads, fresh) /\ Len(loads) < MaxLoads
  BY <1>1
<1>8. /\ flying => ~Finished(loads[load])
      /\ load \in DOMAIN loads => loads[load].born = evictions[k] /\ loads[load].key = k
  <2>1. Len(loads) + 1 \notin 1..Len(loads)
    BY <1>2
  <2> QED  BY <1>2, <1>4, <2>1
<1> HIDE DEF flying, load, got
<1>9. /\ loads' \in Seq(Flights) /\ load \in 1..Len(loads')
      /\ Len(loads') <= MaxLoads /\ Len(loads') \in Nat /\ Len(loads) <= Len(loads')
      /\ DOMAIN loads' = DOMAIN loads \cup {load} /\ DOMAIN loads' = 1..Len(loads')
      /\ \A i \in DOMAIN loads \ {load} : loads'[i] = loads[i]
      /\ loads'[load].key = k /\ loads'[load].born = evictions[k]
      /\ ~Finished(loads'[load]) /\ loads'[load].source # "zeroed"
      /\ loads'[load].waiters = IF load \in DOMAIN loads THEN loads[load].waiters + 1 ELSE 1
  <2>1. CASE flying
    <3>1. Len(loads') = Len(loads) /\ DOMAIN loads' = 1..Len(loads) /\ loads' \in Seq(Flights)
          /\ \A i \in DOMAIN loads : loads'[i] = IF i = load THEN joined ELSE loads[i]
      <4>1. loads \in Seq(Flights) /\ Len(loads) \in Nat /\ DOMAIN loads = 1..Len(loads)
        BY ONLY <1>2
      <4>2. /\ load \in 1..Len(loads) /\ joined \in Flights
            /\ loads' = [loads EXCEPT ![load] = joined]
        BY ONLY <1>6, <2>1, <4>1
      <4> QED  BY ONLY <4>1, <4>2, ExceptSeq
    <3>2. loads[load].source # "zeroed"
      BY <1>6, <1>8, <2>1 DEF WipedAtEnd
    <3>3. ~Finished(joined)
      <4>1. loads[load].waiters \in Nat
        BY <1>2, <1>6, <2>1 DEF Flights
      <4>2. joined.waiters # 0
        BY <1>6, <2>1, <4>1
      <4> QED  BY <4>2 DEF Finished
    <3>4. Len(loads) <= MaxLoads
      BY DEF KeyCacheTypeOK
    <3> QED  BY <1>2, <1>6, <2>1, <3>1, <3>2, <3>3, <3>4
  <2>2. CASE ~flying
    <3>1. Len(loads') = Len(loads) + 1 /\ DOMAIN loads' = 1..(Len(loads) + 1) /\ loads' \in Seq(Flights)
          /\ \A i \in 1..(Len(loads) + 1) : loads'[i] = IF i <= Len(loads) THEN loads[i] ELSE fresh
      <4>1. loads \in Seq(Flights) /\ Len(loads) \in Nat /\ fresh \in Flights /\ loads' = Append(loads, fresh)
        BY ONLY <1>2, <1>5, <1>7, <2>2
      <4>2. /\ loads' \in Seq(Flights) /\ Len(loads') = Len(loads) + 1
            /\ \A i \in 1..Len(loads) : loads'[i] = loads[i]
            /\ loads'[Len(loads) + 1] = fresh
        BY ONLY <4>1, AppendProperties
      <4>3. DOMAIN loads' = 1..(Len(loads) + 1)
        BY ONLY <4>2
      <4>4. ASSUME NEW i \in 1..(Len(loads) + 1)
            PROVE  loads'[i] = IF i <= Len(loads) THEN loads[i] ELSE fresh
        BY ONLY <4>1, <4>2, i \in 1..(Len(loads) + 1)
      <4> QED  BY ONLY <4>2, <4>3, <4>4
    <3>2. load = Len(loads) + 1 /\ load \notin DOMAIN loads /\ Len(loads) + 1 <= MaxLoads
          /\ 1..(Len(loads) + 1) = DOMAIN loads \cup {load} /\ Len(loads) + 1 \in Nat
          /\ ~(load <= Len(loads)) /\ \A i \in DOMAIN loads : i <= Len(loads)
      BY <1>2, <1>7, <2>2, KeyCacheAssumption
    <3>3. loads'[load] = fresh
      BY <3>1, <3>2
    <3>4. ~Finished(fresh)
      BY <1>5 DEF Finished
    <3> QED  BY <1>2, <1>5, <3>1, <3>2, <3>3, <3>4
  <2> QED  BY <2>1, <2>2
<1>10. /\ kept' \in Seq(Entries) /\ Apart(kept') /\ Len(kept') <= Len(kept)
       /\ \A j \in DOMAIN kept' : kept'[j].key # k /\ \E h \in DOMAIN kept : kept'[j] = kept[h]
  <2>1. kept \in Seq(Entries)
    BY DEF KeyCacheTypeOK, Entries
  <2> QED  BY <1>1, <2>1, DropLeaves DEF EntriesFresh
<1>11. got \in Calls(Len(loads')) /\ got.at = "waiting" /\ got.load = load
       /\ got.since = evictions[k] /\ got.source = "none"
  BY <1>3, <1>9 DEF got, Calls
<1>12. \A d \in KeyCallers : caller'[d] = IF d = c THEN got ELSE caller[d]
  BY <1>1, <1>2
<1>13. KeyCacheTypeOK'
  <2>1. caller' \in [KeyCallers -> Calls(Len(loads'))]
    <3>1. Calls(Len(loads)) \subseteq Calls(Len(loads'))
      BY <1>2, <1>9 DEF Calls
    <3> QED  BY <1>1, <1>2, <1>11, <3>1
  <2>2. inflight' \in [CacheKeys -> 0..MaxLoads]
    <3>1. load \in 0..MaxLoads
      BY <1>9, KeyCacheAssumption
    <3> QED  BY <1>1, <3>1 DEF KeyCacheTypeOK
  <2>3. Len(kept') <= CacheCapacity
    <3>1. Len(kept) \in Nat /\ Len(kept') \in Nat /\ Len(kept) <= CacheCapacity
      BY <1>10, LenProperties DEF KeyCacheTypeOK
    <3> QED  BY <1>10, <3>1, KeyCacheAssumption
  <2>4. generations' \in [CacheKeys -> Nat] /\ evictions' \in [CacheKeys -> Nat]
    BY <1>1, <1>3 DEF KeyCacheTypeOK
  <2> QED  BY <1>9, <1>10, <2>1, <2>2, <2>3, <2>4 DEF KeyCacheTypeOK, Entries, Flights, Calls
<1>14. \A i \in DOMAIN loads : i \in DOMAIN loads' /\ loads'[i].born = loads[i].born
                               /\ loads'[i].key = loads[i].key
  BY <1>8, <1>9
<1>15. EntriesFresh'
  <2>1. \A j \in DOMAIN kept' : EntryFresh(kept'[j])
    BY <1>10 DEF EntriesFresh
  <2> QED  BY <1>1, <1>10, <1>14, <2>1 DEF EntriesFresh, EntryFresh, Apart
<1>16. FlightsFresh'
  <2> SUFFICES ASSUME NEW x \in CacheKeys, inflight'[x] # 0
               PROVE  /\ inflight'[x] \in DOMAIN loads'
                      /\ loads'[inflight'[x]].key = x /\ loads'[inflight'[x]].born = evictions'[x]
                      /\ ~Finished(loads'[inflight'[x]])
    BY DEF FlightsFresh, Finished
  <2>1. inflight'[x] = IF x = k THEN load ELSE inflight[x]
    BY <1>1 DEF KeyCacheTypeOK
  <2>2. CASE x = k
    BY <1>1, <1>9, <2>1, <2>2
  <2>3. CASE x # k
    <3>1. inflight[x] \in DOMAIN loads /\ loads[inflight[x]].key = x
          /\ loads[inflight[x]].born = evictions[x] /\ ~Finished(loads[inflight[x]])
      BY <2>1, <2>3 DEF FlightsFresh
    <3>2. inflight[x] # load
      BY <1>9, <1>14, <2>3, <3>1
    <3> QED  BY <1>1, <1>9, <2>1, <2>3, <3>1, <3>2
  <2> QED  BY <2>2, <2>3
<1>17. WaitersCounted'
  <2>1. WaitersOf(caller', load) = WaitersOf(caller, load) \cup {c} /\ c \notin WaitersOf(caller, load)
    BY <1>1, <1>11, <1>12 DEF WaitersOf
  <2>2. \A i : i # load => WaitersOf(caller', i) = WaitersOf(caller, i)
    BY <1>1, <1>11, <1>12 DEF WaitersOf
  <2>3. load \notin DOMAIN loads => WaitersOf(caller, load) = {}
    BY <1>2, CallHasLoad DEF WaitersOf
  <2>4. IsFiniteSet(WaitersOf(caller, load)) /\ Cardinality(WaitersOf(caller, load)) \in Nat
        /\ Cardinality(WaitersOf(caller, load)) = IF load \in DOMAIN loads THEN loads[load].waiters ELSE 0
    BY <2>3, FS_EmptySet, FS_CardinalityType DEF WaitersCounted
  <2>5. IsFiniteSet(WaitersOf(caller', load)) /\ Cardinality(WaitersOf(caller', load)) = Cardinality(WaitersOf(caller, load)) + 1
    BY <2>1, <2>4, FS_AddElement
  <2>6. loads'[load].waiters = Cardinality(WaitersOf(caller, load)) + 1
    BY <1>9, <2>4
  <2> QED  BY <1>9, <2>2, <2>5, <2>6 DEF WaitersCounted
<1>18. WipedAtEnd'
  BY <1>9 DEF WipedAtEnd, Finished
<1>19. CallsFresh'
  <2>1. loads'[load].born >= got.since
    BY <1>3, <1>9, <1>11
  <2>2. ASSUME NEW d \in KeyCallers, d # c, caller[d].at # "idle"
        PROVE  loads'[caller[d].load].born >= caller[d].since /\ caller[d].source # "zeroed"
    <3>1. caller[d].load \in DOMAIN loads
      BY <1>2, <2>2, CallHasLoad
    <3> QED  BY <1>14, <2>2, <3>1 DEF CallsFresh
  <2> QED  BY <1>11, <1>12, <2>1, <2>2 DEF CallsFresh
<1> QED  BY <1>13, <1>15, <1>16, <1>17, <1>18, <1>19

-----------------------------------------------------------------------------
(* A load that goes on is of the same key and as old as before.            *)
LEMMA FlightChanges ==
    ASSUME KeyCacheInv, NEW i \in DOMAIN loads, NEW n \in Flights,
           n.key = loads[i].key, n.born = loads[i].born, loads' = [loads EXCEPT ![i] = n]
    PROVE  /\ loads' \in Seq(Flights) /\ Len(loads') = Len(loads) /\ DOMAIN loads' = DOMAIN loads
           /\ \A j \in DOMAIN loads : /\ loads'[j] = IF j = i THEN n ELSE loads[j]
                                      /\ loads'[j].key = loads[j].key
                                      /\ loads'[j].born = loads[j].born
<1>1. loads \in Seq(Flights) /\ i \in 1..Len(loads) /\ DOMAIN loads = 1..Len(loads)
  BY LoadFacts DEF KeyCacheInv
<1>2. loads' \in Seq(Flights) /\ Len(loads') = Len(loads)
      /\ \A j \in 1..Len(loads) : loads'[j] = IF j = i THEN n ELSE loads[j]
  BY <1>1, ExceptSeq
<1>3. DOMAIN loads' = 1..Len(loads')
  BY <1>2, LenProperties
<1> QED  BY <1>1, <1>2, <1>3

(* Entries that are as fresh as before.                                    *)
LEMMA EntriesStayFresh ==
    ASSUME KeyCacheInv, DOMAIN loads \subseteq DOMAIN loads',
           \A j \in DOMAIN loads : loads'[j].born = loads[j].born,
           Apart(kept'),
           \A j \in DOMAIN kept' : \E h \in DOMAIN kept :
              kept'[j].key = kept[h].key /\ kept'[j].load = kept[h].load,
           \A j \in DOMAIN kept' : evictions'[kept'[j].key] = evictions[kept'[j].key]
    PROVE  EntriesFresh'
<1>1. \A h \in DOMAIN kept : EntryFresh(kept[h])
  BY DEF KeyCacheInv, EntriesFresh
<1>2. \A j \in DOMAIN kept' : /\ kept'[j].load \in DOMAIN loads'
                              /\ loads'[kept'[j].load].born = evictions'[kept'[j].key]
  BY <1>1 DEF EntryFresh
<1> QED  BY <1>2 DEF EntriesFresh, EntryFresh, Apart

(* The key that a load has got is kept only if nothing has evicted it      *)
(* since the load began; the oldest entries give way.                      *)
LEMMA LoadAnsweredKeeps ==
    ASSUME KeyCacheInv, NEW i \in DOMAIN loads, LoadAnswered(i)
    PROVE  KeyCacheInv'
<1> USE DEF KeyCacheInv
<1> DEFINE k == loads[i].key
           new == [key |-> k, load |-> i, expired |-> FALSE]
           left == Drop(kept, k)
           grown == Append(left, new)
           over == IF Len(grown) > CacheCapacity THEN Len(grown) - CacheCapacity ELSE 0
           n == [loads[i] EXCEPT !.at = "answered", !.source = "key"]
<1>1. /\ Len(loads) \in Nat /\ DOMAIN loads = 1..Len(loads) /\ loads[i] \in Flights
      /\ caller \in [KeyCallers -> Calls(Len(loads))] /\ kept \in Seq(Entries)
  BY LoadFacts DEF KeyCacheTypeOK, Entries
<1>2. loads' = [loads EXCEPT ![i] = n] /\ UNCHANGED <<inflight, caller, evictions>>
      /\ loads[i].at = "loading"
  BY DEF LoadAnswered
<1>3. /\ n \in Flights /\ n.key = loads[i].key /\ n.born = loads[i].born /\ n.source = "key"
      /\ n.at = "answered" /\ n.waiters = loads[i].waiters
  BY <1>1 DEF Flights
<1>4. \/ kept' = kept /\ generations' = generations
      \/ /\ inflight[k] = i /\ kept' = SubSeq(grown, over + 1, Len(grown))
  BY DEF LoadAnswered, Current
<1>11. generations' \in [CacheKeys -> Nat]
  <2>1. generations \in [CacheKeys -> Nat]
    BY DEF KeyCacheTypeOK
  <2>2. \/ generations' = generations
        \/ \E S : generations' = [x \in CacheKeys |-> IF x \in S /\ inflight[x] = 0 THEN 0
                                                      ELSE generations[x]]
    BY Zenon DEF LoadAnswered
  <2> QED  BY <2>1, <2>2
<1>5. k \in CacheKeys /\ new \in Entries /\ new.key = k /\ new.load = i
  <2>1. i \in 1..MaxLoads
    BY <1>1, KeyCacheAssumption DEF KeyCacheTypeOK
  <2> QED  BY <1>1, <2>1 DEF Flights, Entries
<1> HIDE DEF n, new
<1>6. /\ loads' \in Seq(Flights) /\ Len(loads') = Len(loads) /\ DOMAIN loads' = DOMAIN loads
      /\ \A j \in DOMAIN loads : /\ loads'[j] = IF j = i THEN n ELSE loads[j]
                                 /\ loads'[j].key = loads[j].key /\ loads'[j].born = loads[j].born
  BY <1>2, <1>3, FlightChanges
<1>7. /\ left \in Seq(Entries) /\ Apart(left)
      /\ \A j \in DOMAIN left : left[j].key # k /\ \E h \in DOMAIN kept : left[j] = kept[h]
  BY <1>1, DropLeaves DEF EntriesFresh
<1> HIDE DEF left
<1>8. /\ grown \in Seq(Entries) /\ Apart(grown)
      /\ \A j \in DOMAIN grown : grown[j] = new \/ \E h \in DOMAIN left : grown[j] = left[h]
  BY <1>5, <1>7, AppendApart
<1>9. over \in Nat /\ over <= Len(grown) /\ Len(grown) - over <= CacheCapacity
  <2>1. Len(grown) \in Nat
    BY <1>8, LenProperties
  <2> HIDE DEF grown
  <2> QED  BY <2>1, KeyCacheAssumption
<1> HIDE DEF grown, over
<1>10. /\ kept' \in Seq(Entries) /\ Len(kept') <= CacheCapacity /\ Apart(kept')
       /\ \A j \in DOMAIN kept' : \/ \E h \in DOMAIN kept : kept'[j] = kept[h]
                                  \/ kept'[j] = new /\ inflight[k] = i
  <2>1. CASE kept' = kept
    BY <1>1, <2>1 DEF EntriesFresh, KeyCacheTypeOK
  <2>2. CASE inflight[k] = i /\ kept' = SubSeq(grown, over + 1, Len(grown))
    <3>1. /\ kept' \in Seq(Entries) /\ Apart(kept') /\ Len(kept') = Len(grown) - over
          /\ \A j \in DOMAIN kept' : \E h \in DOMAIN grown : kept'[j] = grown[h]
      <4> DEFINE r == SubSeq(grown, over + 1, Len(grown))
      <4>1. /\ r \in Seq(Entries) /\ Apart(r) /\ Len(r) = Len(grown) - over
            /\ \A j \in DOMAIN r : \E h \in DOMAIN grown : r[j] = grown[h]
        BY <1>8, <1>9, SuffixApart
      <4>2. kept' = r
        BY <2>2
      <4> HIDE DEF r
      <4> QED  BY <4>1, <4>2
    <3> QED  BY <1>7, <1>8, <1>9, <2>2, <3>1
  <2> QED  BY <1>4, <2>1, <2>2
<1>12. KeyCacheTypeOK'
  BY <1>2, <1>6, <1>10, <1>11 DEF KeyCacheTypeOK, Entries, Flights
<1>13. EntriesFresh'
  <2>1. inflight[k] = i => loads[i].born = evictions[k]
    BY <1>1, <1>5 DEF FlightsFresh
  <2>2. \A h \in DOMAIN kept : EntryFresh(kept[h])
    BY DEF EntriesFresh
  <2>3. \A j \in DOMAIN kept' : EntryFresh(kept'[j])
    BY <1>5, <1>10, <2>1, <2>2 DEF EntryFresh
  <2>4. \A j \in DOMAIN kept' : /\ kept'[j].load \in DOMAIN loads'
                                /\ loads'[kept'[j].load].born = evictions'[kept'[j].key]
    BY <1>2, <1>6, <2>3 DEF EntryFresh
  <2> QED  BY <1>10, <2>4 DEF EntriesFresh, EntryFresh, Apart
<1>14. FlightsFresh'
  BY <1>2, <1>3, <1>6 DEF FlightsFresh, Finished
<1>15. WaitersCounted'
  BY <1>2, <1>3, <1>6 DEF WaitersCounted, WaitersOf
<1>16. WipedAtEnd'
  BY <1>3, <1>6 DEF WipedAtEnd, Finished
<1>17. CallsFresh'
  <2> SUFFICES ASSUME NEW c \in KeyCallers, caller[c].at # "idle"
               PROVE  loads'[caller[c].load].born >= caller[c].since /\ caller[c].source # "zeroed"
    BY <1>2 DEF CallsFresh
  <2>1. caller[c].load \in DOMAIN loads
    BY <1>1, CallHasLoad
  <2> QED  BY <1>6, <2>1 DEF CallsFresh
<1> QED  BY <1>12, <1>13, <1>14, <1>15, <1>16, <1>17

(* A load that fails has no key.                                           *)
LEMMA LoadFailsKeeps ==
    ASSUME KeyCacheInv, NEW i \in DOMAIN loads, LoadFails(i)
    PROVE  KeyCacheInv'
<1> USE DEF KeyCacheInv
<1> DEFINE n == [loads[i] EXCEPT !.at = "answered"]
<1>1. /\ Len(loads) \in Nat /\ DOMAIN loads = 1..Len(loads) /\ loads[i] \in Flights
      /\ caller \in [KeyCallers -> Calls(Len(loads))]
  BY LoadFacts
<1>2. loads' = [loads EXCEPT ![i] = n] /\ UNCHANGED <<kept, inflight, generations, caller, evictions>>
      /\ loads[i].at = "loading"
  BY DEF LoadFails
<1>3. /\ n \in Flights /\ n.key = loads[i].key /\ n.born = loads[i].born
      /\ n.source = loads[i].source /\ n.at = "answered" /\ n.waiters = loads[i].waiters
  BY <1>1 DEF Flights
<1> HIDE DEF n
<1>4. /\ loads' \in Seq(Flights) /\ Len(loads') = Len(loads) /\ DOMAIN loads' = DOMAIN loads
      /\ \A j \in DOMAIN loads : /\ loads'[j] = IF j = i THEN n ELSE loads[j]
                                 /\ loads'[j].key = loads[j].key /\ loads'[j].born = loads[j].born
  BY <1>2, <1>3, FlightChanges
<1>5. KeyCacheTypeOK'
  BY <1>2, <1>4 DEF KeyCacheTypeOK, Flights
<1>6. EntriesFresh'
  BY <1>2, <1>4, EntriesStayFresh DEF EntriesFresh
<1>7. FlightsFresh'
  BY <1>2, <1>3, <1>4 DEF FlightsFresh, Finished
<1>8. WaitersCounted'
  BY <1>2, <1>3, <1>4 DEF WaitersCounted, WaitersOf
<1>9. WipedAtEnd'
  BY <1>2, <1>3, <1>4 DEF WipedAtEnd, Finished
<1>10. CallsFresh'
  <2> SUFFICES ASSUME NEW c \in KeyCallers, caller[c].at # "idle"
               PROVE  loads'[caller[c].load].born >= caller[c].since /\ caller[c].source # "zeroed"
    BY <1>2 DEF CallsFresh
  <2>1. caller[c].load \in DOMAIN loads
    BY <1>1, CallHasLoad
  <2> QED  BY <1>4, <2>1 DEF CallsFresh
<1> QED  BY <1>5, <1>6, <1>7, <1>8, <1>9, <1>10

(* What cleanupLoad leaves: a finished load is wiped and is its key's load *)
(* no more.                                                                *)
LEMMA CleanupLeaves ==
    ASSUME KeyCacheInv, NEW i \in DOMAIN loads, NEW l \in Flights,
           l.key = loads[i].key, l.born = loads[i].born, l.source # "zeroed",
           CleanupLoad(i, l), UNCHANGED <<kept, evictions>>
    PROVE  /\ loads' \in Seq(Flights) /\ Len(loads') = Len(loads) /\ DOMAIN loads' = DOMAIN loads
           /\ \A j \in DOMAIN loads : /\ loads'[j].key = loads[j].key /\ loads'[j].born = loads[j].born
                                      /\ loads'[j].waiters = IF j = i THEN l.waiters ELSE loads[j].waiters
           /\ inflight' \in [CacheKeys -> 0..MaxLoads] /\ generations' \in [CacheKeys -> Nat]
           /\ FlightsFresh' /\ WipedAtEnd' /\ EntriesFresh'
<1> USE DEF KeyCacheInv
<1> DEFINE n == Wiped(l)
           gone == IF Finished(l) /\ inflight[l.key] = i THEN 0 ELSE inflight[l.key]
<1>1. loads' = [loads EXCEPT ![i] = n] /\ inflight' = [inflight EXCEPT ![l.key] = gone]
      /\ \/ generations' = [generations EXCEPT ![l.key] = 0]
         \/ generations' = generations
  BY DEF CleanupLoad
<1>2. /\ n \in Flights /\ n.key = l.key /\ n.born = l.born /\ n.waiters = l.waiters /\ n.at = l.at
      /\ Finished(l) => n.source # "key"
      /\ n.source = "zeroed" => Finished(l)
  BY DEF Wiped, Flights
<1> HIDE DEF n
<1>3. Finished(n) <=> Finished(l)
  BY <1>2 DEF Finished
<1>4. /\ loads' \in Seq(Flights) /\ Len(loads') = Len(loads) /\ DOMAIN loads' = DOMAIN loads
      /\ \A j \in DOMAIN loads : /\ loads'[j] = IF j = i THEN n ELSE loads[j]
                                 /\ loads'[j].key = loads[j].key /\ loads'[j].born = loads[j].born
  BY <1>1, <1>2, FlightChanges
<1>5. l.key \in CacheKeys
  BY DEF Flights
<1>6. gone \in 0..MaxLoads
  <2>1. inflight[l.key] \in 0..MaxLoads
    BY <1>5 DEF KeyCacheTypeOK
  <2>2. 0 \in 0..MaxLoads
    BY KeyCacheAssumption
  <2> QED  BY <2>1, <2>2
<1> DEFINE g == gone
<1>7. (g # 0 => g = inflight[l.key]) /\ (g = i => ~Finished(l) \/ i = 0)
  OBVIOUS
<1>8. inflight' = [inflight EXCEPT ![l.key] = g] /\ g \in 0..MaxLoads
  BY <1>1, <1>6
<1>9. i # 0
  BY LoadFacts
<1> HIDE DEF g, gone
<1>10. inflight' \in [CacheKeys -> 0..MaxLoads] /\ generations' \in [CacheKeys -> Nat]
  <2>1. inflight \in [CacheKeys -> 0..MaxLoads] /\ generations \in [CacheKeys -> Nat]
    BY DEF KeyCacheTypeOK
  <2>2. inflight' \in [CacheKeys -> 0..MaxLoads]
    BY <1>8, <2>1
  <2>3. generations' \in [CacheKeys -> Nat]
    BY <1>1, <2>1
  <2> QED  BY <2>2, <2>3
<1>11. FlightsFresh'
  <2> SUFFICES ASSUME NEW x \in CacheKeys, inflight'[x] # 0
               PROVE  /\ inflight'[x] \in DOMAIN loads'
                      /\ loads'[inflight'[x]].key = x /\ loads'[inflight'[x]].born = evictions'[x]
                      /\ ~Finished(loads'[inflight'[x]])
    BY DEF FlightsFresh, Finished
  <2>1. inflight'[x] = IF x = l.key THEN g ELSE inflight[x]
    BY <1>8 DEF KeyCacheTypeOK
  <2>2. inflight'[x] = inflight[x]
    BY <1>7, <2>1
  <2>3. inflight[x] \in DOMAIN loads /\ loads[inflight[x]].key = x
        /\ loads[inflight[x]].born = evictions[x] /\ ~Finished(loads[inflight[x]])
    BY <2>2 DEF FlightsFresh
  <2>4. inflight[x] = i => ~Finished(l)
    BY <1>7, <1>9, <2>1, <2>2, <2>3
  <2> QED  BY <1>3, <1>4, <2>2, <2>3, <2>4
<1>12. WipedAtEnd'
  BY <1>2, <1>3, <1>4 DEF WipedAtEnd, Finished
<1>13. EntriesFresh'
  BY <1>4, EntriesStayFresh DEF EntriesFresh
<1> QED  BY <1>2, <1>4, <1>10, <1>11, <1>12, <1>13

(* A load settles with its key wiped, or with those who wait for it.       *)
LEMMA LoadSettlesKeeps ==
    ASSUME KeyCacheInv, NEW i \in DOMAIN loads, LoadSettles(i)
    PROVE  KeyCacheInv'
<1> USE DEF KeyCacheInv
<1> DEFINE l == [loads[i] EXCEPT !.at = "settled"]
<1>1. /\ DOMAIN loads = 1..Len(loads) /\ loads[i] \in Flights
      /\ caller \in [KeyCallers -> Calls(Len(loads))]
  BY LoadFacts
<1>2. CleanupLoad(i, l) /\ UNCHANGED <<kept, caller, evictions>> /\ loads[i].at = "answered"
  BY DEF LoadSettles
<1>3. /\ l \in Flights /\ l.key = loads[i].key /\ l.born = loads[i].born
      /\ l.waiters = loads[i].waiters /\ l.source = loads[i].source
  BY <1>1 DEF Flights
<1>4. l.source # "zeroed"
  BY <1>2, <1>3 DEF WipedAtEnd, Finished
<1> HIDE DEF l
<1>5. /\ loads' \in Seq(Flights) /\ Len(loads') = Len(loads) /\ DOMAIN loads' = DOMAIN loads
      /\ \A j \in DOMAIN loads : /\ loads'[j].key = loads[j].key /\ loads'[j].born = loads[j].born
                                 /\ loads'[j].waiters = IF j = i THEN l.waiters ELSE loads[j].waiters
      /\ inflight' \in [CacheKeys -> 0..MaxLoads] /\ generations' \in [CacheKeys -> Nat]
      /\ FlightsFresh' /\ WipedAtEnd' /\ EntriesFresh'
  BY <1>2, <1>3, <1>4, CleanupLeaves
<1>6. KeyCacheTypeOK'
  BY <1>2, <1>5 DEF KeyCacheTypeOK, Flights
<1>7. WaitersCounted'
  <2>1. caller' = caller /\ DOMAIN loads' = DOMAIN loads
    BY ONLY <1>2, <1>5
  <2>2. ASSUME NEW j \in DOMAIN loads
        PROVE  /\ IsFiniteSet(WaitersOf(caller', j))
               /\ loads'[j].waiters = Cardinality(WaitersOf(caller', j))
    <3>1. IsFiniteSet(WaitersOf(caller, j)) /\ loads[j].waiters = Cardinality(WaitersOf(caller, j))
      BY ONLY KeyCacheInv, j \in DOMAIN loads DEF KeyCacheInv, WaitersCounted
    <3>2. loads'[j].waiters = loads[j].waiters
      BY ONLY <1>3, <1>5, j \in DOMAIN loads
    <3> QED  BY ONLY <2>1, <3>1, <3>2
  <2>3. \A j \in DOMAIN loads' : /\ IsFiniteSet(WaitersOf(caller', j))
                                 /\ loads'[j].waiters = Cardinality(WaitersOf(caller', j))
    BY ONLY <2>1, <2>2
  <2> QED  BY ONLY <2>3 DEF WaitersCounted
<1>8. CallsFresh'
  <2> SUFFICES ASSUME NEW c \in KeyCallers, caller[c].at # "idle"
               PROVE  loads'[caller[c].load].born >= caller[c].since /\ caller[c].source # "zeroed"
    BY <1>2 DEF CallsFresh
  <2>1. caller[c].load \in DOMAIN loads
    BY <1>1, CallHasLoad
  <2> QED  BY <1>5, <2>1 DEF CallsFresh
<1> QED  BY <1>5, <1>6, <1>7, <1>8

(* A call goes on with a key that has not been wiped, as the load counts   *)
(* it among those who wait.                                                *)
LEMMA ResumeCallerKeeps ==
    ASSUME KeyCacheInv, NEW c \in KeyCallers, ResumeCaller(c)
    PROVE  KeyCacheInv'
<1> USE DEF KeyCacheInv
<1> DEFINE i == caller[c].load
           l == [loads[i] EXCEPT !.waiters = @ - 1]
           got == [caller[c] EXCEPT !.at = "done", !.source = loads[i].source]
<1>1. /\ Len(loads) \in Nat /\ DOMAIN loads = 1..Len(loads)
      /\ caller \in [KeyCallers -> Calls(Len(loads))]
  BY LoadFacts
<1>2. /\ caller[c].at = "waiting" /\ loads[i].at = "settled" /\ CleanupLoad(i, l)
      /\ UNCHANGED <<kept, evictions>>
  BY DEF ResumeCaller
<1>3. caller' = [caller EXCEPT ![c] = got]
  BY <1>1 DEF ResumeCaller
<1>4. i \in DOMAIN loads /\ loads[i] \in Flights
  BY <1>1, <1>2, CallHasLoad, LoadFacts
<1>5. caller[c] \in [at : {"waiting", "done"}, key : CacheKeys, load : 1..Len(loads), since : Nat,
                     source : {"none", "key", "zeroed"}]
  <2>1. NotCalled.at = "idle"
    BY DEF NotCalled
  <2> QED  BY <1>1, <1>2, <2>1 DEF Calls
<1> DEFINE W == WaitersOf(caller, i)
<1>6. c \in W /\ IsFiniteSet(W) /\ loads[i].waiters = Cardinality(W)
  BY <1>2, <1>4 DEF WaitersOf, WaitersCounted
<1>7. Cardinality(W) \in Nat /\ Cardinality(W) # 0
  BY <1>6, FS_CardinalityType, FS_EmptySet
<1>8. loads[i].source # "zeroed"
  BY <1>4, <1>6, <1>7 DEF WipedAtEnd, Finished
<1>9. /\ got \in Calls(Len(loads)) /\ got.at = "done" /\ got.load = i
      /\ got.since = caller[c].since /\ got.source = loads[i].source
  BY <1>4, <1>5 DEF Calls, Flights
<1> HIDE DEF got, i
<1>10. /\ l \in Flights /\ l.key = loads[i].key /\ l.born = loads[i].born
       /\ l.waiters = Cardinality(W) - 1 /\ l.source = loads[i].source
  <2>1. Cardinality(W) - 1 \in Nat
    BY <1>7
  <2>2. loads[i] \in Flights /\ loads[i].waiters = Cardinality(W)
    BY <1>4, <1>6
  <2> HIDE DEF W
  <2> QED  BY <2>1, <2>2 DEF Flights
<1> HIDE DEF l
<1>11. /\ loads' \in Seq(Flights) /\ Len(loads') = Len(loads) /\ DOMAIN loads' = DOMAIN loads
       /\ \A j \in DOMAIN loads : /\ loads'[j].key = loads[j].key /\ loads'[j].born = loads[j].born
                                  /\ loads'[j].waiters = IF j = i THEN l.waiters ELSE loads[j].waiters
       /\ inflight' \in [CacheKeys -> 0..MaxLoads] /\ generations' \in [CacheKeys -> Nat]
       /\ FlightsFresh' /\ WipedAtEnd' /\ EntriesFresh'
  BY <1>2, <1>4, <1>8, <1>10, CleanupLeaves
<1>12. \A d \in KeyCallers : caller'[d] = IF d = c THEN got ELSE caller[d]
  BY <1>1, <1>3
<1>13. KeyCacheTypeOK'
  <2>1. caller' \in [KeyCallers -> Calls(Len(loads))]
    BY <1>1, <1>3, <1>9
  <2> QED  BY <1>2, <1>11, <2>1 DEF KeyCacheTypeOK, Flights, Calls
<1>14. WaitersCounted'
  <2>1. WaitersOf(caller', i) = W \ {c}
    BY <1>9, <1>12 DEF WaitersOf
  <2>2. \A j : j # i => WaitersOf(caller', j) = WaitersOf(caller, j)
    BY <1>2, <1>9, <1>12 DEF WaitersOf, i
  <2>3. IsFiniteSet(W \ {c}) /\ Cardinality(W \ {c}) = Cardinality(W) - 1
    BY <1>6, FS_RemoveElement
  <2> HIDE DEF W
  <2> QED  BY <1>10, <1>11, <2>1, <2>2, <2>3 DEF WaitersCounted
<1>15. CallsFresh'
  <2> SUFFICES ASSUME NEW d \in KeyCallers, caller'[d].at # "idle"
               PROVE  loads'[caller'[d].load].born >= caller'[d].since /\ caller'[d].source # "zeroed"
    BY DEF CallsFresh
  <2>1. CASE d = c
    <3>1. loads[i].born >= caller[c].since
      BY <1>2 DEF CallsFresh, i
    <3> QED  BY <1>4, <1>8, <1>9, <1>11, <1>12, <2>1, <3>1
  <2>2. CASE d # c
    <3>1. caller'[d] = caller[d]
      BY <1>12, <2>2
    <3>2. caller[d].load \in DOMAIN loads
      BY <1>1, <3>1, CallHasLoad
    <3> QED  BY <1>11, <3>1, <3>2 DEF CallsFresh
  <2> QED  BY <2>1, <2>2
<1> QED  BY <1>11, <1>13, <1>14, <1>15

-----------------------------------------------------------------------------
(* What is evicted has no entry and no load any more.                      *)
LEMMA EvictKeeps ==
    ASSUME KeyCacheInv, NEW k \in CacheKeys, Evict(k)
    PROVE  KeyCacheInv'
<1> USE DEF KeyCacheInv
<1>1. /\ kept' = Drop(kept, k) /\ inflight' = [inflight EXCEPT ![k] = 0]
      /\ evictions' = [x \in CacheKeys |-> IF x \in {k} THEN evictions[x] + 1 ELSE evictions[x]]
      /\ UNCHANGED <<loads, caller>>
  BY DEF Evict, Evicted
<1>2. generations' \in [CacheKeys -> Nat]
  BY DEF Evict, KeyCacheTypeOK
<1>3. kept \in Seq(Entries)
  BY DEF KeyCacheTypeOK, Entries
<1>4. /\ kept' \in Seq(Entries) /\ Apart(kept') /\ Len(kept') <= Len(kept)
      /\ \A j \in DOMAIN kept' : kept'[j].key # k /\ \E h \in DOMAIN kept : kept'[j] = kept[h]
  BY <1>1, <1>3, DropLeaves DEF EntriesFresh
<1>5. KeyCacheTypeOK'
  <2>1. Len(kept') <= CacheCapacity
    BY <1>3, <1>4, LenProperties, KeyCacheAssumption DEF KeyCacheTypeOK
  <2>2. inflight' \in [CacheKeys -> 0..MaxLoads] /\ evictions' \in [CacheKeys -> Nat]
    BY <1>1, KeyCacheAssumption DEF KeyCacheTypeOK
  <2> QED  BY <1>1, <1>2, <1>4, <2>1, <2>2 DEF KeyCacheTypeOK, Entries
<1>6. EntriesFresh'
  <2>1. \A j \in DOMAIN kept' : kept'[j].key \in CacheKeys
    <3>1. \A j \in DOMAIN kept' : kept'[j] \in Entries
      BY <1>4, ElementOfSeq, LenProperties
    <3> QED  BY <3>1 DEF Entries
  <2>2. \A j \in DOMAIN kept' : evictions'[kept'[j].key] = evictions[kept'[j].key]
    BY <1>1, <1>4, <2>1
  <2> QED  BY <1>1, <1>4, <2>2, EntriesStayFresh
<1>7. FlightsFresh'
  BY <1>1 DEF FlightsFresh, Finished, KeyCacheTypeOK
<1>8. WaitersCounted' /\ WipedAtEnd' /\ CallsFresh'
  BY <1>1 DEF WaitersCounted, WaitersOf, WipedAtEnd, Finished, CallsFresh
<1> QED  BY <1>5, <1>6, <1>7, <1>8

(* After a clear there are no entries and no loads of keys.                *)
LEMMA ClearCacheKeeps ==
    ASSUME KeyCacheInv, ClearCache
    PROVE  KeyCacheInv'
<1> USE DEF KeyCacheInv
<1>1. /\ kept' = <<>> /\ inflight' = [k \in CacheKeys |-> 0] /\ generations' = [k \in CacheKeys |-> 0]
      /\ evictions' \in [CacheKeys -> Nat] /\ UNCHANGED <<loads, caller>>
  BY DEF ClearCache, Evicted, KeyCacheTypeOK
<1>2. kept' \in Seq(Entries) /\ Len(kept') = 0 /\ DOMAIN kept' = {}
  BY <1>1
<1>3. KeyCacheTypeOK'
  BY <1>1, <1>2, KeyCacheAssumption DEF KeyCacheTypeOK, Entries
<1>4. EntriesFresh' /\ FlightsFresh'
  BY <1>1, <1>2 DEF EntriesFresh, Apart, FlightsFresh
<1>5. WaitersCounted' /\ WipedAtEnd' /\ CallsFresh'
  BY <1>1 DEF WaitersCounted, WaitersOf, WipedAtEnd, Finished, CallsFresh
<1> QED  BY <1>3, <1>4, <1>5

(* Time takes nothing but entries.                                         *)
LEMMA EntryExpiresKeeps ==
    ASSUME KeyCacheInv, NEW i \in DOMAIN kept, EntryExpires(i)
    PROVE  KeyCacheInv'
<1> USE DEF KeyCacheInv
<1> DEFINE e == [kept[i] EXCEPT !.expired = TRUE]
<1>1. kept \in Seq(Entries) /\ DOMAIN kept = 1..Len(kept) /\ kept[i] \in Entries
  <2>1. kept \in Seq(Entries)
    BY DEF KeyCacheTypeOK, Entries
  <2> QED  BY <2>1, ElementOfSeq, LenProperties
<1>2. kept' = [kept EXCEPT ![i] = e] /\ UNCHANGED <<loads, inflight, generations, caller, evictions>>
  BY DEF EntryExpires
<1>3. e \in Entries /\ e.key = kept[i].key /\ e.load = kept[i].load
  BY <1>1 DEF Entries
<1> HIDE DEF e
<1>4. /\ kept' \in Seq(Entries) /\ Len(kept') = Len(kept) /\ DOMAIN kept' = DOMAIN kept
      /\ \A j \in DOMAIN kept : kept'[j] = IF j = i THEN e ELSE kept[j]
  <2>1. /\ kept' \in Seq(Entries) /\ Len(kept') = Len(kept)
        /\ \A j \in 1..Len(kept) : kept'[j] = IF j = i THEN e ELSE kept[j]
    BY <1>1, <1>2, <1>3, ExceptSeq
  <2> QED  BY <1>1, <2>1, LenProperties
<1>5. Apart(kept')
  BY <1>3, <1>4 DEF EntriesFresh, Apart
<1>6. EntriesFresh'
  BY <1>2, <1>3, <1>4, <1>5, EntriesStayFresh
<1>7. KeyCacheTypeOK'
  BY <1>2, <1>4 DEF KeyCacheTypeOK, Entries
<1>8. FlightsFresh' /\ WaitersCounted' /\ WipedAtEnd' /\ CallsFresh'
  BY <1>2 DEF FlightsFresh, WaitersCounted, WaitersOf, WipedAtEnd, Finished, CallsFresh
<1> QED  BY <1>6, <1>7, <1>8

(* What the timer leaves is some of the entries, each once.                *)
LEMMA ExpireEntriesKeeps ==
    ASSUME KeyCacheInv, ExpireEntries
    PROVE  KeyCacheInv'
<1> USE DEF KeyCacheInv
<1>1. kept \in Seq(Entries) /\ Len(kept) \in Nat /\ DOMAIN kept = 1..Len(kept)
      /\ \A h \in DOMAIN kept : kept[h] \in Entries
  <2>1. kept \in Seq(Entries)
    BY DEF KeyCacheTypeOK, Entries
  <2> QED  BY <2>1, ElementOfSeq, LenProperties
<1>2. PICK n \in 0..Len(kept) : \E place \in [1..n -> DOMAIN kept] :
         /\ \A j, h \in 1..n : j < h => place[j] < place[h]
         /\ kept' = [j \in 1..n |-> kept[place[j]]]
  BY DEF ExpireEntries
<1>3. PICK place \in [1..n -> DOMAIN kept] :
         /\ \A j, h \in 1..n : j < h => place[j] < place[h]
         /\ kept' = [j \in 1..n |-> kept[place[j]]]
  BY <1>2
<1>4. UNCHANGED <<loads, inflight, caller, evictions>>
  BY DEF ExpireEntries
<1>5. generations' \in [CacheKeys -> Nat]
  BY DEF ExpireEntries, KeyCacheTypeOK
<1>6. n \in Nat /\ n <= Len(kept)
  BY <1>1
<1>7. kept' \in Seq(Entries) /\ Len(kept') = n /\ DOMAIN kept' = 1..n
      /\ \A j \in 1..n : kept'[j] = kept[place[j]] /\ place[j] \in DOMAIN kept
  BY <1>1, <1>3, <1>6
<1>8. \A j, h \in 1..n : place[j] = place[h] => j = h
  <2> SUFFICES ASSUME NEW j \in 1..n, NEW h \in 1..n, place[j] = place[h]
               PROVE  j = h
    OBVIOUS
  <2>1. place[j] \in Nat /\ place[h] \in Nat
    BY <1>1
  <2>2. j \in Nat /\ h \in Nat
    BY <1>6
  <2>3. ~(j < h) /\ ~(h < j)
    BY <1>3, <2>1
  <2> QED  BY <2>2, <2>3
<1>9. Apart(kept')
  BY <1>7, <1>8 DEF EntriesFresh, Apart
<1>10. EntriesFresh'
  BY <1>4, <1>7, <1>9, EntriesStayFresh
<1>11. KeyCacheTypeOK'
  <2>1. n <= CacheCapacity
    BY <1>1, <1>6, KeyCacheAssumption DEF KeyCacheTypeOK
  <2> QED  BY <1>4, <1>5, <1>7, <2>1 DEF KeyCacheTypeOK, Entries
<1>12. FlightsFresh' /\ WaitersCounted' /\ WipedAtEnd' /\ CallsFresh'
  BY <1>4 DEF FlightsFresh, WaitersCounted, WaitersOf, WipedAtEnd, Finished, CallsFresh
<1> QED  BY <1>10, <1>11, <1>12

-----------------------------------------------------------------------------
(* An empty cache with no loads is in order.                               *)
LEMMA KeyCacheInvInit == KeyCacheInit => KeyCacheInv
<1> SUFFICES ASSUME KeyCacheInit PROVE KeyCacheInv
  OBVIOUS
<1>1. Len(<<>>) = 0 /\ DOMAIN <<>> = {}
  OBVIOUS
<1>2. KeyCacheTypeOK
  BY <1>1, KeyCacheAssumption DEF KeyCacheInit, KeyCacheTypeOK
<1>3. EntriesFresh /\ FlightsFresh /\ WaitersCounted /\ WipedAtEnd
  BY <1>1 DEF KeyCacheInit, EntriesFresh, Apart, FlightsFresh, WaitersCounted, WipedAtEnd
<1>4. CallsFresh
  BY DEF KeyCacheInit, CallsFresh, NotCalled
<1> QED  BY <1>2, <1>3, <1>4 DEF KeyCacheInv

(* Every step keeps the cache in order.                                    *)
LEMMA KeyCacheInvNext == KeyCacheInv /\ [KeyCacheNext]_keyCacheVars => KeyCacheInv'
<1> SUFFICES ASSUME KeyCacheInv, [KeyCacheNext]_keyCacheVars PROVE KeyCacheInv'
  OBVIOUS
<1>1. CASE UNCHANGED keyCacheVars
  <2> USE <1>1 DEF keyCacheVars, KeyCacheInv
  <2>1. KeyCacheTypeOK'
    BY DEF KeyCacheTypeOK
  <2>2. EntriesFresh' /\ FlightsFresh'
    BY DEF EntriesFresh, EntryFresh, Apart, FlightsFresh, Finished
  <2>3. WaitersCounted' /\ WipedAtEnd' /\ CallsFresh'
    BY DEF WaitersCounted, WaitersOf, WipedAtEnd, Finished, CallsFresh
  <2> QED  BY <2>1, <2>2, <2>3
<1>2. CASE KeyCacheNext
  BY <1>2, WithCachedKeyKeeps, WithLoadedKeyKeeps, LoadAnsweredKeeps, LoadFailsKeeps,
     LoadSettlesKeeps, ResumeCallerKeeps, EvictKeeps, ClearCacheKeeps, EntryExpiresKeeps,
     ExpireEntriesKeeps DEF KeyCacheNext
<1> QED  BY <1>1, <1>2

(* So the cache is in order in every behaviour.                            *)
LEMMA KeyCacheInvAlways == KeyCacheSpec => []KeyCacheInv
<1> QED  BY KeyCacheInvInit, KeyCacheInvNext, PTL DEF KeyCacheSpec

(* Entries, loads and calls keep their types, the cache its capacity.      *)
THEOREM KeyCacheTyped == KeyCacheSpec => []KeyCacheTypeOK
<1>1. KeyCacheInv => KeyCacheTypeOK
  BY DEF KeyCacheInv
<1> QED  BY <1>1, KeyCacheInvAlways, PTL

(* A call that begins after an eviction never gets an older key and no     *)
(* older key stays in the cache, no call copies a key that was wiped, and  *)
(* a key that nobody waits for has been wiped (startLoad, cleanupLoad,     *)
(* evict, clear).                                                          *)
THEOREM KeysAlwaysFreshAndWiped == KeyCacheSpec => []KeysFreshAndWiped
<1>1. KeyCacheInv => KeysFreshAndWiped
  BY DEF KeyCacheInv, KeysFreshAndWiped, CallsFresh, EntriesFresh, EntryFresh, WipedAtEnd
<1> QED  BY <1>1, KeyCacheInvAlways, PTL
=============================================================================
