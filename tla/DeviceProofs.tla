----------------------------- MODULE DeviceProofs -----------------------------
(***************************************************************************)
(* What the remote control of a device and the deployment of a tool to     *)
(* devices keep, for any commands, devices, versions and bounds.           *)
(***************************************************************************)
EXTENDS DeviceControl, ToolRollout, FiniteSetTheorems, TLAPS

Policies == [gen : 0 .. MaxPolicies + 1, mode : Modes]

CommandRows == [status : {"none", "pending", "claimed", "succeeded", "failed", "expired"},
                leased : BOOLEAN, old : BOOLEAN, fresh : BOOLEAN]

RunRows == [stage : {"off", "pre", "collect", "post"}, at : {"send", "execute", "save", "work"},
            mem : Files, todo : SUBSET Commands, changed : BOOLEAN, round : {1, 2},
            asked : SUBSET Commands]

(* The generations count the changes of the policy. *)
GensCounted ==
  /\ policy.gen <= faults.policies + 1
  /\ admin <= faults.policies + 1

DevTyped == DevTypeOK /\ GensCounted

-----------------------------------------------------------------------------
(* What the transactions of the web do.                                    *)

(* Commands past their time end without a result. *)
LEMMA ExpireFacts ==
  ASSUME NEW cmd \in [Commands -> CommandRows]
  PROVE  /\ ExpireOld(cmd) \in [Commands -> CommandRows]
         /\ \A c \in Commands :
              ExpireOld(cmd)[c] = cmd[c] \/ (/\ cmd[c].status # "none"
                                             /\ ExpireOld(cmd)[c].status = "expired")
<1>1. \A c \in Commands : [cmd[c] EXCEPT !.status = "expired", !.leased = FALSE] \in CommandRows
                          /\ [cmd[c] EXCEPT !.status = "expired", !.leased = FALSE].status = "expired"
  BY DEF CommandRows
<1> QED  BY <1>1 DEF ExpireOld

(* A claimed command of which there is a result ends with one of them. *)
LEMMA RecordFacts ==
  ASSUME NEW cmd \in [Commands -> CommandRows], NEW results \in SUBSET Results
  PROVE  /\ Record(cmd, results) \in [Commands -> CommandRows]
         /\ \A c \in Commands :
              \/ Record(cmd, results)[c] = cmd[c]
              \/ /\ cmd[c].status = "claimed"
                 /\ Record(cmd, results)[c].status \in {"succeeded", "failed"}
                 /\ \E x \in results : x.id = c /\ Record(cmd, results)[c].fresh = x.fresh
<1> DEFINE with(c, x) == [cmd[c] EXCEPT !.status = IF x.ok THEN "succeeded" ELSE "failed",
                                        !.leased = FALSE, !.fresh = x.fresh]
           of(c) == CHOOSE x \in ResultOf(c, results) : TRUE
<1>1. \A c \in Commands, x \in results :
         /\ with(c, x) \in CommandRows /\ with(c, x).status \in {"succeeded", "failed"}
         /\ with(c, x).fresh = x.fresh
  <2> TAKE c \in Commands, x \in results
  <2>1. x.fresh \in BOOLEAN
    BY DEF Results
  <2>2. cmd[c] \in CommandRows
    OBVIOUS
  <2> QED  BY ONLY <2>1, <2>2 DEF CommandRows
<1>2. \A c \in Commands : ResultOf(c, results) # {} => of(c) \in results /\ of(c).id = c
  <2> TAKE c \in Commands
  <2> HAVE ResultOf(c, results) # {}
  <2>1. of(c) \in ResultOf(c, results)
    BY Zenon
  <2> QED  BY <2>1 DEF ResultOf
<1>3. Record(cmd, results) =
        [c \in Commands |-> IF cmd[c].status = "claimed" /\ ResultOf(c, results) # {}
                            THEN with(c, of(c)) ELSE cmd[c]]
  BY Zenon DEF Record
<1> HIDE DEF with, of
<1>4. \A c \in Commands : Record(cmd, results)[c] =
        (IF cmd[c].status = "claimed" /\ ResultOf(c, results) # {} THEN with(c, of(c)) ELSE cmd[c])
  BY <1>3
<1>5. Record(cmd, results) \in [Commands -> CommandRows]
  BY <1>1, <1>2, <1>3
<1> QED  BY <1>1, <1>2, <1>4, <1>5

(* The transaction of a sync. *)
LEMMA ServeFacts ==
  ASSUME DevTypeOK, NEW mem \in Files
  PROVE  /\ Serve(mem).command \in [Commands -> CommandRows]
         /\ Serve(mem).handed \subseteq Commands
         /\ policy.gen # 0 => Serve(mem).policy = policy
         /\ policy.gen = 0 => Serve(mem).policy.gen = 1 /\ Serve(mem).policy.mode = mem.mode
         /\ Serve(mem).policy \in Policies
         /\ mem.gen >= shown.gen => Serve(mem).shown = [gen |-> mem.gen, mode |-> mem.mode]
         /\ Serve(mem).shown \in Policies
         /\ \A c \in Commands : command[c].status # "none" => Serve(mem).command[c].status # "none"
         /\ \A c \in Serve(mem).handed : Serve(mem).command[c].status # "none"
         /\ \A c \in Commands :
              Serve(mem).command[c].status \in {"succeeded", "failed"} =>
                \/ /\ command[c].status \in {"succeeded", "failed"}
                   /\ Serve(mem).command[c].fresh = command[c].fresh
                \/ \E x \in mem.results : x.id = c /\ Serve(mem).command[c].fresh = x.fresh
<1> DEFINE recorded == Record(command, mem.results)
           settled == ExpireOld(recorded)
           handed == ClaimableCommand(settled)
           served == [c \in Commands |-> IF c \in handed
                                         THEN [settled[c] EXCEPT !.status = "claimed", !.leased = TRUE]
                                         ELSE settled[c]]
           desired == IF policy.gen = 0 THEN [gen |-> 1, mode |-> mem.mode] ELSE policy
           known == IF mem.gen >= shown.gen THEN [gen |-> mem.gen, mode |-> mem.mode] ELSE shown
<1>1. Serve(mem).command = served /\ Serve(mem).handed = handed /\ Serve(mem).policy = desired
      /\ Serve(mem).shown = known
  BY DEF Serve
<1>2. /\ command \in [Commands -> CommandRows] /\ mem.results \in SUBSET Results
      /\ mem.mode \in Modes /\ mem.gen \in 0 .. MaxPolicies + 1
      /\ policy \in Policies /\ shown \in Policies
  BY DEF DevTypeOK, CommandRows, Files, Policies
<1>3. /\ desired \in Policies /\ known \in Policies
      /\ policy.gen # 0 => desired = policy
      /\ policy.gen = 0 => desired.gen = 1 /\ desired.mode = mem.mode
      /\ mem.gen >= shown.gen => known = [gen |-> mem.gen, mode |-> mem.mode]
  BY <1>2, DeviceAssumption DEF Policies
<1>4. /\ recorded \in [Commands -> CommandRows]
      /\ \A c \in Commands : \/ recorded[c] = command[c]
                             \/ /\ command[c].status = "claimed"
                                /\ recorded[c].status \in {"succeeded", "failed"}
                                /\ \E x \in mem.results : x.id = c /\ recorded[c].fresh = x.fresh
  BY <1>2, RecordFacts
<1> HIDE DEF recorded
<1>5. /\ settled \in [Commands -> CommandRows]
      /\ \A c \in Commands : settled[c] = recorded[c] \/ (/\ recorded[c].status # "none"
                                                          /\ settled[c].status = "expired")
  BY <1>4, ExpireFacts
<1> HIDE DEF settled
<1>6. handed \subseteq Commands
  BY DEF ClaimableCommand
<1> HIDE DEF handed
<1>7. \A c \in Commands :
        /\ [settled[c] EXCEPT !.status = "claimed", !.leased = TRUE] \in CommandRows
        /\ [settled[c] EXCEPT !.status = "claimed", !.leased = TRUE].status = "claimed"
  BY <1>5 DEF CommandRows
<1>8. /\ served \in [Commands -> CommandRows]
      /\ \A c \in Commands : IF c \in handed THEN served[c].status = "claimed" ELSE served[c] = settled[c]
  BY <1>5, <1>7
<1> HIDE DEF served, desired, known
<1>9. \A c \in Commands : command[c].status # "none" => served[c].status # "none"
  BY <1>4, <1>5, <1>8
<1>10. \A c \in handed : served[c].status # "none"
  BY <1>6, <1>8
<1>11. \A c \in Commands :
         served[c].status \in {"succeeded", "failed"} =>
           \/ command[c].status \in {"succeeded", "failed"} /\ served[c].fresh = command[c].fresh
           \/ \E x \in mem.results : x.id = c /\ served[c].fresh = x.fresh
  BY <1>4, <1>5, <1>8
<1> QED  BY <1>1, <1>3, <1>6, <1>8, <1>9, <1>10, <1>11

(* A policy that is not older is applied. *)
LEMMA ApplyFacts ==
  ASSUME NEW mem \in Files, NEW desired \in Policies
  PROVE  /\ ApplyDesired(mem, desired) \in Files
         /\ ApplyDesired(mem, desired).completed = mem.completed
         /\ ApplyDesired(mem, desired).results = mem.results
         /\ ApplyDesired(mem, desired).collects = mem.collects
         /\ desired.gen >= mem.gen => /\ ApplyDesired(mem, desired).gen = desired.gen
                                      /\ ApplyDesired(mem, desired).mode = desired.mode
<1> DEFINE new == [mem EXCEPT !.gen = desired.gen, !.mode = desired.mode]
<1>1. /\ new \in Files /\ new.completed = mem.completed /\ new.results = mem.results
      /\ new.collects = mem.collects /\ new.gen = desired.gen /\ new.mode = desired.mode
  BY DEF Files, Policies
<1>2. ApplyDesired(mem, desired) = (IF desired.gen < mem.gen THEN mem ELSE new)
  BY DEF ApplyDesired
<1>3. desired.gen \in 0 .. MaxPolicies + 1 /\ mem.gen \in 0 .. MaxPolicies + 1
  BY DEF Files, Policies
<1> HIDE DEF new
<1>4. CASE desired.gen < mem.gen
  BY <1>2, <1>3, <1>4, DeviceAssumption
<1>5. CASE ~(desired.gen < mem.gen)
  BY <1>1, <1>2, <1>5
<1> QED  BY <1>4, <1>5

(* What a run is at its start, in its collection and at its end. *)
LEMMA StageFacts ==
  ASSUME DevTypeOK, NEW r \in Runs
  PROVE  /\ NoRun \in RunRows /\ NoRun.stage = "off" /\ NoRun.at = "send"
         /\ \A stage \in {"pre", "post"}, mem \in Files :
              /\ Started(r, stage, mem) \in RunRows /\ Started(r, stage, mem).stage = stage
              /\ Started(r, stage, mem).at = "send" /\ Started(r, stage, mem).mem = mem
              /\ Started(r, stage, mem).todo = {}
         /\ Collecting(r) \in RunRows /\ Collecting(r).stage = "collect" /\ Collecting(r).at = "work"
         /\ Collecting(r).asked = {c \in Commands : command[c].status # "none"}
         /\ AfterSync(r) \in {NoRun, Collecting(r)}
<1>1. run[r] \in RunRows
  BY DEF DevTypeOK, RunRows
<1>2. EmptyFile \in Files
  BY DeviceAssumption DEF EmptyFile, Files, Modes
<1>3. NoRun \in RunRows /\ NoRun.stage = "off" /\ NoRun.at = "send"
  BY <1>2 DEF NoRun, RunRows
<1>4. \A stage \in {"pre", "post"}, mem \in Files :
        /\ Started(r, stage, mem) \in RunRows /\ Started(r, stage, mem).stage = stage
        /\ Started(r, stage, mem).at = "send" /\ Started(r, stage, mem).mem = mem
        /\ Started(r, stage, mem).todo = {}
  <2> TAKE stage \in {"pre", "post"}, mem \in Files
  <2> QED  BY ONLY <1>1 DEF Started, RunRows
<1> DEFINE asked == {c \in Commands : command[c].status # "none"}
<1>5. asked \subseteq Commands
  OBVIOUS
<1>6. Collecting(r) = [run[r] EXCEPT !.stage = "collect", !.at = "work", !.mem = EmptyFile, !.todo = {},
                                     !.changed = FALSE, !.round = 1, !.asked = asked]
  BY DEF Collecting
<1> HIDE DEF asked
<1>7. Collecting(r) \in RunRows /\ Collecting(r).stage = "collect" /\ Collecting(r).at = "work"
      /\ Collecting(r).asked = asked
  BY <1>1, <1>2, <1>5, <1>6 DEF RunRows
<1> QED  BY <1>3, <1>4, <1>7 DEF AfterSync, asked

(* What a command that is executed leaves in the state of the run. *)
LEMMA ExecutedFacts ==
  ASSUME DevTypeOK, NEW r \in Runs, NEW c \in Commands, NEW ok \in BOOLEAN
  PROVE  /\ Executed(r, c, ok) \in Files
         /\ Executed(r, c, ok).gen = run[r].mem.gen /\ Executed(r, c, ok).mode = run[r].mem.mode
         /\ Executed(r, c, ok).completed = run[r].mem.completed \union {c}
         /\ Executed(r, c, ok).collects \subseteq run[r].mem.collects \union {c}
         /\ \A x \in Executed(r, c, ok).results :
              x \in run[r].mem.results \/ (x.id = c /\ c \notin CollectCommands)
<1> DEFINE mem == run[r].mem
           result == [id |-> c, ok |-> ok, fresh |-> TRUE]
           collect == [mem EXCEPT !.completed = @ \union {c}, !.collects = @ \union {c}]
           doctor == [mem EXCEPT !.completed = @ \union {c}, !.results = @ \union {result}]
<1>1. mem \in Files /\ result \in Results /\ result.id = c
  BY DEF DevTypeOK, RunRows, Results
<1>2. Executed(r, c, ok) = (IF c \in CollectCommands THEN collect ELSE doctor)
  BY DEF Executed
<1> HIDE DEF mem, result
<1>3. CASE c \in CollectCommands
  <2>1. /\ collect \in Files /\ collect.gen = mem.gen /\ collect.mode = mem.mode
        /\ collect.completed = mem.completed \union {c} /\ collect.collects = mem.collects \union {c}
        /\ collect.results = mem.results
    BY <1>1, <1>3 DEF Files
  <2> HIDE DEF collect
  <2> QED  BY <2>1, <1>2, <1>3 DEF mem
<1>4. CASE c \notin CollectCommands
  <2>1. /\ doctor \in Files /\ doctor.gen = mem.gen /\ doctor.mode = mem.mode
        /\ doctor.completed = mem.completed \union {c} /\ doctor.collects = mem.collects
        /\ doctor.results = mem.results \union {result}
    BY <1>1 DEF Files
  <2> HIDE DEF doctor
  <2> QED  BY <2>1, <1>1, <1>2, <1>4 DEF mem
<1> QED  BY <1>3, <1>4

(* What the end of a collection leaves in the state file. *)
LEMMA CollectFacts ==
  ASSUME DevTypeOK, NEW r \in Runs, NEW ok \in BOOLEAN
  PROVE  /\ CollectResults(r, ok) \in Files
         /\ CollectResults(r, ok).gen = stateFile.gen /\ CollectResults(r, ok).mode = stateFile.mode
         /\ CollectResults(r, ok).completed = stateFile.completed
         /\ CollectResults(r, ok).collects = {}
         /\ \A x \in CollectResults(r, ok).results :
              x \in stateFile.results
              \/ (x.id \in stateFile.collects /\ x.fresh = (x.id \in run[r].asked))
<1> DEFINE done == {[id |-> c, ok |-> ok, fresh |-> c \in run[r].asked] : c \in stateFile.collects}
           new == [stateFile EXCEPT !.collects = {}, !.results = @ \union done]
<1>1. stateFile \in Files /\ stateFile.collects \subseteq CollectCommands
  BY DEF DevTypeOK, Files
<1>2. done \subseteq Results
  <2>1. \A c \in Commands, f \in BOOLEAN : [id |-> c, ok |-> ok, fresh |-> f] \in Results
    BY DEF Results
  <2>2. \A c \in stateFile.collects : c \in Commands /\ (c \in run[r].asked) \in BOOLEAN
    BY <1>1 DEF Commands
  <2> QED  BY <2>1, <2>2, Zenon
<1>3. \A x \in done : x.id \in stateFile.collects /\ x.fresh = (x.id \in run[r].asked)
  OBVIOUS
<1> HIDE DEF done
<1>4. /\ new \in Files /\ new.gen = stateFile.gen /\ new.mode = stateFile.mode
      /\ new.completed = stateFile.completed /\ new.collects = {}
      /\ new.results = stateFile.results \union done
  BY <1>1, <1>2 DEF Files
<1>5. CollectResults(r, ok) = new
  BY DEF CollectResults, done
<1> HIDE DEF new
<1> QED  BY <1>3, <1>4, <1>5

-----------------------------------------------------------------------------
(* Types.                                                                  *)

(* A step of a run concerns that run. *)
LEMMA OneRunChanges ==
  ASSUME DevTypeOK, NEW r \in Runs, NEW n \in RunRows, run' = [run EXCEPT ![r] = n]
  PROVE  /\ run' \in [Runs -> RunRows] /\ run'[r] = n
         /\ \A s \in Runs \ {r} : run'[s] = run[s]
<1>1. run \in [Runs -> RunRows]
  BY DEF DevTypeOK, RunRows
<1> QED  BY <1>1

(* The commands an administrator gives, and what time does to them. *)
LEMMA CommandsChange ==
  ASSUME DevTypeOK, NEW c \in Commands, EnqueueCommand(c) \/ EndLease(c) \/ GrowOld(c)
  PROVE  /\ command' \in [Commands -> CommandRows]
         /\ \A d \in Commands : command[d].status # "none" => command'[d].status # "none"
         /\ \A d \in Commands : command'[d].status \in {"succeeded", "failed"} =>
              command[d].status \in {"succeeded", "failed"} /\ command'[d].fresh = command[d].fresh
         /\ UNCHANGED <<policy, shown, admin, stateFile, run, executed, faults>>
<1>1. command \in [Commands -> CommandRows]
  BY DEF DevTypeOK, CommandRows
<1>2. CASE EnqueueCommand(c)
  <2> DEFINE cmd == ExpireOld(command)
             n == [cmd[c] EXCEPT !.status = "pending"]
  <2>1. /\ cmd \in [Commands -> CommandRows]
        /\ \A d \in Commands : cmd[d] = command[d] \/ (/\ command[d].status # "none"
                                                       /\ cmd[d].status = "expired")
    BY <1>1, ExpireFacts
  <2>2. command' = [cmd EXCEPT ![c] = n]
    BY <1>2 DEF EnqueueCommand
  <2> HIDE DEF cmd
  <2>3. n \in CommandRows /\ n.status = "pending"
    BY <2>1 DEF CommandRows
  <2> HIDE DEF n
  <2>4. command' \in [Commands -> CommandRows]
        /\ \A d \in Commands : command'[d] = (IF d = c THEN n ELSE cmd[d])
    BY <2>1, <2>2, <2>3
  <2> QED  BY <1>2, <2>1, <2>3, <2>4 DEF EnqueueCommand
<1>3. CASE EndLease(c)
  <2> DEFINE n == [command[c] EXCEPT !.leased = FALSE]
  <2>1. n \in CommandRows /\ n.status = command[c].status /\ n.fresh = command[c].fresh
    BY <1>1 DEF CommandRows
  <2>2. command' = [command EXCEPT ![c] = n]
    BY <1>3 DEF EndLease
  <2> HIDE DEF n
  <2> QED  BY <1>1, <1>3, <2>1, <2>2 DEF EndLease
<1>4. CASE GrowOld(c)
  <2> DEFINE n == [command[c] EXCEPT !.old = TRUE]
  <2>1. n \in CommandRows /\ n.status = command[c].status /\ n.fresh = command[c].fresh
    BY <1>1 DEF CommandRows
  <2>2. command' = [command EXCEPT ![c] = n]
    BY <1>4 DEF GrowOld
  <2> HIDE DEF n
  <2> QED  BY <1>1, <1>4, <2>1, <2>2 DEF GrowOld
<1> QED  BY <1>2, <1>3, <1>4

(* A sync the answer of which arrives. *)
LEMMA SyncRunFacts ==
  ASSUME DevTypeOK, NEW r \in Runs, SyncRun(r)
  PROVE  /\ run[r].stage \in {"pre", "post"} /\ run[r].at = "send" /\ run[r].mem \in Files
         /\ command' = Serve(run[r].mem).command /\ policy' = Serve(run[r].mem).policy
         /\ shown' = Serve(run[r].mem).shown
         /\ run' \in [Runs -> RunRows] /\ \A s \in Runs \ {r} : run'[s] = run[s]
         /\ run'[r].stage = run[r].stage /\ run'[r].at = "execute"
         /\ run'[r].todo = Serve(run[r].mem).handed
         /\ run'[r].mem = ApplyDesired([run[r].mem EXCEPT !.results = {}], policy')
         /\ UNCHANGED <<admin, stateFile, executed, faults>>
<1> DEFINE mem == run[r].mem
           served == Serve(mem)
           sent == [mem EXCEPT !.results = {}]
           applied == ApplyDesired(sent, served.policy)
           changed == applied # mem
           n == [run[r] EXCEPT !.at = "execute", !.mem = applied, !.todo = served.handed,
                               !.changed = changed]
<1>1. run[r] \in RunRows /\ mem \in Files
  BY DEF DevTypeOK, RunRows
<1>2. sent \in Files
  BY <1>1 DEF Files
<1>3. served.policy \in Policies /\ served.handed \subseteq Commands
  BY <1>1, ServeFacts
<1>4. /\ run[r].stage \in {"pre", "post"} /\ run[r].at = "send"
      /\ command' = served.command /\ policy' = served.policy /\ shown' = served.shown
      /\ run' = [run EXCEPT ![r] = n]
      /\ UNCHANGED <<admin, stateFile, executed, faults>>
  BY DEF SyncRun
<1> HIDE DEF served, sent
<1>5. applied \in Files
  BY <1>2, <1>3, ApplyFacts
<1> HIDE DEF applied
<1>6. changed \in BOOLEAN
  OBVIOUS
<1> HIDE DEF changed
<1>7. n \in RunRows /\ n.stage = run[r].stage /\ n.at = "execute" /\ n.mem = applied /\ n.todo = served.handed
  BY <1>1, <1>3, <1>5, <1>6 DEF RunRows
<1> HIDE DEF n
<1>8. run' \in [Runs -> RunRows] /\ run'[r] = n /\ \A s \in Runs \ {r} : run'[s] = run[s]
  BY <1>4, <1>7, OneRunChanges
<1> QED  BY <1>1, <1>4, <1>7, <1>8 DEF applied, served, sent

(* The steps of a run, and its end. *)
LEMMA RunFacts ==
  ASSUME DevTypeOK, NEW r \in Runs
  PROVE  /\ BeginRun(r) =>
              /\ run[r].stage = "off" /\ run' \in [Runs -> RunRows]
              /\ run'[r] = Started(r, "pre", stateFile) /\ \A s \in Runs \ {r} : run'[s] = run[s]
         /\ KillRun(r) =>
              run' \in [Runs -> RunRows] /\ run'[r] = NoRun /\ \A s \in Runs \ {r} : run'[s] = run[s]
         /\ \A answered \in BOOLEAN : LoseSync(r, answered) =>
              run' \in [Runs -> RunRows] /\ run'[r] = AfterSync(r) /\ \A s \in Runs \ {r} : run'[s] = run[s]
         /\ SaveCommand(r) =>
              /\ run' \in [Runs -> RunRows] /\ run'[r].at = "execute"
              /\ run'[r].mem = run[r].mem /\ run'[r].stage = run[r].stage /\ run'[r].todo = run[r].todo
              /\ \A s \in Runs \ {r} : run'[s] = run[s]
         /\ FinishSync(r) =>
              /\ run' \in [Runs -> RunRows] /\ \A s \in Runs \ {r} : run'[s] = run[s]
              /\ \/ run'[r] = AfterSync(r)
                 \/ /\ run'[r].stage = run[r].stage /\ run'[r].at = "send" /\ run'[r].mem = run[r].mem
                    /\ run'[r].todo = run[r].todo
         /\ \A ok \in BOOLEAN : FinishCollect(r, ok) =>
              /\ run' \in [Runs -> RunRows] /\ stateFile' = CollectResults(r, ok)
              /\ run'[r] = Started(r, "post", stateFile') /\ \A s \in Runs \ {r} : run'[s] = run[s]
<1>1. run[r] \in RunRows /\ stateFile \in Files
  BY DEF DevTypeOK, RunRows
<1>2. AfterSync(r) \in RunRows /\ NoRun \in RunRows
  BY StageFacts
<1>3. \A mem \in Files : Started(r, "pre", mem) \in RunRows /\ Started(r, "post", mem) \in RunRows
  BY StageFacts
<1>4. BeginRun(r) => /\ run[r].stage = "off" /\ run' \in [Runs -> RunRows]
                     /\ run'[r] = Started(r, "pre", stateFile) /\ \A s \in Runs \ {r} : run'[s] = run[s]
  BY <1>1, <1>3, OneRunChanges DEF BeginRun
<1>5. KillRun(r) => run' \in [Runs -> RunRows] /\ run'[r] = NoRun /\ \A s \in Runs \ {r} : run'[s] = run[s]
  BY <1>2, OneRunChanges DEF KillRun
<1>6. \A answered \in BOOLEAN : LoseSync(r, answered) =>
        run' \in [Runs -> RunRows] /\ run'[r] = AfterSync(r) /\ \A s \in Runs \ {r} : run'[s] = run[s]
  BY <1>2, OneRunChanges DEF LoseSync
<1>7. ASSUME SaveCommand(r)
      PROVE  /\ run' \in [Runs -> RunRows] /\ run'[r].at = "execute"
             /\ run'[r].mem = run[r].mem /\ run'[r].stage = run[r].stage /\ run'[r].todo = run[r].todo
             /\ \A s \in Runs \ {r} : run'[s] = run[s]
  <2> DEFINE n == [run[r] EXCEPT !.at = "execute"]
  <2>1. n \in RunRows /\ n.at = "execute" /\ n.mem = run[r].mem /\ n.stage = run[r].stage
        /\ n.todo = run[r].todo
    BY <1>1 DEF RunRows
  <2>2. run' = [run EXCEPT ![r] = n]
    BY <1>7 DEF SaveCommand
  <2> HIDE DEF n
  <2> QED  BY <2>1, <2>2, OneRunChanges
<1>8. ASSUME FinishSync(r)
      PROVE  /\ run' \in [Runs -> RunRows] /\ \A s \in Runs \ {r} : run'[s] = run[s]
             /\ \/ run'[r] = AfterSync(r)
                \/ /\ run'[r].stage = run[r].stage /\ run'[r].at = "send" /\ run'[r].mem = run[r].mem
                   /\ run'[r].todo = run[r].todo
  <2> DEFINE n == [run[r] EXCEPT !.at = "send", !.changed = FALSE, !.round = 2]
  <2>1. n \in RunRows /\ n.at = "send" /\ n.mem = run[r].mem /\ n.stage = run[r].stage
        /\ n.todo = run[r].todo
    BY <1>1 DEF RunRows
  <2>2. run' = [run EXCEPT ![r] = n] \/ run' = [run EXCEPT ![r] = AfterSync(r)]
    BY <1>8 DEF FinishSync
  <2> HIDE DEF n
  <2> QED  BY <1>2, <2>1, <2>2, OneRunChanges
<1>9. ASSUME NEW ok \in BOOLEAN, FinishCollect(r, ok)
      PROVE  /\ run' \in [Runs -> RunRows] /\ stateFile' = CollectResults(r, ok)
             /\ run'[r] = Started(r, "post", stateFile') /\ \A s \in Runs \ {r} : run'[s] = run[s]
  <2>1. stateFile' \in Files /\ stateFile' = CollectResults(r, ok)
    BY <1>9, CollectFacts DEF FinishCollect
  <2>2. run' = [run EXCEPT ![r] = Started(r, "post", stateFile')]
    BY <1>9 DEF FinishCollect
  <2> QED  BY <1>3, <2>1, <2>2, OneRunChanges
<1> QED  BY <1>4, <1>5, <1>6, <1>7, <1>8, <1>9

(* The execution of a command. *)
LEMMA ExecuteFacts ==
  ASSUME DevTypeOK, NEW r \in Runs, NEW c \in Commands, NEW ok \in BOOLEAN, ExecuteCommand(r, c, ok)
  PROVE  /\ run[r].at = "execute" /\ c \in run[r].todo
         /\ run' \in [Runs -> RunRows] /\ \A s \in Runs \ {r} : run'[s] = run[s]
         /\ run'[r].stage = run[r].stage /\ run'[r].todo \subseteq run[r].todo
         /\ UNCHANGED <<policy, shown, command, admin, stateFile, faults>>
         /\ \/ /\ c \in run[r].mem.completed
               /\ run'[r].at = "execute" /\ run'[r].mem = run[r].mem /\ executed' = executed
            \/ /\ c \notin run[r].mem.completed
               /\ run'[r].at = "save" /\ run'[r].mem = Executed(r, c, ok)
               /\ executed' = [executed EXCEPT ![c] = @ + 1]
<1> DEFINE rest == run[r].todo \ {c}
           skip == [run[r] EXCEPT !.todo = rest]
           done == [run[r] EXCEPT !.at = "save", !.todo = rest, !.changed = TRUE, !.mem = Executed(r, c, ok)]
<1>1. run[r] \in RunRows /\ Executed(r, c, ok) \in Files
  BY ExecutedFacts DEF DevTypeOK, RunRows
<1>2. run[r].at = "execute" /\ c \in run[r].todo
      /\ UNCHANGED <<policy, shown, command, admin, stateFile, faults>>
  BY DEF ExecuteCommand
<1>3. skip \in RunRows /\ skip.stage = run[r].stage /\ skip.todo = rest /\ skip.at = run[r].at
      /\ skip.mem = run[r].mem
  BY <1>1 DEF RunRows
<1>4. done \in RunRows /\ done.stage = run[r].stage /\ done.todo = rest /\ done.at = "save"
      /\ done.mem = Executed(r, c, ok)
  BY <1>1 DEF RunRows
<1>5. /\ c \in run[r].mem.completed => run' = [run EXCEPT ![r] = skip] /\ executed' = executed
      /\ c \notin run[r].mem.completed =>
           run' = [run EXCEPT ![r] = done] /\ executed' = [executed EXCEPT ![c] = @ + 1]
  BY DEF ExecuteCommand
<1>6. rest \subseteq run[r].todo
  OBVIOUS
<1> HIDE DEF skip, done, rest
<1>7. CASE c \in run[r].mem.completed
  BY <1>2, <1>3, <1>5, <1>6, <1>7, OneRunChanges
<1>8. CASE c \notin run[r].mem.completed
  BY <1>2, <1>4, <1>5, <1>6, <1>8, OneRunChanges
<1> QED  BY <1>7, <1>8

(* The types hold at first ... *)
LEMMA DevTypedInit == DevInit => DevTyped
<1> SUFFICES ASSUME DevInit  PROVE DevTyped
  OBVIOUS
<1> USE DEF DevInit
<1>1. EmptyFile \in Files
  BY DeviceAssumption DEF EmptyFile, Files, Modes
<1>2. run \in [Runs -> RunRows]
  BY <1>1 DEF NoRun, RunRows
<1>3. command \in [Commands -> CommandRows]
  BY DEF CommandRows
<1>4. /\ policy \in Policies /\ shown \in Policies /\ admin \in 0 .. MaxPolicies + 1
      /\ executed \in [Commands -> Nat]
      /\ faults \in [lost : 0 .. MaxDevFaults, kills : 0 .. MaxDevFaults, policies : 0 .. MaxPolicies]
  BY DeviceAssumption DEF Policies, Modes
<1>5. GensCounted
  BY DEF GensCounted
<1> QED  BY <1>1, <1>2, <1>3, <1>4, <1>5 DEF DevTyped, DevTypeOK, RunRows, CommandRows, Policies

(* ... every step keeps them ... *)
LEMMA DevTypedNext == DevTyped /\ [DevNext]_devVars => DevTyped'
<1> SUFFICES ASSUME DevTyped, [DevNext]_devVars  PROVE DevTyped'
  OBVIOUS
<1> DEFINE Faults == [lost : 0 .. MaxDevFaults, kills : 0 .. MaxDevFaults, policies : 0 .. MaxPolicies]
<1> USE DEF DevTyped
<1>1. /\ policy \in Policies /\ shown \in Policies /\ command \in [Commands -> CommandRows]
      /\ admin \in 0 .. MaxPolicies + 1 /\ stateFile \in Files /\ run \in [Runs -> RunRows]
      /\ executed \in [Commands -> Nat] /\ faults \in Faults
  BY DEF DevTypeOK, RunRows, CommandRows, Policies
<1>2. /\ policy.gen \in Nat /\ admin \in Nat /\ faults.policies \in 0 .. MaxPolicies
      /\ faults.lost \in Nat /\ faults.kills \in Nat
  BY <1>1, DeviceAssumption DEF Policies
<1> DEFINE Typed == /\ policy \in Policies /\ shown \in Policies /\ command \in [Commands -> CommandRows]
                    /\ admin \in 0 .. MaxPolicies + 1 /\ stateFile \in Files /\ run \in [Runs -> RunRows]
                    /\ executed \in [Commands -> Nat] /\ faults \in Faults
<1> SUFFICES Typed' /\ GensCounted'
  BY DEF DevTypeOK, RunRows, CommandRows, Policies
<1>3. CASE UNCHANGED devVars
  BY <1>1, <1>3 DEF devVars, GensCounted
<1>4. CASE ReadPolicy
  <2> DEFINE n == [faults EXCEPT !.policies = @ + 1]
  <2>1. faults.policies < MaxPolicies /\ admin' = policy.gen + 1 /\ faults' = n
        /\ UNCHANGED <<policy, shown, command, stateFile, run, executed>>
    BY <1>4 DEF ReadPolicy
  <2>2. n \in Faults /\ n.policies = faults.policies + 1
    BY <1>1, <1>2, <2>1, DeviceAssumption
  <2> HIDE DEF n, Faults
  <2>3. GensCounted'
    BY <1>2, <2>1, <2>2 DEF GensCounted
  <2>4. admin' \in 0 .. MaxPolicies + 1
    BY <1>2, <2>1, DeviceAssumption DEF GensCounted
  <2> QED  BY <1>1, <2>1, <2>2, <2>3, <2>4
<1>5. ASSUME NEW mode \in Modes, WritePolicy(mode)
      PROVE  Typed' /\ GensCounted'
  <2>1. policy' = [gen |-> admin, mode |-> mode] /\ admin' = 0
        /\ UNCHANGED <<shown, command, stateFile, run, executed, faults>>
    BY <1>5 DEF WritePolicy
  <2>2. policy' \in Policies /\ policy'.gen = admin
    BY <1>1, <2>1 DEF Policies
  <2>3. GensCounted'
    BY <1>2, <2>1, <2>2 DEF GensCounted
  <2>4. admin' \in 0 .. MaxPolicies + 1
    BY <2>1, DeviceAssumption
  <2> QED  BY <1>1, <2>1, <2>2, <2>3, <2>4
<1>6. ASSUME NEW c \in Commands, EnqueueCommand(c) \/ EndLease(c) \/ GrowOld(c)
      PROVE  Typed' /\ GensCounted'
  BY <1>1, <1>6, CommandsChange DEF GensCounted
<1>7. ASSUME NEW mem \in Files,
             policy' = Serve(mem).policy, UNCHANGED <<admin, faults>>
      PROVE  GensCounted'
  <2>1. policy' = policy \/ policy'.gen = 1
    BY <1>7, ServeFacts
  <2> QED  BY <1>2, <1>7, <2>1 DEF GensCounted
<1>8. ASSUME NEW r \in Runs, RunStep(r)
      PROVE  Typed' /\ GensCounted'
  <2>1. CASE BeginRun(r) \/ SaveCommand(r) \/ FinishSync(r)
    <3>1. UNCHANGED <<policy, shown, command, admin, executed, faults>>
      BY <2>1 DEF BeginRun, SaveCommand, FinishSync
    <3>2. stateFile' = stateFile \/ stateFile' = run[r].mem
      BY <2>1 DEF BeginRun, SaveCommand, FinishSync
    <3>3. stateFile' \in Files
      BY <1>1, <3>2 DEF RunRows
    <3>4. run' \in [Runs -> RunRows]
      BY <2>1, RunFacts
    <3> QED  BY <1>1, <3>1, <3>3, <3>4 DEF GensCounted
  <2>2. CASE SyncRun(r)
    <3>1. /\ run[r].mem \in Files /\ run' \in [Runs -> RunRows]
          /\ command' = Serve(run[r].mem).command /\ policy' = Serve(run[r].mem).policy
          /\ shown' = Serve(run[r].mem).shown
          /\ UNCHANGED <<admin, stateFile, executed, faults>>
      BY <2>2, SyncRunFacts
    <3>2. policy' \in Policies /\ shown' \in Policies /\ command' \in [Commands -> CommandRows]
      BY <3>1, ServeFacts
    <3>3. GensCounted'
      BY <3>1, <1>7
    <3> QED  BY <1>1, <3>1, <3>2, <3>3
  <2>3. ASSUME NEW c \in Commands, NEW ok \in BOOLEAN, ExecuteCommand(r, c, ok)
        PROVE  Typed' /\ GensCounted'
    <3>1. /\ run' \in [Runs -> RunRows] /\ UNCHANGED <<policy, shown, command, admin, stateFile, faults>>
          /\ executed' = executed \/ executed' = [executed EXCEPT ![c] = @ + 1]
      BY <2>3, ExecuteFacts
    <3>2. executed' \in [Commands -> Nat]
      BY <1>1, <3>1
    <3> QED  BY <1>1, <3>1, <3>2 DEF GensCounted
  <2>4. ASSUME NEW ok \in BOOLEAN, FinishCollect(r, ok)
        PROVE  Typed' /\ GensCounted'
    <3>1. run' \in [Runs -> RunRows] /\ stateFile' = CollectResults(r, ok)
      BY <2>4, RunFacts
    <3>2. stateFile' \in Files
      BY <3>1, CollectFacts
    <3>3. UNCHANGED <<policy, shown, command, admin, executed, faults>>
      BY <2>4 DEF FinishCollect
    <3> QED  BY <1>1, <3>1, <3>2, <3>3 DEF GensCounted
  <2> QED  BY <1>8, <2>1, <2>2, <2>3, <2>4 DEF RunStep
<1>9. ASSUME NEW r \in Runs, KillRun(r)
      PROVE  Typed' /\ GensCounted'
  <2> DEFINE n == [faults EXCEPT !.kills = @ + 1]
  <2>1. faults' = n /\ faults.lost + faults.kills < MaxDevFaults
        /\ UNCHANGED <<policy, shown, command, admin, stateFile, executed>>
    BY <1>9 DEF KillRun, MayFail
  <2>2. n \in Faults /\ n.policies = faults.policies
    BY <1>1, <1>2, <2>1, DeviceAssumption
  <2>3. run' \in [Runs -> RunRows]
    BY <1>9, RunFacts
  <2> HIDE DEF n, Faults
  <2> QED  BY <1>1, <2>1, <2>2, <2>3 DEF GensCounted
<1>10. ASSUME NEW r \in Runs, NEW answered \in BOOLEAN, LoseSync(r, answered)
       PROVE  Typed' /\ GensCounted'
  <2> DEFINE n == [faults EXCEPT !.lost = @ + 1]
             mem == run[r].mem
  <2>1. /\ faults' = n /\ faults.lost + faults.kills < MaxDevFaults
        /\ UNCHANGED <<admin, stateFile, executed>>
        /\ \/ UNCHANGED <<command, policy, shown>>
           \/ /\ command' = Serve(mem).command /\ policy' = Serve(mem).policy
              /\ shown' = Serve(mem).shown
    BY <1>10 DEF LoseSync, MayFail
  <2>2. n \in Faults /\ n.policies = faults.policies
    BY <1>1, <1>2, <2>1, DeviceAssumption
  <2>3. run' \in [Runs -> RunRows] /\ mem \in Files
    BY <1>1, <1>10, RunFacts DEF RunRows
  <2> HIDE DEF n, Faults, mem
  <2>4. policy' \in Policies /\ shown' \in Policies /\ command' \in [Commands -> CommandRows]
        /\ (policy'.gen = policy.gen \/ policy'.gen = 1)
    <3>1. /\ Serve(mem).policy \in Policies /\ Serve(mem).shown \in Policies
          /\ Serve(mem).command \in [Commands -> CommandRows]
          /\ Serve(mem).policy = policy \/ Serve(mem).policy.gen = 1
      BY <2>3, ServeFacts
    <3>2. CASE UNCHANGED <<command, policy, shown>>
      BY <1>1, <3>2
    <3>3. CASE /\ command' = Serve(mem).command /\ policy' = Serve(mem).policy
               /\ shown' = Serve(mem).shown
      BY <3>1, <3>3
    <3> QED  BY <2>1, <3>2, <3>3
  <2>5. GensCounted'
    <3>1. faults'.policies = faults.policies /\ admin' = admin
      BY <2>1, <2>2
    <3> QED  BY <1>2, <2>4, <3>1 DEF GensCounted
  <2> QED  BY <1>1, <2>1, <2>2, <2>3, <2>4, <2>5
<1>11. CASE DevNext
  BY <1>4, <1>5, <1>6, <1>8, <1>9, <1>10, <1>11 DEF DevNext
<1> QED  BY <1>3, <1>11

(* ... so that they always hold. *)
LEMMA DevTypedAlways == DevSpec => []DevTyped
<1> QED  BY DevTypedInit, DevTypedNext, PTL DEF DevSpec

(* The rows of the server, the state file of the device and the runs of    *)
(* the shim have the types that the code gives them (device_control.rs).   *)
THEOREM DeviceTyped == DevSpec => []DevTypeOK
<1>1. DevTyped => DevTypeOK
  BY DEF DevTyped
<1> QED  BY <1>1, DevTypedAlways, PTL

-----------------------------------------------------------------------------
(* What runs that do not overlap keep.                                     *)

(* No two runs are under way at a time. *)
NoOverlap == \A r, s \in Runs : r # s => run[r].stage = "off" \/ run[s].stage = "off"

Syncing(r) == run[r].stage \in {"pre", "post"}
Unsaved(r) == Syncing(r) /\ run[r].at # "send"
FreshOf(results) == \A x \in results : x.id \in CollectCommands => x.fresh
Given(c) == command[c].status # "none"

(* The server shows what the state file has; until the first change of the *)
(* policy is written every mode is the one the device began with.          *)
PolicyInv ==
  /\ admin # 0 => admin = policy.gen + 1 \/ (admin = 1 /\ policy.gen = 1)
  /\ shown.gen <= stateFile.gen /\ stateFile.gen <= policy.gen
  /\ policy.gen = 0 \/ admin = 1 =>
       policy.mode = "off" /\ shown.mode = "off" /\ stateFile.mode = "off"
  /\ AppliedIsInForce

(* A collect command waits in the state file after it was given.           *)
CollectsInv ==
  /\ \A c \in stateFile.collects : Given(c)
  /\ FreshOf(stateFile.results)
  /\ CollectedAfterAsked

(* A run sends what is saved; what it has not saved yet is the policy that *)
(* was served, and all that was done before.                               *)
RunInv(r) ==
  /\ run[r].stage = "collect" <=> run[r].at = "work"
  /\ run[r].stage = "off" => run[r].at = "send"
  /\ Syncing(r) /\ run[r].at = "send" => run[r].mem = stateFile
  /\ Unsaved(r) =>
       /\ stateFile.gen <= run[r].mem.gen /\ run[r].mem.gen <= policy.gen /\ policy.gen > 0
       /\ admin = 1 => run[r].mem.mode = "off"
       /\ shown = policy => run[r].mem.gen = policy.gen /\ run[r].mem.mode = policy.mode
       /\ stateFile.completed \subseteq run[r].mem.completed
  /\ Syncing(r) => /\ \A c \in run[r].mem.collects : Given(c)
                   /\ FreshOf(run[r].mem.results)
  /\ Syncing(r) => \A c \in run[r].todo : Given(c)
  /\ run[r].stage = "collect" => \A c \in stateFile.collects : c \in run[r].asked

(* A command that was executed is known to be done, unless the run that    *)
(* executed it was killed.                                                 *)
Known(c) == c \in stateFile.completed \/ \E r \in Runs : Syncing(r) /\ c \in run[r].mem.completed
CountInv == \A c \in Commands :
  /\ executed[c] <= faults.kills + 1
  /\ ~Known(c) => executed[c] <= faults.kills

DevInv == PolicyInv /\ CollectsInv /\ CountInv /\ \A r \in Runs : RunInv(r)

(* The other runs have not begun. *)
LEMMA OthersOff ==
  ASSUME NoOverlap, NEW r \in Runs, run[r].stage # "off",
         \A s \in Runs : RunInv(s), \A s \in Runs \ {r} : run'[s] = run[s]
  PROVE  \A s \in Runs \ {r} : run[s].stage = "off" /\ ~Syncing(s) /\ ~Syncing(s)' /\ RunInv(s)'
<1> TAKE s \in Runs \ {r}
<1>1. run[s].stage = "off" /\ run'[s] = run[s]
  BY DEF NoOverlap
<1>2. run[s].at = "send"
  BY <1>1 DEF RunInv
<1> QED  BY <1>1, <1>2 DEF RunInv, Syncing, Unsaved

(* A run whose state stays the same. *)
LEMMA RunStays ==
  ASSUME NEW r \in Runs, RunInv(r), run'[r] = run[r], UNCHANGED <<stateFile, policy, admin, shown>>,
         DevTypeOK, \A c \in Commands : Given(c) => Given(c)'
  PROVE  RunInv(r)'
<1>1. run[r].mem.collects \subseteq Commands /\ run[r].todo \subseteq Commands
  BY DEF DevTypeOK, Files, Commands
<1> QED  BY <1>1 DEF RunInv, Syncing, Unsaved

(* After the first sync the run collects what the state file asks for.     *)
LEMMA RunGoesOn ==
  ASSUME DevTypeOK, NEW r \in Runs, run'[r] \in {NoRun, AfterSync(r)},
         \A c \in stateFile'.collects : c \in Commands /\ Given(c)
  PROVE  RunInv(r)' /\ ~Syncing(r)'
<1>1. \/ run'[r].stage = "off" /\ run'[r].at = "send"
      \/ /\ run'[r].stage = "collect" /\ run'[r].at = "work"
         /\ run'[r].asked = {c \in Commands : command[c].status # "none"}
  BY StageFacts
<1> QED  BY <1>1 DEF RunInv, Syncing, Unsaved, Given

(* A run that begins, or that syncs once more, sends what is saved.        *)
LEMMA RunSends ==
  ASSUME NEW r \in Runs, run'[r].stage \in {"pre", "post"}, run'[r].at = "send",
         run'[r].mem = stateFile', FreshOf(stateFile.results)', \A c \in stateFile'.collects : Given(c)',
         \A c \in run'[r].todo : Given(c)'
  PROVE  RunInv(r)'
<1> QED  BY DEF RunInv, Syncing, Unsaved

(* Steps that execute nothing and forget nothing. *)
LEMMA CountStays ==
  ASSUME DevTypeOK, CountInv, executed' = executed, faults'.kills = faults.kills,
         \A c \in Commands : Known(c) => Known(c)'
  PROVE  CountInv'
<1> QED  BY DEF CountInv

(* The server's side of a sync that sends what is saved. *)
LEMMA ServePolicy ==
  ASSUME DevTyped, PolicyInv, CollectsInv, UNCHANGED <<admin, stateFile>>,
         command' = Serve(stateFile).command, policy' = Serve(stateFile).policy,
         shown' = Serve(stateFile).shown
  PROVE  /\ PolicyInv' /\ CollectsInv' /\ \A c \in Commands : Given(c) => Given(c)'
         /\ policy'.gen > 0 /\ stateFile.gen <= policy'.gen /\ (admin = 1 => policy'.mode = "off")
<1>1. DevTypeOK /\ stateFile \in Files /\ GensCounted
  BY DEF DevTyped, DevTypeOK
<1>2. /\ policy.gen \in Nat /\ shown.gen \in Nat /\ stateFile.gen \in Nat /\ admin \in Nat
  BY <1>1, DeviceAssumption DEF DevTypeOK, Files
<1>3. /\ policy.gen # 0 => policy' = policy
      /\ policy.gen = 0 => policy'.gen = 1 /\ policy'.mode = stateFile.mode
      /\ shown' = [gen |-> stateFile.gen, mode |-> stateFile.mode]
      /\ \A c \in Commands : Given(c) => Given(c)'
      /\ \A c \in Commands :
           command'[c].status \in {"succeeded", "failed"} =>
             \/ command[c].status \in {"succeeded", "failed"} /\ command'[c].fresh = command[c].fresh
             \/ \E x \in stateFile.results : x.id = c /\ command'[c].fresh = x.fresh
  BY <1>1, <1>2, ServeFacts DEF PolicyInv, Given
<1>4. PolicyInv'
  <2>1. shown'.gen = stateFile.gen /\ shown'.mode = stateFile.mode
    BY <1>3
  <2>2. admin' # 0 => admin' = policy'.gen + 1 \/ (admin' = 1 /\ policy'.gen = 1)
    BY <1>2, <1>3 DEF PolicyInv
  <2>3. shown'.gen <= stateFile'.gen /\ stateFile'.gen <= policy'.gen
    BY <1>2, <1>3, <2>1 DEF PolicyInv
  <2>4. policy'.gen = 0 \/ admin' = 1 =>
          policy'.mode = "off" /\ shown'.mode = "off" /\ stateFile'.mode = "off"
    BY <1>2, <1>3, <2>1 DEF PolicyInv
  <2>5. AppliedIsInForce'
    BY <2>1 DEF AppliedIsInForce
  <2> QED  BY <2>2, <2>3, <2>4, <2>5 DEF PolicyInv
<1>5. CollectsInv'
  <2>1. \A c \in stateFile'.collects : Given(c)'
    BY <1>1, <1>3 DEF CollectsInv, Files, Commands
  <2>2. FreshOf(stateFile.results)'
    BY DEF CollectsInv, FreshOf
  <2>3. CollectedAfterAsked'
    BY <1>3 DEF CollectsInv, CollectedAfterAsked, FreshOf, Commands
  <2> QED  BY <2>1, <2>2, <2>3 DEF CollectsInv
<1>6. policy'.gen > 0 /\ stateFile.gen <= policy'.gen /\ (admin = 1 => policy'.mode = "off")
  BY <1>2, <1>3, <1>4 DEF PolicyInv
<1> QED  BY <1>3, <1>4, <1>5, <1>6

(* What the web does on its own. *)
LEMMA WebKeeps ==
  ASSUME DevTyped, DevInv,
         \/ ReadPolicy \/ \E mode \in Modes : WritePolicy(mode)
         \/ \E c \in Commands : EnqueueCommand(c) \/ EndLease(c) \/ GrowOld(c)
  PROVE  DevInv'
<1> USE DEF DevInv
<1>1. DevTypeOK /\ GensCounted
  BY DEF DevTyped
<1>2. /\ policy.gen \in Nat /\ shown.gen \in Nat /\ stateFile.gen \in Nat /\ admin \in Nat
      /\ policy \in Policies /\ shown \in Policies
  BY <1>1, DeviceAssumption DEF DevTypeOK, Files, Policies
<1>3. CASE \E c \in Commands : EnqueueCommand(c) \/ EndLease(c) \/ GrowOld(c)
  <2>1. /\ \A d \in Commands : Given(d) => Given(d)'
        /\ \A d \in Commands : command'[d].status \in {"succeeded", "failed"} =>
              command[d].status \in {"succeeded", "failed"} /\ command'[d].fresh = command[d].fresh
        /\ UNCHANGED <<policy, shown, admin, stateFile, run, executed, faults>>
    BY <1>1, <1>3, CommandsChange DEF Given
  <2>2. PolicyInv'
    BY <2>1 DEF PolicyInv, AppliedIsInForce
  <2>3. CollectsInv'
    <3>1. \A c \in stateFile.collects : c \in Commands
      BY <1>1 DEF DevTypeOK, Files, Commands
    <3>2. CollectedAfterAsked'
      BY <2>1 DEF CollectsInv, CollectedAfterAsked, Commands
    <3> QED  BY <2>1, <3>1, <3>2 DEF CollectsInv, FreshOf
  <2>4. \A r \in Runs : RunInv(r)'
    BY <1>1, <2>1, RunStays
  <2>5. CountInv'
    BY <2>1 DEF CountInv, Known, Syncing
  <2> QED  BY <2>2, <2>3, <2>4, <2>5
<1>4. ASSUME UNCHANGED <<shown, command, stateFile, run, executed>>, faults'.kills = faults.kills
      PROVE  CollectsInv' /\ CountInv'
  BY <1>4 DEF CollectsInv, CollectedAfterAsked, Given, FreshOf, CountInv, Known, Syncing
<1>5. CASE ReadPolicy
  <2>1. /\ admin = 0 /\ admin' = policy.gen + 1 /\ faults'.kills = faults.kills
        /\ UNCHANGED <<policy, shown, command, stateFile, run, executed>>
    BY <1>1, <1>5 DEF ReadPolicy, DevTypeOK
  <2>2. PolicyInv'
    BY <1>2, <2>1 DEF PolicyInv, AppliedIsInForce
  <2>3. ASSUME NEW r \in Runs  PROVE RunInv(r)'
    <3>1. RunInv(r)
      OBVIOUS
    <3>2. Unsaved(r) => policy.gen > 0 /\ admin' # 1
      BY <1>2, <2>1, <3>1 DEF RunInv
    <3> QED  BY <2>1, <3>1, <3>2 DEF RunInv, Syncing, Unsaved, Given
  <2> QED  BY <1>4, <2>1, <2>2, <2>3
<1>6. ASSUME NEW mode \in Modes, WritePolicy(mode)
      PROVE  DevInv'
  <2>1. /\ admin > 0 /\ policy' = [gen |-> admin, mode |-> mode] /\ admin' = 0
        /\ UNCHANGED <<shown, command, stateFile, run, executed, faults>>
    BY <1>6 DEF WritePolicy
  <2>2. policy'.gen = admin /\ policy'.mode = mode /\ policy.gen <= admin
    BY <1>2, <2>1 DEF PolicyInv
  <2>3. shown = policy' => policy' = policy /\ policy.gen > 0
    <3> SUFFICES ASSUME shown = policy'  PROVE policy' = policy /\ policy.gen > 0
      OBVIOUS
    <3>1. shown.gen = admin /\ shown.mode = mode
      BY <2>2
    <3>2. shown.gen <= policy.gen
      BY <1>2 DEF PolicyInv
    <3>3. admin = 1 /\ policy.gen = 1
      BY <1>2, <2>1, <3>1, <3>2 DEF PolicyInv
    <3>4. policy.mode = "off" /\ mode = "off"
      BY <3>1, <3>3 DEF PolicyInv
    <3>5. policy = [gen |-> 1, mode |-> "off"]
      BY <1>2, <3>3, <3>4 DEF Policies
    <3> QED  BY <2>1, <3>3, <3>4, <3>5
  <2>4. PolicyInv'
    <3>1. AppliedIsInForce'
      BY <2>1, <2>3 DEF PolicyInv, AppliedIsInForce
    <3>2. shown'.gen <= stateFile'.gen /\ stateFile'.gen <= policy'.gen
      BY <1>2, <2>1, <2>2 DEF PolicyInv
    <3>3. admin' = 0 /\ policy'.gen > 0
      BY <2>1, <2>2
    <3> QED  BY <3>1, <3>2, <3>3 DEF PolicyInv
  <2>5. ASSUME NEW r \in Runs  PROVE RunInv(r)'
    <3>1. RunInv(r)
      OBVIOUS
    <3>2. run[r].mem.gen \in Nat
      BY <1>1, DeviceAssumption DEF DevTypeOK, Files
    <3>3. Unsaved(r) => run[r].mem.gen <= policy'.gen /\ policy'.gen > 0
      BY <1>2, <2>1, <2>2, <3>1, <3>2 DEF RunInv
    <3>4. Unsaved(r) /\ shown = policy' => run[r].mem.gen = policy'.gen /\ run[r].mem.mode = policy'.mode
      BY <2>3, <3>1 DEF RunInv
    <3> QED  BY <2>1, <3>1, <3>3, <3>4 DEF RunInv, Syncing, Unsaved, Given
  <2> QED  BY <1>4, <2>1, <2>4, <2>5
<1> QED  BY <1>3, <1>5, <1>6

(* A run begins with what is saved. *)
LEMMA BeginRunKeeps ==
  ASSUME DevTyped, DevInv, NEW r \in Runs, BeginRun(r)
  PROVE  DevInv'
<1> USE DEF DevInv
<1>1. DevTypeOK /\ stateFile \in Files
  BY DEF DevTyped, DevTypeOK
<1>2. /\ run'[r].stage = "pre" /\ run'[r].at = "send" /\ run'[r].mem = stateFile /\ run'[r].todo = {}
      /\ run[r].stage = "off" /\ \A s \in Runs \ {r} : run'[s] = run[s]
      /\ UNCHANGED <<policy, shown, command, admin, stateFile, executed, faults>>
  <2>1. /\ run[r].stage = "off" /\ run'[r] = Started(r, "pre", stateFile)
        /\ \A s \in Runs \ {r} : run'[s] = run[s]
    BY <1>1, RunFacts
  <2>2. /\ Started(r, "pre", stateFile).stage = "pre" /\ Started(r, "pre", stateFile).at = "send"
        /\ Started(r, "pre", stateFile).mem = stateFile /\ Started(r, "pre", stateFile).todo = {}
    BY <1>1, StageFacts
  <2>3. UNCHANGED <<policy, shown, command, admin, stateFile, executed, faults>>
    BY DEF BeginRun
  <2> QED  BY <2>1, <2>2, <2>3
<1>3. PolicyInv' /\ CollectsInv'
  BY <1>2 DEF PolicyInv, AppliedIsInForce, CollectsInv, CollectedAfterAsked, Given, FreshOf
<1>4. RunInv(r)'
  BY <1>2, <1>3, RunSends DEF CollectsInv
<1>5. \A s \in Runs \ {r} : RunInv(s)'
  BY <1>1, <1>2, RunStays DEF Given
<1>6. CountInv'
  <2>1. \A s \in Runs \ {r} : Syncing(s) => Syncing(s)'
    BY <1>2 DEF Syncing
  <2>2. \A c \in Commands : Known(c) => Known(c)'
    BY <1>2, <2>1 DEF Known, Syncing
  <2> QED  BY <1>1, <1>2, <2>2, CountStays
<1> QED  BY <1>3, <1>4, <1>5, <1>6

(* A sync applies what the server shows from then on. *)
LEMMA SyncRunKeeps ==
  ASSUME DevTyped, DevInv, NoOverlap, NEW r \in Runs, SyncRun(r)
  PROVE  DevInv'
<1> USE DEF DevInv
<1> DEFINE sent == [stateFile EXCEPT !.results = {}]
<1>1. DevTypeOK /\ stateFile \in Files
  BY DEF DevTyped, DevTypeOK
<1>2. /\ run[r].stage \in {"pre", "post"} /\ run[r].at = "send" /\ run[r].mem = stateFile
      /\ command' = Serve(stateFile).command /\ policy' = Serve(stateFile).policy
      /\ shown' = Serve(stateFile).shown
      /\ run' \in [Runs -> RunRows] /\ \A s \in Runs \ {r} : run'[s] = run[s]
      /\ run'[r].stage = run[r].stage /\ run'[r].at = "execute"
      /\ run'[r].todo = Serve(stateFile).handed
      /\ run'[r].mem = ApplyDesired(sent, policy')
      /\ UNCHANGED <<admin, stateFile, executed, faults>>
  <2>1. run[r].mem = stateFile
    BY <1>1, SyncRunFacts DEF RunInv, Syncing
  <2>2. DevTypeOK /\ r \in Runs /\ SyncRun(r)
    BY <1>1
  <2>3. run'[r].mem = ApplyDesired([run[r].mem EXCEPT !.results = {}], policy')
    BY ONLY <2>2, SyncRunFacts
  <2>4. run'[r].mem = ApplyDesired(sent, policy')
    BY ONLY <2>1, <2>3 DEF sent
  <2>5. /\ run[r].stage \in {"pre", "post"} /\ run[r].at = "send"
        /\ command' = Serve(run[r].mem).command /\ policy' = Serve(run[r].mem).policy
        /\ shown' = Serve(run[r].mem).shown
        /\ run' \in [Runs -> RunRows] /\ \A s \in Runs \ {r} : run'[s] = run[s]
        /\ run'[r].stage = run[r].stage /\ run'[r].at = "execute"
        /\ run'[r].todo = Serve(run[r].mem).handed
        /\ UNCHANGED <<admin, stateFile, executed, faults>>
    BY ONLY <2>2, SyncRunFacts
  <2> HIDE DEF sent
  <2> QED  BY ONLY <2>1, <2>4, <2>5
<1>3. /\ PolicyInv' /\ CollectsInv' /\ \A c \in Commands : Given(c) => Given(c)'
      /\ policy'.gen > 0 /\ stateFile.gen <= policy'.gen /\ (admin = 1 => policy'.mode = "off")
  <2>1. /\ DevTyped /\ PolicyInv /\ CollectsInv /\ UNCHANGED <<admin, stateFile>>
        /\ command' = Serve(stateFile).command /\ policy' = Serve(stateFile).policy
        /\ shown' = Serve(stateFile).shown
    BY <1>2
  <2> QED  BY ONLY <2>1, ServePolicy
<1>4. policy' \in Policies /\ (\A c \in run'[r].todo : Given(c)')
  <2>1. DevTypeOK /\ stateFile \in Files
    BY ONLY <1>1
  <2>2. /\ Serve(stateFile).policy \in Policies
        /\ \A c \in Serve(stateFile).handed : Serve(stateFile).command[c].status # "none"
    BY ONLY <2>1, ServeFacts
  <2>3. /\ policy' = Serve(stateFile).policy /\ command' = Serve(stateFile).command
        /\ run'[r].todo = Serve(stateFile).handed
    BY ONLY <1>2
  <2> QED  BY ONLY <2>2, <2>3 DEF Given
<1>5. /\ sent \in Files /\ sent.gen = stateFile.gen /\ sent.completed = stateFile.completed
      /\ sent.collects = stateFile.collects /\ sent.results = {}
  BY <1>1 DEF Files
<1> HIDE DEF sent
<1>6. /\ run'[r].mem.gen = policy'.gen /\ run'[r].mem.mode = policy'.mode
      /\ run'[r].mem.completed = stateFile.completed /\ run'[r].mem.collects = stateFile.collects
      /\ run'[r].mem.results = {}
  <2>1. policy'.gen >= sent.gen
    BY <1>1, <1>3, <1>4, <1>5, DeviceAssumption DEF Files, Policies
  <2> QED  BY <1>2, <1>4, <1>5, <2>1, ApplyFacts
<1>7. RunInv(r)'
  <2>1. run'[r].mem.gen <= policy'.gen
    BY <1>4, <1>6, DeviceAssumption DEF Policies
  <2>2. \A c \in run'[r].mem.collects : Given(c)'
    BY <1>2, <1>3, <1>6 DEF CollectsInv
  <2> QED  BY <1>2, <1>3, <1>4, <1>6, <2>1, <2>2 DEF RunInv, Syncing, Unsaved, FreshOf
<1>8. \A s \in Runs \ {r} : run[s].stage = "off" /\ ~Syncing(s) /\ RunInv(s)'
  BY <1>2, OthersOff
<1>9. CountInv'
  <2>1. \A c \in Commands : Known(c) => Known(c)'
    BY <1>2, <1>8 DEF Known
  <2> QED  BY <1>1, <1>2, <2>1, CountStays
<1> QED  BY <1>3, <1>7, <1>8, <1>9

(* A sync that is lost may still have been served. *)
LEMMA LoseSyncKeeps ==
  ASSUME DevTyped, DevInv, NoOverlap, NEW r \in Runs, NEW answered \in BOOLEAN, LoseSync(r, answered)
  PROVE  DevInv'
<1> USE DEF DevInv
<1>1. DevTypeOK /\ stateFile \in Files
  BY DEF DevTyped, DevTypeOK
<1>2. /\ run[r].stage \in {"pre", "post"} /\ run[r].mem = stateFile
      /\ run'[r] = AfterSync(r) /\ \A s \in Runs \ {r} : run'[s] = run[s]
      /\ UNCHANGED <<admin, stateFile, executed>> /\ faults'.kills = faults.kills
  BY <1>1, RunFacts DEF LoseSync, RunInv, Syncing, DevTypeOK
<1>3. PolicyInv' /\ CollectsInv'
  <2>1. CASE UNCHANGED <<command, policy, shown>>
    BY <1>2, <2>1 DEF PolicyInv, AppliedIsInForce, CollectsInv, CollectedAfterAsked, Given, FreshOf
  <2>2. CASE /\ command' = Serve(stateFile).command /\ policy' = Serve(stateFile).policy
             /\ shown' = Serve(stateFile).shown
    BY <1>2, <2>2, ServePolicy
  <2> QED  BY <1>2, <2>1, <2>2 DEF LoseSync
<1>4. RunInv(r)' /\ ~Syncing(r)'
  <2>1. \A c \in stateFile'.collects : c \in Commands /\ Given(c)
    BY <1>1, <1>2 DEF CollectsInv, Files, Commands
  <2> QED  BY <1>1, <1>2, <2>1, RunGoesOn
<1>5. \A s \in Runs \ {r} : run[s].stage = "off" /\ ~Syncing(s) /\ RunInv(s)'
  BY <1>2, OthersOff
<1>6. CountInv'
  <2>1. \A c \in Commands : Known(c) => Known(c)'
    BY <1>2, <1>5 DEF Known
  <2> QED  BY <1>1, <1>2, <2>1, CountStays
<1> QED  BY <1>3, <1>4, <1>5, <1>6

(* A run executes a command of which it does not know that it was done.    *)
LEMMA ExecuteCommandKeeps ==
  ASSUME DevTyped, DevInv, NoOverlap, NEW r \in Runs, NEW c \in Commands, NEW ok \in BOOLEAN,
         ExecuteCommand(r, c, ok)
  PROVE  DevInv'
<1> USE DEF DevInv
<1>1. DevTypeOK /\ run[r] \in RunRows /\ stateFile \in Files
  BY DEF DevTyped, DevTypeOK, RunRows
<1>2. /\ run[r].at = "execute" /\ c \in run[r].todo
      /\ \A s \in Runs \ {r} : run'[s] = run[s]
      /\ run'[r].stage = run[r].stage /\ run'[r].todo \subseteq run[r].todo
      /\ UNCHANGED <<policy, shown, command, admin, stateFile, faults>>
  BY <1>1, ExecuteFacts
<1>3. Unsaved(r) /\ Syncing(r) /\ RunInv(r)
  BY <1>1, <1>2 DEF RunInv, Unsaved, Syncing, RunRows
<1>4. PolicyInv' /\ CollectsInv'
  BY <1>2 DEF PolicyInv, AppliedIsInForce, CollectsInv, CollectedAfterAsked, Given, FreshOf
<1>5. \A s \in Runs \ {r} : run[s].stage = "off" /\ ~Syncing(s) /\ RunInv(s)'
  BY <1>2, <1>3, OthersOff DEF Syncing
<1>6. CASE run'[r].at = "execute" /\ run'[r].mem = run[r].mem /\ executed' = executed
  <2>1. RunInv(r)'
    BY <1>2, <1>3, <1>6 DEF RunInv, Syncing, Unsaved, Given, FreshOf
  <2>2. \A d \in Commands : Known(d) => Known(d)'
    BY <1>2, <1>5, <1>6 DEF Known, Syncing
  <2>3. CountInv'
    BY <1>1, <1>2, <1>6, <2>2, CountStays
  <2> QED  BY <1>4, <1>5, <2>1, <2>3
<1>7. CASE /\ c \notin run[r].mem.completed
           /\ run'[r].at = "save" /\ run'[r].mem = Executed(r, c, ok)
           /\ executed' = [executed EXCEPT ![c] = @ + 1]
  <2> DEFINE old == run[r].mem
             new == run'[r].mem
  <2>1. /\ new.gen = old.gen /\ new.mode = old.mode /\ new.completed = old.completed \union {c}
        /\ new.collects \subseteq old.collects \union {c}
        /\ \A x \in new.results : x \in old.results \/ (x.id = c /\ c \notin CollectCommands)
    BY <1>1, <1>7, ExecutedFacts
  <2> HIDE DEF old, new
  <2>2. RunInv(r)'
    <3>1. /\ stateFile.gen <= old.gen /\ old.gen <= policy.gen /\ policy.gen > 0
          /\ admin = 1 => old.mode = "off"
          /\ shown = policy => old.gen = policy.gen /\ old.mode = policy.mode
          /\ stateFile.completed \subseteq old.completed
          /\ (\A d \in old.collects : Given(d)) /\ FreshOf(old.results)
          /\ \A d \in run[r].todo : Given(d)
      BY <1>3 DEF RunInv, old
    <3>2. \A d \in new.collects : Given(d)'
      BY <1>2, <2>1, <3>1 DEF Given
    <3>3. \A x \in new.results : x.id \in CollectCommands => x.fresh
      BY <2>1, <3>1 DEF FreshOf
    <3>4. run'[r].stage \in {"pre", "post"} /\ run'[r].at = "save" /\ run'[r].mem = new
      BY <1>2, <1>3, <1>7 DEF Syncing, new
    <3>5. stateFile'.completed \subseteq new.completed
      BY <1>2, <2>1, <3>1
    <3>6. \A d \in run'[r].todo : Given(d)'
      BY <1>2, <3>1 DEF Given
    <3> QED  BY <1>2, <2>1, <3>1, <3>2, <3>3, <3>4, <3>5, <3>6 DEF RunInv, Syncing, Unsaved, FreshOf
  <2>3. CountInv'
    <3>1. ~Known(c)
      <4>1. c \notin stateFile.completed
        BY <1>3, <1>7 DEF RunInv
      <4> QED  BY <1>5, <1>7, <4>1 DEF Known
    <3>2. executed \in [Commands -> Nat] /\ faults.kills \in Nat /\ faults'.kills = faults.kills
      BY <1>1, <1>2, DeviceAssumption DEF DevTypeOK
    <3>3. executed'[c] <= faults'.kills + 1 /\ Known(c)'
      <4>1. executed[c] <= faults.kills
        BY <3>1 DEF CountInv
      <4>2. Known(c)'
        BY <1>2, <1>3, <2>1 DEF Known, Syncing, new
      <4> QED  BY <1>7, <3>2, <4>1, <4>2
    <3>4. ASSUME NEW d \in Commands \ {c}
          PROVE  executed'[d] <= faults'.kills + 1 /\ (~Known(d)' => executed'[d] <= faults'.kills)
      <4>1. executed'[d] = executed[d]
        BY <1>7, <3>2
      <4>2. Known(d) => Known(d)'
        BY <1>2, <1>5, <2>1 DEF Known, Syncing, old, new
      <4> QED  BY <3>2, <4>1, <4>2 DEF CountInv
    <3> QED  BY <3>3, <3>4 DEF CountInv
  <2> QED  BY <1>4, <1>5, <2>2, <2>3
<1> QED  BY <1>1, <1>6, <1>7, ExecuteFacts

(* The state of a run is saved: after every command, and at its end. *)
LEMMA SaveKeeps ==
  ASSUME DevTyped, DevInv, NoOverlap, NEW r \in Runs, Unsaved(r), stateFile' = run[r].mem,
         \A s \in Runs \ {r} : run'[s] = run[s],
         UNCHANGED <<policy, shown, command, admin, executed, faults>>
  PROVE  /\ PolicyInv' /\ CollectsInv' /\ CountInv' /\ FreshOf(stateFile.results)'
         /\ (\A c \in stateFile'.collects : c \in Commands /\ Given(c))
         /\ \A s \in Runs \ {r} : RunInv(s)'
<1> USE DEF DevInv
<1>1. DevTypeOK /\ run[r].mem \in Files /\ run[r].stage # "off" /\ Syncing(r) /\ RunInv(r)
  BY DEF DevTyped, DevTypeOK, RunRows, Unsaved, Syncing
<1>2. /\ policy.gen \in Nat /\ shown.gen \in Nat /\ stateFile.gen \in Nat /\ stateFile'.gen \in Nat
  BY <1>1, DeviceAssumption DEF DevTypeOK, Files
<1>3. /\ stateFile.gen <= stateFile'.gen /\ stateFile'.gen <= policy.gen /\ policy.gen > 0
      /\ admin = 1 => stateFile'.mode = "off"
      /\ shown = policy => stateFile'.gen = policy.gen /\ stateFile'.mode = policy.mode
      /\ stateFile.completed \subseteq stateFile'.completed
      /\ (\A c \in stateFile'.collects : Given(c)) /\ FreshOf(stateFile.results)'
  BY <1>1 DEF RunInv, FreshOf
<1>4. PolicyInv'
  BY <1>2, <1>3 DEF PolicyInv, AppliedIsInForce
<1>5. CollectsInv'
  BY <1>3 DEF CollectsInv, CollectedAfterAsked, Given
<1>6. \A s \in Runs \ {r} : run[s].stage = "off" /\ ~Syncing(s) /\ RunInv(s)'
  BY <1>1, OthersOff
<1>7. CountInv'
  <2>1. \A c \in Commands : Known(c) => Known(c)'
    <3> TAKE c \in Commands
    <3> HAVE Known(c)
    <3>1. c \in stateFile.completed \/ c \in run[r].mem.completed
      BY <1>6 DEF Known
    <3> QED  BY <1>3, <3>1 DEF Known
  <2> QED  BY <1>1, <2>1, CountStays
<1>8. \A c \in stateFile'.collects : c \in Commands
  BY <1>1 DEF Files, Commands
<1> QED  BY <1>3, <1>4, <1>5, <1>6, <1>7, <1>8

(* A command that was executed is saved before the next one. *)
LEMMA SaveCommandKeeps ==
  ASSUME DevTyped, DevInv, NoOverlap, NEW r \in Runs, SaveCommand(r)
  PROVE  DevInv'
<1>1. DevTypeOK /\ run[r] \in RunRows /\ RunInv(r)
  BY DEF DevTyped, DevTypeOK, RunRows, DevInv
<1>2. /\ run[r].at = "save" /\ run'[r].at = "execute"
      /\ run'[r].mem = run[r].mem /\ run'[r].stage = run[r].stage /\ run'[r].todo = run[r].todo
      /\ \A s \in Runs \ {r} : run'[s] = run[s]
      /\ stateFile' = run[r].mem /\ UNCHANGED <<policy, shown, command, admin, executed, faults>>
  BY <1>1, RunFacts DEF SaveCommand
<1>3. Unsaved(r)
  BY <1>1, <1>2 DEF RunInv, Unsaved, Syncing, RunRows
<1>4. /\ PolicyInv' /\ CollectsInv' /\ CountInv' /\ FreshOf(stateFile.results)'
      /\ \A s \in Runs \ {r} : RunInv(s)'
  BY <1>2, <1>3, SaveKeeps
<1>5. RunInv(r)'
  <2>1. stateFile'.gen <= run'[r].mem.gen
    BY <1>1, <1>2, DeviceAssumption DEF RunRows, Files
  <2> QED  BY <1>1, <1>2, <1>3, <2>1 DEF RunInv, Unsaved, Syncing, Given, FreshOf
<1> QED  BY <1>4, <1>5 DEF DevInv

(* The sync ends, or begins again to confirm a change. *)
LEMMA FinishSyncKeeps ==
  ASSUME DevTyped, DevInv, NoOverlap, NEW r \in Runs, FinishSync(r)
  PROVE  DevInv'
<1>1. DevTypeOK /\ run[r] \in RunRows /\ RunInv(r)
  BY DEF DevTyped, DevTypeOK, RunRows, DevInv
<1>2. /\ run[r].at = "execute" /\ \A s \in Runs \ {r} : run'[s] = run[s]
      /\ \/ run'[r] = AfterSync(r)
         \/ /\ run'[r].stage = run[r].stage /\ run'[r].at = "send" /\ run'[r].mem = run[r].mem
            /\ run'[r].todo = run[r].todo
      /\ stateFile' = run[r].mem /\ UNCHANGED <<policy, shown, command, admin, executed, faults>>
  BY <1>1, RunFacts DEF FinishSync
<1>3. Unsaved(r)
  BY <1>1, <1>2 DEF RunInv, Unsaved, Syncing, RunRows
<1>4. /\ PolicyInv' /\ CollectsInv' /\ CountInv' /\ FreshOf(stateFile.results)'
      /\ (\A c \in stateFile'.collects : c \in Commands /\ Given(c))
      /\ \A s \in Runs \ {r} : RunInv(s)'
  BY <1>2, <1>3, SaveKeeps
<1>5. CASE run'[r] = AfterSync(r)
  BY <1>1, <1>4, <1>5, RunGoesOn DEF DevInv
<1>6. CASE /\ run'[r].stage = run[r].stage /\ run'[r].at = "send" /\ run'[r].mem = run[r].mem
           /\ run'[r].todo = run[r].todo
  <2>1. run'[r].stage \in {"pre", "post"}
    BY <1>3, <1>6 DEF Unsaved, Syncing
  <2>2. \A c \in run'[r].todo : Given(c)'
    BY <1>1, <1>2, <1>3, <1>6 DEF RunInv, Unsaved, Given
  <2>3. \A c \in stateFile'.collects : Given(c)'
    BY <1>2, <1>4 DEF Given
  <2>4. RunInv(r)'
    BY <1>2, <1>4, <1>6, <2>1, <2>2, <2>3, RunSends
  <2> QED  BY <1>4, <2>4 DEF DevInv
<1> QED  BY <1>2, <1>5, <1>6

(* The collection ends, and with it the collect commands that waited.      *)
LEMMA FinishCollectKeeps ==
  ASSUME DevTyped, DevInv, NoOverlap, NEW r \in Runs, NEW ok \in BOOLEAN, FinishCollect(r, ok)
  PROVE  DevInv'
<1> USE DEF DevInv
<1>1. DevTypeOK /\ run[r] \in RunRows /\ RunInv(r)
  BY DEF DevTyped, DevTypeOK, RunRows
<1>2. /\ run[r].stage = "collect" /\ stateFile' = CollectResults(r, ok)
      /\ run'[r] = Started(r, "post", stateFile') /\ \A s \in Runs \ {r} : run'[s] = run[s]
      /\ UNCHANGED <<policy, shown, command, admin, executed, faults>>
  BY <1>1, RunFacts DEF FinishCollect
<1>3. /\ stateFile' \in Files
      /\ stateFile'.gen = stateFile.gen /\ stateFile'.mode = stateFile.mode
      /\ stateFile'.completed = stateFile.completed /\ stateFile'.collects = {}
      /\ \A x \in stateFile'.results :
           x \in stateFile.results \/ (x.id \in stateFile.collects /\ x.fresh = (x.id \in run[r].asked))
  BY <1>1, <1>2, CollectFacts
<1>4. /\ run'[r].stage = "post" /\ run'[r].at = "send" /\ run'[r].mem = stateFile'
      /\ run'[r].todo = {}
  <2> DEFINE begun(mem) == Started(r, "post", mem)
  <2>1. \A mem \in Files : /\ begun(mem).stage = "post" /\ begun(mem).at = "send"
                           /\ begun(mem).mem = mem /\ begun(mem).todo = {}
    BY <1>1, StageFacts
  <2> QED  BY <1>2, <1>3, <2>1
<1>5. FreshOf(stateFile.results)'
  BY <1>1, <1>2, <1>3 DEF FreshOf, RunInv, CollectsInv
<1>6. PolicyInv'
  BY <1>2, <1>3 DEF PolicyInv, AppliedIsInForce
<1>7. CollectsInv'
  BY <1>2, <1>3, <1>5 DEF CollectsInv, CollectedAfterAsked, Given
<1>8. RunInv(r)'
  BY <1>3, <1>4, <1>5, RunSends
<1>9. \A s \in Runs \ {r} : run[s].stage = "off" /\ ~Syncing(s) /\ RunInv(s)'
  BY <1>2, OthersOff
<1>10. CountInv'
  <2>1. \A c \in Commands : Known(c) => Known(c)'
    BY <1>2, <1>3, <1>9 DEF Known, Syncing
  <2> QED  BY <1>1, <1>2, <2>1, CountStays
<1> QED  BY <1>6, <1>7, <1>8, <1>9, <1>10

(* A run that is killed forgets what it did not save. *)
LEMMA KillRunKeeps ==
  ASSUME DevTyped, DevInv, NoOverlap, NEW r \in Runs, KillRun(r)
  PROVE  DevInv'
<1> USE DEF DevInv
<1>1. DevTypeOK
  BY DEF DevTyped
<1>2. /\ run[r].stage # "off" /\ run'[r] = NoRun /\ \A s \in Runs \ {r} : run'[s] = run[s]
      /\ UNCHANGED <<policy, shown, command, admin, stateFile, executed>>
  BY <1>1, RunFacts DEF KillRun
<1>3. faults.kills \in Nat /\ faults'.kills = faults.kills + 1
  BY <1>1, DeviceAssumption DEF DevTypeOK, KillRun
<1>4. PolicyInv' /\ CollectsInv'
  BY <1>2 DEF PolicyInv, AppliedIsInForce, CollectsInv, CollectedAfterAsked, Given, FreshOf
<1>5. RunInv(r)'
  <2>1. \A c \in stateFile'.collects : c \in Commands /\ Given(c)
    BY <1>1, <1>2 DEF CollectsInv, DevTypeOK, Files, Commands
  <2> QED  BY <1>1, <1>2, <2>1, RunGoesOn
<1>6. \A s \in Runs \ {r} : RunInv(s)'
  BY <1>2, OthersOff
<1>7. CountInv'
  <2>1. executed \in [Commands -> Nat]
    BY <1>1 DEF DevTypeOK
  <2> QED  BY <1>2, <1>3, <2>1 DEF CountInv
<1> QED  BY <1>4, <1>5, <1>6, <1>7

(* The invariant holds at first ... *)
LEMMA DevInvInit == DevInit => DevInv
<1> SUFFICES ASSUME DevInit  PROVE DevInv
  OBVIOUS
<1> USE DEF DevInit
<1>1. /\ \A c \in Commands : executed[c] = 0 /\ command[c].status = "none"
      /\ \A r \in Runs : run[r].stage = "off" /\ run[r].at = "send"
      /\ stateFile.collects = {} /\ stateFile.results = {} /\ stateFile.gen = 0 /\ stateFile.mode = "off"
      /\ policy.gen = 0 /\ policy.mode = "off" /\ shown.gen = 0 /\ shown.mode = "off"
      /\ admin = 0 /\ faults.kills = 0
  BY DEF NoRun, EmptyFile
<1> QED  BY <1>1 DEF DevInv, PolicyInv, AppliedIsInForce, CollectsInv, CollectedAfterAsked, FreshOf,
                     CountInv, RunInv, Syncing, Unsaved, Commands

(* ... and every step keeps it while runs do not overlap. *)
LEMMA DevInvNext == DevTyped /\ DevInv /\ NoOverlap /\ [DevNext]_devVars => DevInv'
<1> SUFFICES ASSUME DevTyped, DevInv, NoOverlap, [DevNext]_devVars  PROVE DevInv'
  OBVIOUS
<1>1. CASE UNCHANGED devVars
  BY <1>1 DEF devVars, DevInv, PolicyInv, AppliedIsInForce, CollectsInv, CollectedAfterAsked, FreshOf,
              CountInv, Known, RunInv, Syncing, Unsaved, Given
<1>2. CASE \/ ReadPolicy \/ \E mode \in Modes : WritePolicy(mode)
           \/ \E c \in Commands : EnqueueCommand(c) \/ EndLease(c) \/ GrowOld(c)
  BY <1>2, WebKeeps
<1>3. ASSUME NEW r \in Runs, RunStep(r)  PROVE DevInv'
  <2>1. CASE BeginRun(r)
    BY <2>1, BeginRunKeeps
  <2>2. CASE SyncRun(r)
    BY <2>2, SyncRunKeeps
  <2>3. CASE SaveCommand(r)
    BY <2>3, SaveCommandKeeps
  <2>4. CASE FinishSync(r)
    BY <2>4, FinishSyncKeeps
  <2>5. CASE \E c \in Commands, ok \in BOOLEAN : ExecuteCommand(r, c, ok)
    BY <2>5, ExecuteCommandKeeps
  <2>6. CASE \E ok \in BOOLEAN : FinishCollect(r, ok)
    BY <2>6, FinishCollectKeeps
  <2> QED  BY <1>3, <2>1, <2>2, <2>3, <2>4, <2>5, <2>6 DEF RunStep
<1>4. ASSUME NEW r \in Runs, KillRun(r)  PROVE DevInv'
  BY <1>4, KillRunKeeps
<1>5. ASSUME NEW r \in Runs, NEW answered \in BOOLEAN, LoseSync(r, answered)  PROVE DevInv'
  BY <1>5, LoseSyncKeeps
<1>6. CASE DevNext
  BY <1>2, <1>3, <1>4, <1>5, <1>6 DEF DevNext
<1> QED  BY <1>1, <1>6

(* ... so that it always holds for such runs. *)
LEMMA DevInvAlways == DevSpec /\ []NoOverlap => []DevInv
<1>1. DevTyped /\ DevInv /\ NoOverlap /\ [DevNext]_devVars => DevInv'
  BY DevInvNext
<1> QED  BY <1>1, DevInvInit, DevTypedAlways, PTL DEF DevSpec

(* While no two runs of the shim are under way at once, a policy that the  *)
(* settings page shows as applied is the one that the state file holds,    *)
(* whatever is lost, killed or changed in between (sync_once, the sync     *)
(* transaction of device-control-repository.ts).                           *)
THEOREM AppliedAlwaysInForce == DevSpec /\ []NoOverlap => []AppliedIsInForce
<1>1. DevInv => AppliedIsInForce
  BY DEF DevInv, PolicyInv
<1> QED  BY <1>1, DevInvAlways, PTL

(* While no two runs are under way at once, a collect command ends with a  *)
(* collection that began after it was given (complete_collect).            *)
THEOREM CollectsAlwaysFresh == DevSpec /\ []NoOverlap => []CollectedAfterAsked
<1>1. DevInv => CollectedAfterAsked
  BY DEF DevInv, CollectsInv
<1> QED  BY <1>1, DevInvAlways, PTL

(* While no two runs are under way at once, a command is executed once,    *)
(* and once more at most for each run that was killed (execute_commands).  *)
THEOREM ExecutedOnceUnlessKilled == DevSpec /\ []NoOverlap => []ExecutedOncePerKill
<1>1. DevInv /\ DevTyped => ExecutedOncePerKill
  <2> SUFFICES ASSUME DevInv, DevTyped, NEW c \in Commands  PROVE executed[c] <= 1 + faults.kills
    BY DEF ExecutedOncePerKill
  <2>1. executed[c] \in Nat /\ faults.kills \in Nat /\ executed[c] <= faults.kills + 1
    BY DeviceAssumption DEF DevInv, CountInv, DevTyped, DevTypeOK
  <2> QED  BY <2>1
<1> QED  BY <1>1, DevInvAlways, DevTypedAlways, PTL

-----------------------------------------------------------------------------
(* The deployment of a tool.                                               *)

Policy == [version : 0 .. MaxVersions, lkg : 0 .. MaxVersions, phase : Phases,
           percent : {0, 10, 50, 100}, rollout : 0 .. MaxDeploys, enabled : BOOLEAN]
ReportRows == [version : 0 .. MaxVersions, rollout : 0 .. MaxDeploys, status : Statuses,
               since : {"before", "phase", "tick"}]
Reconciles == [pc : {"idle", "flushed", "fetched", "applied", "saved"}, body : Manifests,
               version : 0 .. MaxVersions, status : Statuses]
Spents == [deploys : 0 .. MaxDeploys, choices : 0 .. MaxChoices,
           mishaps : 0 .. MaxMishaps, kills : 0 .. MaxMishaps]

(* The manifest of a device names a version and a rollout that there are. *)
LEMMA ManifestTyped == ASSUME ToolTypeOK, NEW d \in ToolDevices  PROVE Manifest(d) \in Manifests
<1>1. Empty \in Manifests
  BY ToolAssumption DEF Empty, Manifests, NoTool
<1>2. preference[d] \notin {OptedOut, 0} => [version |-> preference[d], rollout |-> 0] \in Manifests
  BY ToolAssumption DEF ToolTypeOK, Manifests
<1>3. [version |-> teamPolicy.version, rollout |-> teamPolicy.rollout] \in Manifests
  BY DEF ToolTypeOK, Manifests
<1> QED  BY <1>1, <1>2, <1>3 DEF Manifest

(* A phase that begins or a tick that ends changes the age of the reports. *)
LEMMA AgedTyped ==
  ASSUME ToolTypeOK
  PROVE  \A new \in {NewPhase, PhaseOfTick, TickOver} :
           /\ new \in [ToolDevices -> ReportRows]
           /\ \A d \in ToolDevices : new[d].since # "tick"
<1> DEFINE Kinds == {"before", "phase", "tick"}
<1>1. ASSUME NEW since \in [Kinds -> {"before", "phase"}]
      PROVE  /\ Aged(since) \in [ToolDevices -> ReportRows]
             /\ \A d \in ToolDevices : Aged(since)[d].since # "tick"
  <2> DEFINE n(d) == [reports[d] EXCEPT !.since = since[@]]
  <2>1. ASSUME NEW d \in ToolDevices  PROVE n(d) \in ReportRows /\ n(d).since # "tick"
    <3>1. reports[d] \in ReportRows /\ reports[d].since \in Kinds
      BY DEF ToolTypeOK, ReportRows
    <3>2. since[reports[d].since] \in {"before", "phase"}
      BY <3>1
    <3> QED  BY <3>1, <3>2 DEF ReportRows
  <2>2. Aged(since) = [d \in ToolDevices |-> n(d)]
    BY DEF Aged
  <2> HIDE DEF n
  <2> QED  BY <2>1, <2>2
<1>2. /\ [before |-> "before", phase |-> "before", tick |-> "before"] \in [Kinds -> {"before", "phase"}]
      /\ [before |-> "before", phase |-> "before", tick |-> "phase"] \in [Kinds -> {"before", "phase"}]
      /\ [before |-> "before", phase |-> "phase", tick |-> "phase"] \in [Kinds -> {"before", "phase"}]
  OBVIOUS
<1> QED  BY <1>1, <1>2 DEF NewPhase, PhaseOfTick, TickOver

(* One bound is used up. *)
LEMMA SpendTyped ==
  ASSUME ToolTypeOK
  PROVE  /\ spent.deploys < MaxDeploys /\ Spend("deploys") => spent' \in Spents
         /\ spent.choices < MaxChoices /\ Spend("choices") => spent' \in Spents
         /\ MishapsLeft /\ Spend("mishaps") => spent' \in Spents
         /\ MishapsLeft /\ Spend("kills") => spent' \in Spents
<1>1. spent \in Spents
  BY DEF ToolTypeOK, Spents
<1> QED  BY <1>1, ToolAssumption DEF Spents, Spend, MishapsLeft

(* What a post leaves of the queue and of the reports. *)
LEMMA PostedTyped ==
  ASSUME ToolTypeOK, NEW d \in ToolDevices, NEW queue \in SUBSET QueuedReports,
         NEW left, Posted(d, queue, left)
  PROVE  /\ unsent' \in [ToolDevices -> SUBSET QueuedReports]
         /\ spent' \in Spents
         /\ reports' \in [ToolDevices -> ReportRows]
         /\ \A e \in ToolDevices : decision = "none" => reports'[e].since # "tick"
<1>1. left \in SUBSET QueuedReports
  BY DEF Posted
<1>2. unsent' \in [ToolDevices -> SUBSET QueuedReports]
  BY <1>1 DEF Posted, ToolTypeOK
<1>3. spent' \in Spents
  <2> DEFINE n == [spent EXCEPT !.mishaps = @ + 1]
  <2>1. spent' = spent \/ (MishapsLeft /\ spent' = n)
    BY DEF Posted
  <2>2. MishapsLeft => n \in Spents
    <3> HAVE MishapsLeft
    <3>1. spent \in Spents /\ MaxMishaps \in Nat
      BY ToolAssumption DEF ToolTypeOK, ToolAssumption, Spents
    <3>2. spent.mishaps + 1 \in 0 .. MaxMishaps
      BY <3>1 DEF MishapsLeft, Spents
    <3> QED  BY ONLY <3>1, <3>2 DEF Spents
  <2>3. spent \in Spents
    BY DEF ToolTypeOK, Spents
  <2> HIDE DEF n
  <2> QED  BY <2>1, <2>2, <2>3
<1>4. reports' = reports \/ \E r \in queue : reports' = Store(d, r)
  BY DEF Posted
<1>5. ASSUME NEW r \in QueuedReports
      PROVE  /\ Store(d, r) \in [ToolDevices -> ReportRows]
             /\ \A e \in ToolDevices : decision = "none" => Store(d, r)[e].since # "tick"
  <2> DEFINE n == [version |-> r.version, rollout |-> r.rollout, status |-> r.status,
                   since |-> IF decision = "none" THEN "phase" ELSE "tick"]
  <2>1. n \in ReportRows /\ (decision = "none" => n.since = "phase")
    BY DEF QueuedReports, ReportRows
  <2>2. Store(d, r) = [reports EXCEPT ![d] = n]
    BY DEF Store
  <2>3. reports \in [ToolDevices -> ReportRows]
        /\ \A e \in ToolDevices : decision = "none" => reports[e].since # "tick"
    BY DEF ToolTypeOK, ReportRows
  <2> HIDE DEF n
  <2> QED  BY <2>1, <2>2, <2>3
<1>6. reports \in [ToolDevices -> ReportRows]
      /\ \A e \in ToolDevices : decision = "none" => reports[e].since # "tick"
  BY DEF ToolTypeOK, ReportRows
<1> QED  BY <1>2, <1>3, <1>4, <1>5, <1>6

(* A run that applied its manifest. *)
LEMMA EndedFacts ==
  ASSUME ToolTypeOK, NEW d \in ToolDevices, NEW version \in 0 .. MaxVersions, NEW status \in Statuses,
         Ended(d, version, status)
  PROVE  /\ reconcile' \in [ToolDevices -> Reconciles]
         /\ reconcile'[d].pc = "applied" /\ reconcile'[d].version = version
         /\ \A e \in ToolDevices \ {d} : reconcile'[e] = reconcile[e]
<1> DEFINE n == [reconcile[d] EXCEPT !.pc = "applied", !.version = version, !.status = status]
<1>1. reconcile \in [ToolDevices -> Reconciles]
  BY DEF ToolTypeOK, Reconciles
<1>2. n \in Reconciles /\ n.pc = "applied" /\ n.version = version
  BY <1>1 DEF Reconciles
<1>3. reconcile' = [reconcile EXCEPT ![d] = n]
  BY <1>1 DEF Ended
<1> HIDE DEF n
<1> QED  BY <1>1, <1>2, <1>3

(* The other steps of a run on a device. *)
LEMMA ReconcileFacts ==
  ASSUME ToolTypeOK, NEW d \in ToolDevices,
         \/ FetchManifest(d) \/ FetchNothing(d) \/ SaveManagedState(d) \/ KillReconcile(d)
         \/ \E left : FlushReports(d, left) \/ Report(d, left)
  PROVE  /\ reconcile' \in [ToolDevices -> Reconciles]
         /\ reconcile'[d].pc # "applied"
         /\ \A e \in ToolDevices \ {d} : reconcile'[e] = reconcile[e]
         /\ UNCHANGED installed
<1>1. reconcile \in [ToolDevices -> Reconciles] /\ Manifest(d) \in Manifests
  BY ManifestTyped DEF ToolTypeOK, Reconciles
<1>2. AtRest \in Reconciles /\ AtRest.pc = "idle"
  BY ToolAssumption DEF AtRest, Reconciles, Empty, Manifests, NoTool, Statuses
<1> DEFINE flushed == [reconcile[d] EXCEPT !.pc = "flushed"]
           fetched == [AtRest EXCEPT !.pc = "fetched", !.body = Manifest(d)]
           saved == [reconcile[d] EXCEPT !.pc = "saved"]
<1>3. /\ flushed \in Reconciles /\ flushed.pc = "flushed" /\ saved \in Reconciles /\ saved.pc = "saved"
      /\ fetched \in Reconciles /\ fetched.pc = "fetched"
  BY <1>1, <1>2 DEF Reconciles
<1>4. \E n \in {AtRest, flushed, fetched, saved} : reconcile' = [reconcile EXCEPT ![d] = n]
  <2>1. CASE FetchManifest(d) \/ FetchNothing(d) \/ KillReconcile(d)
    BY <2>1 DEF FetchManifest, FetchNothing, KillReconcile
  <2>2. CASE SaveManagedState(d)
    BY <1>1, <2>2 DEF SaveManagedState
  <2>3. CASE \E left : FlushReports(d, left) \/ Report(d, left)
    BY <1>1, <2>3 DEF FlushReports, Report
  <2> QED  BY <2>1, <2>2, <2>3
<1>5. UNCHANGED installed
  BY DEF FetchManifest, FetchNothing, SaveManagedState, KillReconcile, FlushReports, Report
<1> HIDE DEF flushed, fetched, saved
<1>6. ASSUME NEW n \in Reconciles, n.pc # "applied", reconcile' = [reconcile EXCEPT ![d] = n]
      PROVE  /\ reconcile' \in [ToolDevices -> Reconciles]
             /\ reconcile'[d].pc # "applied"
             /\ \A e \in ToolDevices \ {d} : reconcile'[e] = reconcile[e]
  BY <1>1, <1>6
<1> QED  BY <1>2, <1>3, <1>4, <1>5, <1>6

(* What applying a manifest does to the directory of the tool. *)
LEMMA ApplyItemsFacts ==
  ASSUME ToolTypeOK, NEW d \in ToolDevices, ApplyItems(d)
  PROVE  /\ reconcile' \in [ToolDevices -> Reconciles]
         /\ installed' \in [ToolDevices -> {OwnTool} \cup (0 .. MaxVersions)]
         /\ spent' \in Spents
         /\ \A e \in ToolDevices \ {d} : reconcile'[e] = reconcile[e] /\ installed'[e] = installed[e]
         /\ reconcile[d].pc = "fetched" /\ reconcile'[d].pc = "applied"
         /\ \/ installed' = installed /\ reconcile'[d].version = managed[d]
            \/ managed[d] # NoTool /\ installed'[d] = NoTool /\ reconcile'[d].version = NoTool
            \/ /\ ~Conflict(d) /\ installed'[d] # NoTool
               /\ installed'[d] = reconcile'[d].version
<1> DEFINE wanted == reconcile[d].body.version
<1>1. /\ wanted \in 0 .. MaxVersions /\ managed[d] \in 0 .. MaxVersions
      /\ installed \in [ToolDevices -> {OwnTool} \cup (0 .. MaxVersions)] /\ spent \in Spents
      /\ NoTool \in 0 .. MaxVersions /\ NoTool \in {OwnTool} \cup (0 .. MaxVersions)
  BY ToolAssumption DEF ToolTypeOK, Manifests, Spents, NoTool
<1>2. {"none", "installed", "conflict", "failed"} \subseteq Statuses
  BY DEF Statuses
<1>3. /\ reconcile[d].pc = "fetched"
      /\ \/ /\ wanted = managed[d] /\ UNCHANGED << installed, spent >>
            /\ \E status \in Statuses : Ended(d, wanted, status)
         \/ /\ managed[d] # NoTool /\ installed' = [installed EXCEPT ![d] = NoTool]
            /\ Ended(d, NoTool, "none") /\ UNCHANGED spent
         \/ Ended(d, managed[d], "conflict") /\ UNCHANGED << installed, spent >>
         \/ /\ wanted \notin {NoTool, managed[d]} /\ ~ Conflict(d)
            /\ installed' = [installed EXCEPT ![d] = wanted]
            /\ Ended(d, wanted, "installed") /\ UNCHANGED spent
         \/ MishapsLeft /\ Spend("mishaps") /\ Ended(d, managed[d], "failed") /\ UNCHANGED installed
  <2>1. (IF wanted = NoTool THEN "none" ELSE "installed") \in Statuses
    BY <1>2
  <2> QED  BY <2>1 DEF ApplyItems
<1> HIDE DEF wanted
<1>4. CASE /\ wanted = managed[d] /\ UNCHANGED << installed, spent >>
           /\ \E status \in Statuses : Ended(d, wanted, status)
  BY <1>1, <1>3, <1>4, EndedFacts
<1>5. CASE /\ managed[d] # NoTool /\ installed' = [installed EXCEPT ![d] = NoTool]
           /\ Ended(d, NoTool, "none") /\ UNCHANGED spent
  BY <1>1, <1>2, <1>3, <1>5, EndedFacts
<1>6. CASE Ended(d, managed[d], "conflict") /\ UNCHANGED << installed, spent >>
  BY <1>1, <1>2, <1>3, <1>6, EndedFacts
<1>7. CASE /\ wanted \notin {NoTool, managed[d]} /\ ~ Conflict(d)
           /\ installed' = [installed EXCEPT ![d] = wanted]
           /\ Ended(d, wanted, "installed") /\ UNCHANGED spent
  BY <1>1, <1>2, <1>3, <1>7, EndedFacts
<1>8. CASE MishapsLeft /\ Spend("mishaps") /\ Ended(d, managed[d], "failed") /\ UNCHANGED installed
  BY <1>1, <1>2, <1>3, <1>8, EndedFacts, SpendTyped
<1> QED  BY <1>3, <1>4, <1>5, <1>6, <1>7, <1>8

(* The types hold at first ... *)
LEMMA ToolTypedInit == ToolInit => ToolTypeOK
<1> SUFFICES ASSUME ToolInit  PROVE ToolTypeOK
  OBVIOUS
<1>1. NoReport \in ReportRows /\ AtRest \in Reconciles /\ NoTag \in Manifests \cup {NoTag}
      /\ NoReport.since = "before"
  BY ToolAssumption DEF NoReport, ReportRows, AtRest, Reconciles, Empty, Manifests, NoTool, Statuses
<1>2. /\ teamPolicy \in Policy /\ spent \in Spents /\ 0 \in 0 .. MaxVersions /\ NoTool = 0
  BY ToolAssumption DEF ToolInit, Policy, Spents, Phases, NoTool
<1>3. /\ reports \in [ToolDevices -> ReportRows] /\ reconcile \in [ToolDevices -> Reconciles]
      /\ etag \in [ToolDevices -> Manifests \cup {NoTag}]
      /\ \A d \in ToolDevices : reports[d].since # "tick"
  BY <1>1 DEF ToolInit
<1> QED  BY <1>2, <1>3 DEF ToolInit, ToolTypeOK, Policy, Spents, ReportRows, Reconciles

(* ... every step keeps them ... *)
LEMMA ToolTypedNext == ToolTypeOK /\ [ToolNext]_toolVars => ToolTypeOK'
<1> SUFFICES ASSUME ToolTypeOK, [ToolNext]_toolVars  PROVE ToolTypeOK'
  OBVIOUS
<1> DEFINE Decisions == {"none", "canary", "expand", "active", "rollback"}
           Server == teamPolicy \in Policy /\ cohort \in Cohorts /\ dwelt \in BOOLEAN
                     /\ decision \in Decisions
           Reported == /\ reports \in [ToolDevices -> ReportRows]
                       /\ \A d \in ToolDevices : decision = "none" => reports[d].since # "tick"
           Preferred == preference \in [ToolDevices -> {OptedOut} \cup (0 .. MaxVersions)]
           Kept == /\ installed \in [ToolDevices -> {OwnTool} \cup (0 .. MaxVersions)]
                   /\ managed \in [ToolDevices -> 0 .. MaxVersions]
                   /\ etag \in [ToolDevices -> Manifests \cup {NoTag}]
           Running == /\ reconcile \in [ToolDevices -> Reconciles]
                      /\ unsent \in [ToolDevices -> SUBSET QueuedReports]
<1>1. ToolTypeOK <=> Server /\ Reported /\ Preferred /\ Kept /\ Running /\ spent \in Spents
  BY DEF ToolTypeOK, Policy, ReportRows, Reconciles, Spents
<1>2. (Server /\ Reported /\ Preferred /\ Kept /\ Running /\ spent \in Spents)' => ToolTypeOK'
  BY DEF ToolTypeOK, Policy, ReportRows, Reconciles, Spents
<1>3. Server /\ Reported /\ Preferred /\ Kept /\ Running /\ spent \in Spents
  BY <1>1
<1>4. UNCHANGED serverVars => Server'
  BY <1>3 DEF serverVars
<1>5. UNCHANGED deviceVars => Preferred' /\ Kept' /\ Running'
  BY <1>3 DEF deviceVars
<1>6. CASE UNCHANGED toolVars
  BY <1>2, <1>3, <1>6 DEF toolVars
<1>7. ASSUME NEW v \in Versions, NEW approval \in BOOLEAN, SaveTeamPolicy(v, approval)
      PROVE  ToolTypeOK'
  <2> DEFINE phase == IF approval THEN "paused" ELSE "preflight"
             rollout == spent.deploys + 1
             n == [teamPolicy EXCEPT !.version = v, !.percent = 0, !.enabled = TRUE,
                                     !.phase = phase, !.rollout = rollout]
  <2>1. /\ spent.deploys < MaxDeploys /\ teamPolicy' = n /\ cohort' \in Cohorts /\ dwelt' = FALSE
        /\ reports' = NewPhase /\ Spend("deploys") /\ UNCHANGED decision /\ UNCHANGED deviceVars
    BY <1>7 DEF SaveTeamPolicy
  <2>2. n \in Policy
    <3>1. v \in 0 .. MaxVersions /\ phase \in Phases /\ rollout \in 0 .. MaxDeploys
      BY <1>3, <2>1, ToolAssumption DEF Versions, Spents, Phases
    <3> HIDE DEF phase, rollout
    <3> QED  BY <1>3, <3>1 DEF Policy
  <2> HIDE DEF n
  <2>3. spent' \in Spents /\ Reported'
    BY <2>1, SpendTyped, AgedTyped
  <2>4. Server'
    BY <1>3, <2>1, <2>2
  <2> HIDE DEF Server, Reported, Preferred, Kept, Running
  <2> QED  BY <1>2, <1>5, <2>1, <2>3, <2>4
<1>8. CASE ApproveTeamRollout
  <2> DEFINE n == [teamPolicy EXCEPT !.phase = "canary", !.percent = 10]
  <2>1. /\ teamPolicy' = n /\ dwelt' = FALSE /\ reports' = NewPhase
        /\ UNCHANGED cohort /\ UNCHANGED decision /\ UNCHANGED deviceVars /\ UNCHANGED spent
    BY <1>8 DEF ApproveTeamRollout
  <2>2. n \in Policy
    BY <1>3 DEF Policy, Phases
  <2> HIDE DEF n
  <2>3. Reported'
    BY <2>1, AgedTyped
  <2>4. Server' /\ spent' \in Spents
    BY <1>3, <2>1, <2>2
  <2> HIDE DEF Server, Reported, Preferred, Kept, Running
  <2> QED  BY <1>2, <1>5, <2>1, <2>3, <2>4
<1>9. CASE Dwell
  <2>1. dwelt' = TRUE /\ UNCHANGED << teamPolicy, cohort, decision, reports, spent >>
        /\ UNCHANGED deviceVars
    BY <1>9 DEF Dwell
  <2>2. Server' /\ Reported' /\ spent' \in Spents
    BY <1>3, <2>1
  <2> HIDE DEF Server, Reported, Preferred, Kept, Running
  <2> QED  BY <1>2, <1>5, <2>1, <2>2
<1>10. CASE ListOpenRollouts
  <2>1. decision = "none" /\ decision' \in Decisions
        /\ UNCHANGED << teamPolicy, cohort, dwelt, reports, spent >> /\ UNCHANGED deviceVars
    BY <1>10 DEF ListOpenRollouts, EvaluateRollout
  <2>2. Server' /\ Reported' /\ spent' \in Spents
    BY <1>3, <2>1
  <2> HIDE DEF Server, Reported, Preferred, Kept, Running
  <2> QED  BY <1>2, <1>5, <2>1, <2>2
<1>11. ASSUME NEW p \in Policy, teamPolicy' = p \/ teamPolicy' = teamPolicy,
              dwelt' = FALSE \/ dwelt' = dwelt, decision' = "none",
              reports' = PhaseOfTick \/ reports' = TickOver,
              UNCHANGED cohort, UNCHANGED deviceVars, UNCHANGED spent
       PROVE  ToolTypeOK'
  <2>1. Reported'
    BY <1>11, AgedTyped
  <2>2. Server' /\ spent' \in Spents
    BY <1>3, <1>11
  <2> HIDE DEF Server, Reported, Preferred, Kept, Running
  <2> QED  BY <1>2, <1>5, <1>11, <2>1, <2>2
<1>12. CASE AdvanceRollout
  <2> DEFINE n == [teamPolicy EXCEPT
                     !.phase = decision, !.percent = Percent[decision],
                     !.lkg = IF decision = "active" THEN teamPolicy.version ELSE @]
  <2>1. /\ decision \in {"canary", "expand", "active"} /\ decision' = "none"
        /\ teamPolicy' = n \/ teamPolicy' = teamPolicy
        /\ dwelt' = FALSE \/ dwelt' = dwelt
        /\ reports' = PhaseOfTick \/ reports' = TickOver
        /\ UNCHANGED cohort /\ UNCHANGED deviceVars /\ UNCHANGED spent
    BY <1>12 DEF AdvanceRollout
  <2>2. Percent[decision] \in {0, 10, 50, 100}
    BY <2>1 DEF Percent
  <2>3. n \in Policy
    BY <1>3, <2>1, <2>2 DEF Policy, Phases
  <2> HIDE DEF n
  <2> QED  BY <1>11, <2>1, <2>3
<1>13. CASE RollbackToLastKnownGood
  <2>1. RolledBack \in Policy
    <3> DEFINE paused == [teamPolicy EXCEPT !.phase = "paused", !.percent = 0, !.enabled = FALSE]
               back == [teamPolicy EXCEPT !.phase = "rollback", !.percent = 100,
                                          !.version = teamPolicy.lkg]
    <3>1. paused \in Policy /\ back \in Policy
      BY <1>3 DEF Policy, Phases
    <3>2. RolledBack = (IF teamPolicy.lkg = NoTool THEN paused ELSE back)
      BY DEF RolledBack
    <3> HIDE DEF paused, back
    <3> QED  BY <3>1, <3>2
  <2>2. /\ decision' = "none"
        /\ teamPolicy' = RolledBack \/ teamPolicy' = teamPolicy
        /\ dwelt' = FALSE \/ dwelt' = dwelt
        /\ reports' = PhaseOfTick \/ reports' = TickOver
        /\ UNCHANGED cohort /\ UNCHANGED deviceVars /\ UNCHANGED spent
    BY <1>13 DEF RollbackToLastKnownGood
  <2> QED  BY <1>11, <2>1, <2>2
<1>14. ASSUME NEW d \in ToolDevices, NEW p \in Versions \cup {OptedOut}, SavePersonalPreference(d, p)
       PROVE  ToolTypeOK'
  <2>1. /\ spent.choices < MaxChoices /\ Spend("choices") /\ preference' = [preference EXCEPT ![d] = p]
        /\ UNCHANGED serverVars /\ UNCHANGED << reports, installed, managed, etag, reconcile, unsent >>
        /\ decision' = decision
    BY <1>14 DEF SavePersonalPreference, serverVars
  <2>2. Preferred' /\ Kept' /\ Running' /\ Reported'
    BY <1>3, <2>1 DEF Versions
  <2>3. spent' \in Spents
    BY <2>1, SpendTyped
  <2> HIDE DEF Server, Reported, Preferred, Kept, Running
  <2> QED  BY <1>2, <1>4, <2>1, <2>2, <2>3
<1>15. ASSUME NEW d \in ToolDevices, WriteOwnTool(d)  PROVE ToolTypeOK'
  <2>1. /\ spent.choices < MaxChoices /\ Spend("choices") /\ installed' = [installed EXCEPT ![d] = OwnTool]
        /\ UNCHANGED serverVars /\ UNCHANGED << reports, preference, managed, etag, reconcile, unsent >>
        /\ decision' = decision
    BY <1>15 DEF WriteOwnTool, serverVars
  <2>2. Preferred' /\ Kept' /\ Running' /\ Reported'
    BY <1>3, <2>1
  <2>3. spent' \in Spents
    BY <2>1, SpendTyped
  <2> HIDE DEF Server, Reported, Preferred, Kept, Running
  <2> QED  BY <1>2, <1>4, <2>1, <2>2, <2>3
<1>16. ASSUME NEW d \in ToolDevices, FetchManifest(d) \/ FetchNothing(d)
       PROVE  ToolTypeOK'
  <2>1. reconcile' \in [ToolDevices -> Reconciles]
    BY <1>16, ReconcileFacts
  <2>2. UNCHANGED serverVars /\ UNCHANGED << reports, preference, installed, managed, etag, unsent, spent >>
        /\ decision' = decision
    BY <1>16 DEF FetchManifest, FetchNothing, serverVars
  <2>3. Preferred' /\ Kept' /\ Running' /\ Reported' /\ spent' \in Spents
    BY <1>3, <2>1, <2>2
  <2> HIDE DEF Server, Reported, Preferred, Kept, Running
  <2> QED  BY <1>2, <1>4, <2>2, <2>3
<1>17. ASSUME NEW d \in ToolDevices, KillReconcile(d)  PROVE ToolTypeOK'
  <2>1. reconcile' \in [ToolDevices -> Reconciles]
    BY <1>17, ReconcileFacts
  <2>2. UNCHANGED serverVars /\ UNCHANGED << reports, preference, installed, managed, etag, unsent >>
        /\ decision' = decision /\ MishapsLeft /\ Spend("kills")
    BY <1>17 DEF KillReconcile, serverVars
  <2>3. Preferred' /\ Kept' /\ Running' /\ Reported' /\ spent' \in Spents
    BY <1>3, <2>1, <2>2, SpendTyped
  <2> HIDE DEF Server, Reported, Preferred, Kept, Running
  <2> QED  BY <1>2, <1>4, <2>2, <2>3
<1>18. ASSUME NEW d \in ToolDevices, SaveManagedState(d)  PROVE ToolTypeOK'
  <2>1. reconcile' \in [ToolDevices -> Reconciles]
    BY <1>18, ReconcileFacts
  <2>2. UNCHANGED serverVars /\ UNCHANGED << reports, preference, installed, etag, unsent, spent >>
        /\ decision' = decision /\ managed' = [managed EXCEPT ![d] = reconcile[d].version]
    BY <1>18 DEF SaveManagedState, serverVars
  <2>3. reconcile[d].version \in 0 .. MaxVersions
    BY <1>3 DEF Reconciles
  <2>4. Preferred' /\ Kept' /\ Running' /\ Reported' /\ spent' \in Spents
    BY <1>3, <2>1, <2>2, <2>3
  <2> HIDE DEF Server, Reported, Preferred, Kept, Running
  <2> QED  BY <1>2, <1>4, <2>2, <2>4
<1>19. ASSUME NEW d \in ToolDevices, ApplyItems(d)  PROVE ToolTypeOK'
  <2>1. reconcile' \in [ToolDevices -> Reconciles] /\ spent' \in Spents
        /\ installed' \in [ToolDevices -> {OwnTool} \cup (0 .. MaxVersions)]
    BY <1>19, ApplyItemsFacts
  <2>2. UNCHANGED serverVars /\ UNCHANGED << reports, preference, managed, etag, unsent >>
        /\ decision' = decision
    BY <1>19 DEF ApplyItems, serverVars
  <2>3. Preferred' /\ Kept' /\ Running' /\ Reported'
    BY <1>3, <2>1, <2>2
  <2> HIDE DEF Server, Reported, Preferred, Kept, Running
  <2> QED  BY <1>2, <1>4, <2>1, <2>2, <2>3
<1>20. ASSUME NEW d \in ToolDevices, NEW left, FlushReports(d, left) \/ Report(d, left)
       PROVE  ToolTypeOK'
  <2> DEFINE body == reconcile[d].body
             mine == [version |-> body.version, rollout |-> body.rollout, status |-> reconcile[d].status]
             kept == {r \in unsent[d] : << r.version, r.rollout >> # << body.version, body.rollout >>}
             queue == IF body.version = NoTool THEN unsent[d] ELSE kept \cup {mine}
  <2>1. reconcile' \in [ToolDevices -> Reconciles]
    BY <1>20, ReconcileFacts
  <2>2. body \in Manifests /\ mine \in QueuedReports /\ unsent[d] \in SUBSET QueuedReports
    BY <1>3 DEF Reconciles, Manifests, QueuedReports
  <2>3. queue \in SUBSET QueuedReports
    BY <2>2
  <2>4. /\ Posted(d, unsent[d], left) \/ Posted(d, queue, left)
        /\ etag' = etag \/ etag' = [etag EXCEPT ![d] = body]
        /\ UNCHANGED serverVars /\ UNCHANGED << preference, installed, managed >>
        /\ decision' = decision
    BY <1>20 DEF FlushReports, Report, serverVars
  <2> HIDE DEF body, queue
  <2>5. /\ unsent' \in [ToolDevices -> SUBSET QueuedReports] /\ spent' \in Spents
        /\ reports' \in [ToolDevices -> ReportRows]
        /\ \A e \in ToolDevices : decision = "none" => reports'[e].since # "tick"
    BY <2>2, <2>3, <2>4, PostedTyped
  <2>6. Preferred' /\ Kept' /\ Running' /\ Reported'
    BY <1>3, <2>1, <2>2, <2>4, <2>5
  <2> HIDE DEF Server, Reported, Preferred, Kept, Running
  <2> QED  BY <1>2, <1>4, <2>4, <2>5, <2>6
<1>21. CASE ToolNext
  BY <1>7, <1>8, <1>9, <1>10, <1>12, <1>13, <1>14, <1>15, <1>16, <1>17, <1>18, <1>19, <1>20, <1>21
     DEF ToolNext, ToolStep
<1> QED  BY <1>6, <1>21

(* The rows, the files and the runs of the deployment of a tool have the   *)
(* types that the code gives them (tool-deployment-repository.ts,          *)
(* reconcile.rs, state.rs).                                                *)
THEOREM ToolTyped == ToolSpec => []ToolTypeOK
<1> QED  BY ToolTypedInit, ToolTypedNext, PTL DEF ToolSpec

(* No run is killed between a change of the directory and the save of the  *)
(* managed state.                                                          *)
NotBetween == \A d \in ToolDevices : ~(reconcile[d].pc = "applied" /\ KillReconcile(d))

(* What the device recorded of the tool, or is about to record. *)
Recorded(d) == IF reconcile[d].pc = "applied" THEN reconcile[d].version ELSE managed[d]

(* What is recorded is there; where nothing is, the tool is not there.     *)
RecordInv == \A d \in ToolDevices :
  /\ Recorded(d) # NoTool => installed[d] = Recorded(d)
  /\ Recorded(d) = NoTool => installed[d] \in {NoTool, OwnTool}

(* A step keeps the record true, and the directory of the user. *)
LEMMA RecordNext ==
  ASSUME ToolTypeOK, RecordInv, [ToolNext]_toolVars, [NotBetween]_toolVars
  PROVE  RecordInv' /\ \A d \in ToolDevices : installed[d] = OwnTool => installed'[d] = OwnTool
<1> DEFINE Own == \A d \in ToolDevices : installed[d] = OwnTool => installed'[d] = OwnTool
<1>1. \A d \in ToolDevices : /\ managed[d] \in 0 .. MaxVersions /\ managed[d] # OwnTool
                             /\ reconcile[d].version \in 0 .. MaxVersions /\ NoTool # OwnTool
  BY DEF ToolTypeOK, OwnTool, NoTool
<1>2. CASE UNCHANGED << installed, managed, reconcile >>
  BY <1>2 DEF RecordInv, Recorded
<1>3. ASSUME NEW d \in ToolDevices, WriteOwnTool(d)  PROVE RecordInv' /\ Own
  <2>1. installed[d] = NoTool /\ installed' = [installed EXCEPT ![d] = OwnTool]
        /\ UNCHANGED << managed, reconcile >>
    BY <1>3 DEF WriteOwnTool
  <2>2. installed \in [ToolDevices -> {OwnTool} \cup (0 .. MaxVersions)]
    BY DEF ToolTypeOK
  <2>3. installed'[d] = OwnTool /\ \A e \in ToolDevices \ {d} : installed'[e] = installed[e]
    BY <2>1, <2>2
  <2>4. \A e \in ToolDevices : Recorded(e)' = Recorded(e)
    BY <2>1 DEF Recorded
  <2>5. Recorded(d) = NoTool
    BY <2>1 DEF RecordInv
  <2> QED  BY <2>1, <2>3, <2>4, <2>5 DEF RecordInv
<1>4. ASSUME NEW d \in ToolDevices,
             \/ FetchManifest(d) \/ FetchNothing(d) \/ KillReconcile(d)
             \/ \E left : FlushReports(d, left) \/ Report(d, left)
      PROVE  RecordInv' /\ Own
  <2>1. /\ reconcile'[d].pc # "applied" /\ UNCHANGED installed
        /\ \A e \in ToolDevices \ {d} : reconcile'[e] = reconcile[e]
    BY <1>4, ReconcileFacts
  <2>2. UNCHANGED managed
    BY <1>4 DEF FetchManifest, FetchNothing, KillReconcile, FlushReports, Report
  <2>3. reconcile[d].pc # "applied"
    <3>1. CASE KillReconcile(d)
      <4>1. reconcile'[d].pc = "idle" /\ reconcile[d].pc # "idle"
        BY <3>1, <2>1 DEF KillReconcile, AtRest, ToolTypeOK
      <4>2. ~ UNCHANGED toolVars
        BY <4>1 DEF toolVars
      <4> QED  BY <3>1, <4>2 DEF NotBetween
    <3>2. CASE FetchManifest(d) \/ FetchNothing(d) \/ \E left : FlushReports(d, left) \/ Report(d, left)
      BY <3>2 DEF FetchManifest, FetchNothing, FlushReports, Report
    <3> QED  BY <1>4, <3>1, <3>2
  <2>4. \A e \in ToolDevices : Recorded(e)' = Recorded(e)
    BY <2>1, <2>2, <2>3 DEF Recorded
  <2> QED  BY <2>1, <2>4 DEF RecordInv
<1>5. ASSUME NEW d \in ToolDevices, SaveManagedState(d)  PROVE RecordInv' /\ Own
  <2>1. /\ reconcile'[d].pc # "applied" /\ UNCHANGED installed
        /\ \A e \in ToolDevices \ {d} : reconcile'[e] = reconcile[e]
    BY <1>5, ReconcileFacts
  <2>2. reconcile[d].pc = "applied" /\ managed' = [managed EXCEPT ![d] = reconcile[d].version]
    BY <1>5 DEF SaveManagedState
  <2>3. \A e \in ToolDevices : Recorded(e)' = Recorded(e)
    BY <2>1, <2>2 DEF Recorded, ToolTypeOK
  <2> QED  BY <2>1, <2>3 DEF RecordInv
<1>6. ASSUME NEW d \in ToolDevices, ApplyItems(d)  PROVE RecordInv' /\ Own
  <2>1. /\ \A e \in ToolDevices \ {d} : reconcile'[e] = reconcile[e] /\ installed'[e] = installed[e]
        /\ reconcile[d].pc = "fetched" /\ reconcile'[d].pc = "applied"
        /\ \/ installed' = installed /\ reconcile'[d].version = managed[d]
           \/ managed[d] # NoTool /\ installed'[d] = NoTool /\ reconcile'[d].version = NoTool
           \/ /\ ~Conflict(d) /\ installed'[d] # NoTool
              /\ installed'[d] = reconcile'[d].version
    BY <1>6, ApplyItemsFacts
  <2>2. UNCHANGED managed
    BY <1>6 DEF ApplyItems
  <2>3. Recorded(d) = managed[d] /\ Recorded(d)' = reconcile'[d].version
    BY <2>1 DEF Recorded
  <2>4. \A e \in ToolDevices \ {d} : Recorded(e)' = Recorded(e) /\ installed'[e] = installed[e]
    BY <2>1, <2>2 DEF Recorded
  <2>5. \/ managed[d] # NoTool /\ installed[d] = managed[d]
        \/ managed[d] = NoTool /\ installed[d] \in {NoTool, OwnTool}
    BY <2>3 DEF RecordInv
  <2>6. CASE installed' = installed /\ reconcile'[d].version = managed[d]
    BY <2>3, <2>4, <2>6 DEF RecordInv
  <2>7. CASE managed[d] # NoTool /\ installed'[d] = NoTool /\ reconcile'[d].version = NoTool
    BY <1>1, <2>3, <2>4, <2>5, <2>7 DEF RecordInv
  <2>8. CASE ~Conflict(d) /\ installed'[d] # NoTool /\ installed'[d] = reconcile'[d].version
    <3>1. installed[d] # OwnTool
      BY <1>1, <2>5, <2>8 DEF Conflict
    <3> QED  BY <2>3, <2>4, <2>8, <3>1 DEF RecordInv
  <2> QED  BY <2>1, <2>6, <2>7, <2>8
<1>7. ASSUME \/ \E v \in Versions, approval \in BOOLEAN : SaveTeamPolicy(v, approval)
             \/ ApproveTeamRollout \/ Dwell \/ ListOpenRollouts \/ AdvanceRollout
             \/ RollbackToLastKnownGood
             \/ \E d \in ToolDevices, p \in Versions \cup {OptedOut} : SavePersonalPreference(d, p)
      PROVE  UNCHANGED << installed, managed, reconcile >>
  BY <1>7 DEF SaveTeamPolicy, ApproveTeamRollout, Dwell, ListOpenRollouts, AdvanceRollout,
              RollbackToLastKnownGood, SavePersonalPreference, deviceVars
<1>8. CASE UNCHANGED toolVars
  BY <1>2, <1>8 DEF toolVars
<1>9. CASE ToolNext
  BY <1>2, <1>3, <1>4, <1>5, <1>6, <1>7, <1>9 DEF ToolNext, ToolStep
<1> QED  BY <1>8, <1>9

(* While no run is killed between a change of the directory of the tool    *)
(* and the save of the managed state, no step replaces or removes a        *)
(* directory of the user's (install_or_update and remove of reconcile.rs). *)
THEOREM OwnToolAlwaysKept == ToolSpec /\ [][NotBetween]_toolVars => OwnToolKept
<1> DEFINE Own == \A d \in ToolDevices : installed[d] = OwnTool => installed'[d] = OwnTool
<1>1. ToolInit => RecordInv
  BY DEF ToolInit, RecordInv, Recorded, AtRest
<1>2. ToolTypeOK /\ RecordInv /\ [ToolNext]_toolVars /\ [NotBetween]_toolVars => RecordInv' /\ [Own]_toolVars
  BY RecordNext
<1>3. OwnToolKept <=> [][Own]_toolVars
  BY DEF OwnToolKept
<1> HIDE DEF Own
<1> QED  BY <1>1, <1>2, <1>3, ToolTyped, PTL DEF ToolSpec
=============================================================================
