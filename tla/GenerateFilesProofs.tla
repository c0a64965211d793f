------------------------- MODULE GenerateFilesProofs -------------------------
(***************************************************************************)
(* Theorems about the commands that write files, for any number of them    *)
(* side by side, wherever the names of their targets lead and whatever     *)
(* fails: no file is ever shown torn, nothing is replaced without --force, *)
(* commands without it never leave a mixture, and what a command reports   *)
(* is what it installed, in the place it was meant for.                    *)
(***************************************************************************)
EXTENDS GenerateFiles, TLAPS

(* What a file of this program may hold. *)
Contents == {NoData} \union (Writers \X (1..Targets))

Nodes == [kind : {"absent", "symlink", "directory", "file"}, data : Contents,
          synced : BOOLEAN, torn : BOOLEAN]
Calls == [step : CallSteps, path : Paths \union {""}, data : Contents,
          force : BOOLEAN, outcome : Outcomes]

Types ==
  /\ files \in [Paths -> Nodes] /\ durable \in [Paths -> Nodes]
  /\ temp \in [Writers -> Nodes] /\ call \in [Writers -> Calls]
  /\ TypeOK

(* A command is in a call of WriteAtomic for the target it is at, or in    *)
(* none.                                                                   *)
Calling(c) ==
  /\ stage[c] # "writing" => call[c].step = "idle"
  /\ stage[c] = "writing" =>
       /\ call[c].step # "idle" /\ call[c].path = Target(c)
       /\ call[c].data = DataOf(c) /\ call[c].force = force[c]
  /\ call[c].step \in {"check", "create", "write", "sync", "commit"} =>
       call[c].outcome = "none"
  /\ call[c].step \in {"remove", "done"} => call[c].outcome # "none"

(* A temporary file holds its data before it is synced, and is synced      *)
(* before it is put in place.                                              *)
Filling(c) ==
  /\ ~temp[c].torn
  /\ call[c].step \in {"sync", "commit"} => temp[c].data = call[c].data
  /\ call[c].step = "commit" => temp[c].synced

(* The targets before the one a command is at are in place and reported,   *)
(* the latter but by run.                                                  *)
Before(c) == 1..(index[c] - 1)
Reporting(c) ==
  /\ stage[c] \in {"idle", "preflight"} => reported[c] = {} /\ installed[c] = {}
  /\ stage[c] \in {"idle", "preflight", "next", "writing"} => index[c] \in Files(c)
  /\ stage[c] = "idle" => index[c] = 1
  /\ stage[c] = "preflight" => kind[c] \in {"init", "install"}
  /\ kind[c] # "run" /\ stage[c] \in {"next", "writing"} => reported[c] = Before(c)
  /\ stage[c] = "next" => installed[c] = Before(c)
  /\ stage[c] = "writing" =>
       installed[c] =
         Before(c) \union (IF call[c].outcome = "written" THEN {index[c]} ELSE {})
  /\ stage[c] = "ended" =>
       /\ kind[c] # "run" => reported[c] = installed[c]
       /\ exit[c] = 0 => installed[c] = Files(c)
  /\ installed[c] = {} \/ 1 \in installed[c]
  /\ installed[c] \subseteq Files(c)

Command(c) == Calling(c) /\ Filling(c) /\ Reporting(c)

CommandInv == Types /\ NeverTorn /\ \A c \in Writers : Command(c)

-----------------------------------------------------------------------------
(* Helpers *)

LEMMA FilesOfCommand ==
  ASSUME Types, NEW c \in Writers
  PROVE  /\ Files(c) \subseteq 1..Targets /\ 1 \in Files(c)
         /\ \A i \in Files(c) : i + 1 \notin Files(c) => Files(c) = 1..i
         /\ \A i \in Files(c) : 1..i \subseteq Files(c)
         /\ \A i \in Files(c) : layout.place[i] \in Paths
<1>1. Targets \in Nat \ {0} /\ layout.place \in [1..Targets -> Paths]
  BY GenerateAssumption DEF Types, TypeOK
<1>2. Files(c) = {1} \/ Files(c) = 1..Targets
  BY DEF Files
<1>3. CASE Files(c) = {1}
  BY <1>1, <1>3
<1>4. CASE Files(c) = 1..Targets
  BY <1>1, <1>4
<1>5. QED
  BY <1>2, <1>3, <1>4

(* The kinds, steps and outcomes FilesTypeOK speaks of.                    *)
LEMMA FilesTypes ==
  ASSUME NEW f \in [Paths -> Nodes], NEW t \in [Writers -> Calls]
  PROVE  /\ DOMAIN f = Paths
         /\ \A p \in Paths : f[p].kind \in {"absent", "symlink", "directory", "file"}
         /\ \A w \in Writers : /\ t[w].step \in CallSteps /\ t[w].outcome \in Outcomes
                               /\ t[w].path \in Paths \union {""}
BY DEF Nodes, Calls

LEMMA NodeTypes ==
  ASSUME NEW k \in {"absent", "symlink", "directory", "file"}, NEW synced \in BOOLEAN
  PROVE  LET node == Node(k, NoData, synced) IN
         /\ node \in Nodes /\ ~node.torn /\ node.synced = synced
         /\ node.data = NoData /\ node.kind = k
<1>1. NoData \in Contents
  BY DEF Contents
<1>2. QED
  BY <1>1 DEF Node, Nodes

LEMMA AbsentType ==
  Absent \in Nodes /\ ~Absent.torn /\ Absent.synced /\ Absent.data = NoData
BY NodeTypes DEF Absent

LEMMA ForeignTypes ==
  ASSUME NEW node \in Foreign
  PROVE  node \in Nodes /\ ~node.torn /\ node.synced /\ node.data = NoData
BY NodeTypes DEF Foreign, Absent

LEMMA NoCallType == NoCall \in Calls /\ NoCall.step = "idle" /\ NoCall.outcome = "none"
<1>1. NoData \in Contents
  BY DEF Contents
<1>2. QED
  BY <1>1 DEF NoCall, Calls, CallSteps, Outcomes

LEMMA CommandInit == Init => CommandInv
<1> SUFFICES ASSUME Init PROVE CommandInv
  OBVIOUS
<1>1. /\ files \in [Paths -> Nodes] /\ durable \in [Paths -> Nodes]
      /\ temp \in [Writers -> Nodes] /\ call \in [Writers -> Calls]
  <2>1. \A p \in Paths : files[p] = Node("file", NoData, TRUE) \/ files[p] = Absent
    BY DEF Init, FilesInit
  <2>2. files = [p \in Paths |-> files[p]] /\ durable = files
    BY DEF Init, FilesInit
  <2>3. files \in [Paths -> Nodes]
    BY <2>1, <2>2, NodeTypes, AbsentType
  <2>4. QED
    BY <2>2, <2>3, AbsentType, NoCallType DEF Init, FilesInit
<1>2. FilesTypeOK
  <2>1. \A w \in Writers : temp[w] = Absent
    BY DEF Init, FilesInit
  <2>2. Absent.kind = "absent"
    BY DEF Absent, Node
  <2>3. QED
    BY <1>1, <2>1, <2>2, FilesTypes DEF FilesTypeOK
<1>3. Targets \in Nat \ {0} /\ MaxInterferences \in Nat
  BY GenerateAssumption
<1>4. TypeOK
  <2>1. index \in [Writers -> 1..Targets] /\ exit \in [Writers -> {0, 2, 3}]
        /\ interferences \in 0..MaxInterferences
    BY <1>3 DEF Init
  <2>2. stage \in [Writers -> {"idle", "preflight", "next", "writing", "ended", "dead"}]
        /\ reported \in [Writers -> SUBSET (1..Targets)]
        /\ installed \in [Writers -> SUBSET (1..Targets)]
    BY DEF Init
  <2>3. kind \in Casts /\ layout \in Layouts /\ force \in [Writers -> BOOLEAN]
    BY DEF Init
  <2>4. QED
    BY <1>2, <2>1, <2>2, <2>3 DEF TypeOK
<1>5. Types
  BY <1>1, <1>4 DEF Types
<1>6. NeverTorn
  <2>1. \A p \in Paths : files[p] = Node("file", NoData, TRUE) \/ files[p] = Absent
    BY DEF Init, FilesInit
  <2>2. durable = files
    BY DEF Init, FilesInit
  <2>3. QED
    BY <2>1, <2>2, NodeTypes, AbsentType DEF NeverTorn
<1>7. ASSUME NEW c \in Writers PROVE Command(c)
  <2>1. call[c] = NoCall /\ temp[c] = Absent /\ stage[c] = "idle"
        /\ reported[c] = {} /\ installed[c] = {} /\ index[c] = 1
    BY DEF Init, FilesInit
  <2>2. Calling(c) /\ Filling(c)
    BY <2>1, NoCallType, AbsentType DEF Calling, Filling
  <2>3. Reporting(c)
    BY <1>5, <2>1, FilesOfCommand DEF Reporting
  <2>4. QED
    BY <2>2, <2>3 DEF Command
<1>8. QED
  BY <1>5, <1>6, <1>7 DEF CommandInv

-----------------------------------------------------------------------------
(* One step of WriteAtomic *)

(* The call of c is as it was but for its step and its outcome, the calls  *)
(* of the others as they were.                                             *)
SameCall(c) ==
  /\ call'[c].path = call[c].path /\ call'[c].data = call[c].data
  /\ call'[c].force = call[c].force
  /\ \A d \in Writers \ {c} : call'[d] = call[d]

LEMMA StepType ==
  ASSUME call \in [Writers -> Calls], NEW c \in Writers, NEW from, NEW to \in CallSteps,
         Step(c, from, to)
  PROVE  /\ call' \in [Writers -> Calls] /\ SameCall(c)
         /\ call[c].step = from /\ call'[c].step = to /\ call'[c].outcome = call[c].outcome
BY DEF Step, SameCall, Calls

LEMMA ReturnType ==
  ASSUME call \in [Writers -> Calls], NEW c \in Writers, NEW from, NEW to \in CallSteps,
         NEW outcome \in Outcomes, Return(c, from, to, outcome)
  PROVE  /\ call' \in [Writers -> Calls] /\ SameCall(c)
         /\ call[c].step = from /\ call'[c].step = to /\ call'[c].outcome = outcome
BY DEF Return, SameCall, Calls

LEMMA StepNames ==
  /\ {"idle", "check", "create", "write", "sync", "commit", "remove", "done"} = CallSteps
  /\ {"none", "written", "refused", "error"} = Outcomes
BY DEF CallSteps, Outcomes

(* What is put in place: a complete, synced file, over nothing unless      *)
(* forced.                                                                 *)
Installs(c) ==
  /\ call[c].outcome # "written" /\ call'[c].outcome = "written"
  /\ files' = [files EXCEPT ![Target(c)] = temp[c]]
  /\ temp[c].data = DataOf(c) /\ temp[c].synced /\ ~temp[c].torn
  /\ force[c] \/ files[Target(c)] = Absent

Leaves(c) ==
  files' = files /\ (call'[c].outcome = "written" <=> call[c].outcome = "written")

(* A call after one of its steps. *)
Stepped(c) ==
  /\ call' \in [Writers -> Calls] /\ SameCall(c) /\ call'[c].step # "idle"
  /\ temp' \in [Writers -> Nodes] /\ temp'[c].kind \in {"absent", "file"}
  /\ \A d \in Writers \ {c} : temp'[d] = temp[d]
  /\ ~temp'[c].torn
  /\ call'[c].step \in {"sync", "commit"} => temp'[c].data = call'[c].data
  /\ call'[c].step = "commit" => temp'[c].synced
  /\ call'[c].step \in {"check", "create", "write", "sync", "commit"} =>
       call'[c].outcome = "none"
  /\ call'[c].step \in {"remove", "done"} => call'[c].outcome # "none"
  /\ durable' = durable
  /\ Installs(c) \/ Leaves(c)

LEMMA ProgressSteps ==
  ASSUME CommandInv, NEW c \in Writers, stage[c] = "writing", Progress(c)
  PROVE  Stepped(c)
<1> USE DEF CommandInv, Command
<1>1. /\ call \in [Writers -> Calls] /\ temp \in [Writers -> Nodes]
      /\ temp[c].kind \in {"absent", "file"}
      /\ Calling(c) /\ Filling(c)
  BY DEF Types, TypeOK, FilesTypeOK
<1>2. CASE CheckTarget(c)
  <2>1. temp' = temp /\ files' = files /\ durable' = durable
    BY <1>2 DEF CheckTarget, storage
  <2>2. CASE Return(c, "check", "done", "refused")
    <3>1. /\ call' \in [Writers -> Calls] /\ SameCall(c) /\ call[c].step = "check"
          /\ call'[c].step = "done" /\ call'[c].outcome = "refused"
      BY <1>1, <2>2, ReturnType, StepNames
    <3>2. QED
      BY <1>1, <2>1, <3>1 DEF Stepped, Leaves, Calling, Filling
  <2>3. CASE Step(c, "check", "create")
    <3>1. /\ call' \in [Writers -> Calls] /\ SameCall(c) /\ call[c].step = "check"
          /\ call'[c].step = "create" /\ call'[c].outcome = call[c].outcome
      BY <1>1, <2>3, StepType, StepNames
    <3>2. QED
      BY <1>1, <2>1, <3>1 DEF Stepped, Leaves, Calling, Filling
  <2>4. QED
    BY <1>2, <2>2, <2>3 DEF CheckTarget
<1>3. CASE CreateTemp(c)
  <2>1. /\ call' \in [Writers -> Calls] /\ SameCall(c) /\ call[c].step = "create"
        /\ call'[c].step = "write" /\ call'[c].outcome = call[c].outcome
    BY <1>1, <1>3, StepType, StepNames DEF CreateTemp
  <2>2. /\ temp' = [temp EXCEPT ![c] = Node("file", NoData, FALSE)]
        /\ files' = files /\ durable' = durable
    BY <1>3 DEF CreateTemp, storage
  <2>3. /\ temp' \in [Writers -> Nodes] /\ temp'[c].kind = "file" /\ ~temp'[c].torn
        /\ \A d \in Writers \ {c} : temp'[d] = temp[d]
    BY <1>1, <2>2, NodeTypes
  <2>4. QED
    BY <1>1, <2>1, <2>2, <2>3 DEF Stepped, Leaves, Calling
<1>4. CASE WriteTemp(c)
  <2>1. /\ call' \in [Writers -> Calls] /\ SameCall(c) /\ call[c].step = "write"
        /\ call'[c].step = "sync" /\ call'[c].outcome = call[c].outcome
    BY <1>1, <1>4, StepType, StepNames DEF WriteTemp
  <2>2. /\ temp' = [temp EXCEPT ![c].data = call[c].data]
        /\ files' = files /\ durable' = durable
    BY <1>4 DEF WriteTemp, storage
  <2>3. call[c].data \in Contents
    BY <1>1 DEF Calls
  <2>4. /\ temp' \in [Writers -> Nodes] /\ temp'[c].kind = temp[c].kind
        /\ temp'[c].torn = temp[c].torn /\ temp'[c].data = call[c].data
        /\ \A d \in Writers \ {c} : temp'[d] = temp[d]
    BY <1>1, <2>2, <2>3 DEF Nodes
  <2>5. QED
    BY <1>1, <2>1, <2>2, <2>4 DEF Stepped, SameCall, Leaves, Calling, Filling
<1>5. CASE SyncTemp(c)
  <2>1. /\ call' \in [Writers -> Calls] /\ SameCall(c) /\ call[c].step = "sync"
        /\ call'[c].step = "commit" /\ call'[c].outcome = call[c].outcome
    BY <1>1, <1>5, StepType, StepNames DEF SyncTemp
  <2>2. /\ temp' = [temp EXCEPT ![c].synced = TRUE]
        /\ files' = files /\ durable' = durable
    BY <1>5 DEF SyncTemp, storage
  <2>3. /\ temp' \in [Writers -> Nodes] /\ temp'[c].kind = temp[c].kind /\ temp'[c].synced
        /\ temp'[c].torn = temp[c].torn /\ temp'[c].data = temp[c].data
        /\ \A d \in Writers \ {c} : temp'[d] = temp[d]
    BY <1>1, <2>2 DEF Nodes
  <2>4. QED
    BY <1>1, <2>1, <2>2, <2>3 DEF Stepped, SameCall, Leaves, Calling, Filling
<1>6. CASE Rename(c)
  <2>1. /\ call[c].force /\ durable' = durable /\ call[c].path = Target(c)
        /\ call[c].force = force[c] /\ call[c].data = DataOf(c)
    BY <1>1, <1>6 DEF Rename, Calling
  <2>2. CASE Return(c, "commit", "remove", "error") /\ UNCHANGED <<files, temp>>
    <3>1. /\ call' \in [Writers -> Calls] /\ SameCall(c) /\ call[c].step = "commit"
          /\ call'[c].step = "remove" /\ call'[c].outcome = "error"
      BY <1>1, <2>2, ReturnType, StepNames
    <3>2. QED
      BY <1>1, <2>1, <2>2, <3>1 DEF Stepped, Leaves, Calling, Filling
  <2>3. CASE /\ Return(c, "commit", "remove", "written")
             /\ files' = [files EXCEPT ![call[c].path] = temp[c]]
             /\ temp' = [temp EXCEPT ![c] = Absent]
    <3>1. /\ call' \in [Writers -> Calls] /\ SameCall(c) /\ call[c].step = "commit"
          /\ call'[c].step = "remove" /\ call'[c].outcome = "written"
      BY <1>1, <2>3, ReturnType, StepNames
    <3>2. /\ temp' \in [Writers -> Nodes] /\ temp'[c] = Absent
          /\ \A d \in Writers \ {c} : temp'[d] = temp[d]
      BY <1>1, <2>3, AbsentType
    <3>3. Absent.kind = "absent"
      BY NodeTypes DEF Absent
    <3>4. Installs(c)
      BY <1>1, <2>1, <2>3, <3>1 DEF Installs, Calling, Filling
    <3>5. QED
      BY <2>1, <3>1, <3>2, <3>3, <3>4, AbsentType DEF Stepped
  <2>4. QED
    BY <1>6, <2>2, <2>3 DEF Rename
<1>7. CASE Link(c)
  <2>1. /\ UNCHANGED <<durable, temp>> /\ call[c].path = Target(c)
        /\ call[c].force = force[c] /\ call[c].data = DataOf(c)
    BY <1>1, <1>7 DEF Link, Calling
  <2>2. CASE Return(c, "commit", "remove", "refused") /\ UNCHANGED files
    <3>1. /\ call' \in [Writers -> Calls] /\ SameCall(c) /\ call[c].step = "commit"
          /\ call'[c].step = "remove" /\ call'[c].outcome = "refused"
      BY <1>1, <2>2, ReturnType, StepNames
    <3>2. QED
      BY <1>1, <2>1, <2>2, <3>1 DEF Stepped, Leaves, Calling, Filling
  <2>3. CASE /\ Return(c, "commit", "remove", "written")
             /\ files' = [files EXCEPT ![call[c].path] = temp[c]]
             /\ files[call[c].path] = Absent
    <3>1. /\ call' \in [Writers -> Calls] /\ SameCall(c) /\ call[c].step = "commit"
          /\ call'[c].step = "remove" /\ call'[c].outcome = "written"
      BY <1>1, <2>3, ReturnType, StepNames
    <3>2. Installs(c)
      BY <1>1, <2>1, <2>3, <3>1 DEF Installs, Calling, Filling
    <3>3. QED
      BY <1>1, <2>1, <3>1, <3>2 DEF Stepped, Filling
  <2>4. QED
    BY <1>7, <2>2, <2>3 DEF Link
<1>8. CASE CallFails(c)
  <2>1. PICK from \in CallSteps, to \in {"remove", "done"} :
          Return(c, from, to, "error") /\ from \notin {"remove", "done"}
    <3>1. PICK from \in CallSteps : from = call[c].step
      BY <1>1 DEF Calls
    <3>2. CASE from \in {"check", "create"}
      <4>1. Return(c, from, "done", "error")
        BY <1>8, <3>1, <3>2 DEF CallFails, Return
      <4>2. QED
        BY <3>2, <4>1
    <3>3. CASE from \in {"write", "sync", "commit"}
      <4>1. Return(c, from, "remove", "error")
        BY <1>8, <3>1, <3>3 DEF CallFails, Return
      <4>2. QED
        BY <3>3, <4>1
    <3>4. QED
      BY <1>8, <3>1, <3>2, <3>3 DEF CallFails
  <2>2. /\ call' \in [Writers -> Calls] /\ SameCall(c) /\ call[c].step = from
        /\ call'[c].step = to /\ call'[c].outcome = "error"
    <3>1. to \in CallSteps /\ "error" \in Outcomes
      BY DEF CallSteps, Outcomes
    <3>2. QED
      BY <1>1, <2>1, <3>1, ReturnType
  <2>3. temp' = temp /\ files' = files /\ durable' = durable
    BY <1>8 DEF CallFails, storage
  <2>4. call[c].outcome # "written"
    BY <1>1, <2>1, <2>2 DEF Calling, CallSteps
  <2>5. QED
    BY <1>1, <2>2, <2>3, <2>4 DEF Stepped, Leaves, Filling
<1>9. CASE RemoveTemp(c)
  <2>1. /\ call' \in [Writers -> Calls] /\ SameCall(c) /\ call[c].step = "remove"
        /\ call'[c].step = "done" /\ call'[c].outcome = call[c].outcome
    BY <1>1, <1>9, StepType, StepNames DEF RemoveTemp
  <2>2. /\ temp' = [temp EXCEPT ![c] = Absent] /\ files' = files /\ durable' = durable
    BY <1>9 DEF RemoveTemp, storage
  <2>3. /\ temp' \in [Writers -> Nodes] /\ temp'[c] = Absent
        /\ \A d \in Writers \ {c} : temp'[d] = temp[d]
    BY <1>1, <2>2, AbsentType
  <2>4. Absent.kind = "absent"
    BY NodeTypes DEF Absent
  <2>5. QED
    BY <1>1, <2>1, <2>2, <2>3, <2>4, AbsentType DEF Stepped, Leaves, Calling
<1>10. QED
  BY <1>2, <1>3, <1>4, <1>5, <1>6, <1>7, <1>8, <1>9 DEF Progress

-----------------------------------------------------------------------------
(* The steps of a command *)

LEMMA Untouched ==
  ASSUME NEW d \in Writers, Command(d),
         stage'[d] = stage[d], index'[d] = index[d], reported'[d] = reported[d],
         installed'[d] = installed[d], exit'[d] = exit[d],
         call'[d] = call[d], temp'[d] = temp[d], UNCHANGED <<kind, layout, force>>
  PROVE  Command(d)'
<1>1. Calling(d)' /\ Filling(d)'
  BY DEF Command, Calling, Filling, Target, DataOf
<1>2. Reporting(d)'
  BY DEF Command, Reporting, Before, Files
<1>3. QED
  BY <1>1, <1>2 DEF Command

(* Only the program counters and what a command says change. *)
LEMMA StageStep ==
  ASSUME CommandInv, NEW c \in Writers, UNCHANGED <<files, durable>>,
         temp' = temp \/ temp' = [temp EXCEPT ![c] = Absent],
         UNCHANGED <<kind, layout, force, installed, interferences>>,
         call' \in [Writers -> Calls],
         stage' \in [Writers -> {"idle", "preflight", "next", "writing", "ended", "dead"}],
         index' \in [Writers -> 1..Targets], exit' \in [Writers -> {0, 2, 3}],
         reported' \in [Writers -> SUBSET (1..Targets)],
         \A d \in Writers \ {c} :
           /\ stage'[d] = stage[d] /\ index'[d] = index[d] /\ exit'[d] = exit[d]
           /\ reported'[d] = reported[d] /\ call'[d] = call[d],
         Calling(c)', Reporting(c)', call'[c].step \notin {"sync", "commit"}
  PROVE  CommandInv'
<1>a. /\ temp' \in [Writers -> Nodes] /\ \A w \in Writers : temp'[w].kind \in {"absent", "file"}
      /\ ~temp'[c].torn /\ \A d \in Writers \ {c} : temp'[d] = temp[d]
  <2>1. /\ temp \in [Writers -> Nodes] /\ ~temp[c].torn
        /\ \A w \in Writers : temp[w].kind \in {"absent", "file"}
    BY DEF CommandInv, Command, Filling, Types, TypeOK, FilesTypeOK
  <2>2. CASE temp' = temp
    BY <2>1, <2>2
  <2>3. CASE temp' = [temp EXCEPT ![c] = Absent]
    <3>1. Absent.kind = "absent"
      BY NodeTypes DEF Absent
    <3>2. /\ temp' \in [Writers -> Nodes] /\ temp'[c] = Absent
          /\ \A d \in Writers \ {c} : temp'[d] = temp[d]
      BY <2>1, <2>3, AbsentType
    <3>3. QED
      BY <2>1, <3>1, <3>2, AbsentType
  <2>4. QED
    BY <2>2, <2>3
<1>1. Types'
  <2>1. files' \in [Paths -> Nodes] /\ durable' \in [Paths -> Nodes]
    BY DEF CommandInv, Types
  <2>2. FilesTypeOK'
    BY <1>a, <2>1, FilesTypes DEF FilesTypeOK
  <2>3. TypeOK'
    BY <2>2 DEF CommandInv, Types, TypeOK
  <2>4. QED
    BY <1>a, <2>1, <2>3 DEF Types
<1>2. NeverTorn'
  BY DEF CommandInv, NeverTorn
<1>3. Command(c)'
  BY <1>a DEF Command, Filling
<1>4. \A d \in Writers \ {c} : Command(d)'
  BY <1>a, Untouched DEF CommandInv
<1>5. QED
  BY <1>1, <1>2, <1>3, <1>4 DEF CommandInv

(* What the types say of one command. *)
LEMMA CommandTypes ==
  ASSUME CommandInv, NEW c \in Writers
  PROVE  /\ call \in [Writers -> Calls] /\ temp \in [Writers -> Nodes]
         /\ stage \in [Writers -> {"idle", "preflight", "next", "writing", "ended", "dead"}]
         /\ index \in [Writers -> 1..Targets] /\ exit \in [Writers -> {0, 2, 3}]
         /\ reported \in [Writers -> SUBSET (1..Targets)]
         /\ installed \in [Writers -> SUBSET (1..Targets)]
         /\ force \in [Writers -> BOOLEAN] /\ Targets \in Nat \ {0}
         /\ Calling(c) /\ Filling(c) /\ Reporting(c)
BY GenerateAssumption DEF CommandInv, Command, Types, TypeOK

LEMMA BeginKeeps ==
  ASSUME CommandInv, NEW c \in Writers, Begin(c) PROVE CommandInv'
<1>1. /\ UNCHANGED <<files, durable, temp, call, kind, layout, force, index, reported>>
      /\ UNCHANGED <<installed, interferences>> /\ stage[c] = "idle"
      /\ call[c].step = "idle" /\ call[c].outcome = call[c].outcome
  BY CommandTypes DEF Begin, fileVars, storage, setting, Calling
<1>2. PICK s \in {"preflight", "next", "ended"}, code \in {0, 2, 3} :
        /\ stage' = [stage EXCEPT ![c] = s]
        /\ exit' = [exit EXCEPT ![c] = code]
        /\ s = "ended" => code # 0
        /\ s = "preflight" => kind[c] \in {"init", "install"}
  <2>1. CASE \E code \in {2, 3} : End(c, code)
    <3>1. PICK code \in {2, 3} : /\ stage' = [stage EXCEPT ![c] = "ended"]
                                 /\ exit' = [exit EXCEPT ![c] = code]
      BY <2>1 DEF End
    <3>2. code \in {0, 2, 3} /\ code # 0
      OBVIOUS
    <3>3. QED
      BY <3>1, <3>2
  <2>2. CASE kind[c] \in {"init", "install"} /\ UNCHANGED exit
             /\ stage' = [stage EXCEPT ![c] = "preflight"]
    <3>1. exit' = [exit EXCEPT ![c] = exit[c]] /\ exit[c] \in {0, 2, 3}
      BY <2>2, CommandTypes
    <3>2. QED
      BY <2>2, <3>1
  <2>3. CASE UNCHANGED exit /\ stage' = [stage EXCEPT ![c] = "next"]
    <3>1. exit' = [exit EXCEPT ![c] = exit[c]] /\ exit[c] \in {0, 2, 3}
      BY <2>3, CommandTypes
    <3>2. QED
      BY <2>3, <3>1
  <2>4. QED
    BY <2>1, <2>2, <2>3 DEF Begin
<1>3. /\ stage' \in [Writers -> {"idle", "preflight", "next", "writing", "ended", "dead"}]
      /\ exit' \in [Writers -> {0, 2, 3}] /\ stage'[c] = s /\ exit'[c] = code
      /\ \A d \in Writers \ {c} : stage'[d] = stage[d] /\ exit'[d] = exit[d]
  BY <1>2, CommandTypes
<1>4. Calling(c)'
  BY <1>1, <1>3, CommandTypes DEF Calling
<1>5. Reporting(c)'
  <2>1. /\ reported[c] = {} /\ installed[c] = {} /\ index[c] = 1 /\ index[c] \in Files(c)
    BY <1>1, CommandTypes DEF Reporting
  <2>2. Files(c)' = Files(c) /\ Before(c)' = {}
    BY <1>1, <2>1 DEF Files, Before
  <2>3. QED
    BY <1>1, <1>2, <1>3, <2>1, <2>2 DEF Reporting
<1>6. QED
  BY <1>1, <1>3, <1>4, <1>5, StageStep, CommandTypes

LEMMA PreflightKeeps ==
  ASSUME CommandInv, NEW c \in Writers, Preflight(c) PROVE CommandInv'
<1>1. /\ UNCHANGED <<files, durable, temp, call, kind, layout, force, reported>>
      /\ UNCHANGED <<installed, interferences>> /\ stage[c] = "preflight"
      /\ call[c].step = "idle"
  BY CommandTypes DEF Preflight, fileVars, storage, setting, Calling
<1>2. /\ reported[c] = {} /\ installed[c] = {} /\ index[c] \in Files(c)
      /\ kind[c] \in {"init", "install"} /\ Files(c) = 1..Targets /\ Files(c)' = Files(c)
  BY <1>1, CommandTypes DEF Reporting, Files
<1>3. PICK s \in {"preflight", "next", "ended"}, i \in 1..Targets, code \in {0, 2, 3} :
        /\ stage' = [stage EXCEPT ![c] = s]
        /\ index' = [index EXCEPT ![c] = i]
        /\ exit' = [exit EXCEPT ![c] = code]
        /\ s = "ended" => code # 0
        /\ s = "next" => i = 1
  <2>1. /\ index[c] \in 1..Targets /\ exit[c] \in {0, 2, 3} /\ 1 \in 1..Targets
        /\ index = [index EXCEPT ![c] = index[c]] /\ exit = [exit EXCEPT ![c] = exit[c]]
        /\ stage = [stage EXCEPT ![c] = "preflight"]
    BY <1>1, CommandTypes
  <2>2. CASE (\E code \in {2, 3} : End(c, code)) /\ UNCHANGED index
    <3>1. PICK code \in {2, 3} : /\ stage' = [stage EXCEPT ![c] = "ended"]
                                 /\ exit' = [exit EXCEPT ![c] = code]
      BY <2>2 DEF End
    <3>2. code \in {0, 2, 3} /\ code # 0
      OBVIOUS
    <3>3. QED
      BY <2>1, <2>2, <3>1, <3>2
  <2>3. CASE /\ index[c] < Targets /\ index' = [index EXCEPT ![c] = @ + 1]
             /\ UNCHANGED <<stage, exit>>
    <3>1. index[c] + 1 \in 1..Targets
      BY <2>1, <2>3, CommandTypes
    <3>2. QED
      BY <2>1, <2>3, <3>1
  <2>4. CASE /\ index' = [index EXCEPT ![c] = 1] /\ stage' = [stage EXCEPT ![c] = "next"]
             /\ UNCHANGED exit
    BY <2>1, <2>4
  <2>5. QED
    BY <2>2, <2>3, <2>4 DEF Preflight
<1>4. /\ stage' \in [Writers -> {"idle", "preflight", "next", "writing", "ended", "dead"}]
      /\ exit' \in [Writers -> {0, 2, 3}] /\ index' \in [Writers -> 1..Targets]
      /\ stage'[c] = s /\ exit'[c] = code /\ index'[c] = i
      /\ \A d \in Writers \ {c} :
           stage'[d] = stage[d] /\ exit'[d] = exit[d] /\ index'[d] = index[d]
  BY <1>3, CommandTypes
<1>5. Calling(c)'
  BY <1>1, <1>4, CommandTypes DEF Calling
<1>6. Reporting(c)'
  <2>1. s = "next" => Before(c)' = {}
    BY <1>3, <1>4 DEF Before
  <2>2. QED
    BY <1>1, <1>2, <1>3, <1>4, <2>1 DEF Reporting
<1>7. QED
  BY <1>1, <1>4, <1>5, <1>6, StageStep, CommandTypes

LEMMA WriteNextKeeps ==
  ASSUME CommandInv, NEW c \in Writers, WriteNext(c) PROVE CommandInv'
<1>1. /\ UNCHANGED <<files, durable, temp, kind, layout, force, index, reported, exit>>
      /\ UNCHANGED <<installed, interferences>> /\ stage[c] = "next"
      /\ stage' = [stage EXCEPT ![c] = "writing"]
  BY DEF WriteNext, WriteAtomic, storage, setting
<1>2. call' = [call EXCEPT ![c] = [step |-> "check", path |-> Target(c), data |-> DataOf(c),
                                   force |-> force[c], outcome |-> "none"]]
  BY DEF WriteNext, WriteAtomic
<1>3. /\ index[c] \in Files(c) /\ installed[c] = Before(c)
      /\ kind[c] # "run" => reported[c] = Before(c)
  BY <1>1, CommandTypes DEF Reporting
<1>4. /\ Target(c) \in Paths /\ DataOf(c) \in Contents /\ force[c] \in BOOLEAN
      /\ "check" \in CallSteps /\ "none" \in Outcomes
  BY <1>3, FilesOfCommand, CommandTypes
     DEF CommandInv, Target, DataOf, Contents, CallSteps, Outcomes
<1>5. /\ call' \in [Writers -> Calls] /\ \A d \in Writers \ {c} : call'[d] = call[d]
      /\ call'[c].step = "check" /\ call'[c].path = Target(c) /\ call'[c].data = DataOf(c)
      /\ call'[c].force = force[c] /\ call'[c].outcome = "none"
  BY <1>2, <1>4, CommandTypes DEF Calls
<1>6. /\ stage' \in [Writers -> {"idle", "preflight", "next", "writing", "ended", "dead"}]
      /\ stage'[c] = "writing" /\ \A d \in Writers \ {c} : stage'[d] = stage[d]
  BY <1>1, CommandTypes
<1>7. Calling(c)'
  BY <1>1, <1>5, <1>6 DEF Calling, Target, DataOf
<1>8. Reporting(c)'
  BY <1>1, <1>3, <1>5, <1>6, CommandTypes DEF Reporting, Before, Files
<1>9. QED
  BY <1>1, <1>5, <1>6, <1>7, <1>8, StageStep, CommandTypes

(* One step of the call a command is in: what it installs is counted.      *)
LEMMA WritingKeeps ==
  ASSUME CommandInv, NEW c \in Writers, Writing(c) PROVE CommandInv'
<1>1. /\ stage[c] = "writing" /\ Progress(c) /\ Stepped(c)
      /\ UNCHANGED <<kind, layout, stage, force, index, reported, exit, interferences>>
      /\ installed' = IF call'[c].outcome = "written"
           THEN [installed EXCEPT ![c] = @ \union {index[c]}] ELSE installed
  BY ProgressSteps DEF Writing, commandVars, setting
<1>2. /\ index[c] \in Files(c) /\ (kind[c] # "run" => reported[c] = Before(c))
      /\ installed[c] =
           Before(c) \union (IF call[c].outcome = "written" THEN {index[c]} ELSE {})
  BY <1>1, CommandTypes DEF Reporting
<1>3. Target(c) \in Paths /\ index[c] \in 1..Targets
  BY <1>2, FilesOfCommand DEF CommandInv, Target
<1>4. files' \in [Paths -> Nodes] /\ durable' \in [Paths -> Nodes] /\ NeverTorn'
  <2>1. /\ files \in [Paths -> Nodes] /\ durable \in [Paths -> Nodes] /\ durable' = durable
        /\ temp[c] \in Nodes
    BY <1>1 DEF CommandInv, Types, Stepped
  <2>2. CASE files' = files
    BY <2>1, <2>2 DEF CommandInv, NeverTorn
  <2>3. CASE Installs(c)
    BY <1>3, <2>1, <2>3 DEF Installs, CommandInv, NeverTorn
  <2>4. QED
    BY <1>1, <2>2, <2>3 DEF Stepped, Leaves
<1>5. /\ installed'[c] =
           Before(c) \union (IF call'[c].outcome = "written" THEN {index[c]} ELSE {})
      /\ \A d \in Writers \ {c} : installed'[d] = installed[d]
      /\ installed' \in [Writers -> SUBSET (1..Targets)]
  <2>1. installed \in [Writers -> SUBSET (1..Targets)]
    BY CommandTypes
  <2>2. CASE call'[c].outcome = "written"
    BY <1>1, <1>2, <1>3, <2>1, <2>2
  <2>3. CASE call'[c].outcome # "written"
    <3>1. call[c].outcome # "written"
      BY <1>1, <2>3 DEF Stepped, Installs, Leaves
    <3>2. QED
      BY <1>1, <1>2, <2>1, <2>3, <3>1
  <2>4. QED
    BY <2>2, <2>3
<1>6. Types'
  <2>1. /\ call' \in [Writers -> Calls] /\ temp' \in [Writers -> Nodes]
        /\ \A w \in Writers : temp'[w].kind \in {"absent", "file"}
    BY <1>1 DEF Stepped, CommandInv, Types, TypeOK, FilesTypeOK
  <2>2. FilesTypeOK'
    BY <1>4, <2>1, FilesTypes DEF FilesTypeOK
  <2>3. TypeOK'
    BY <1>1, <1>5, <2>2 DEF CommandInv, Types, TypeOK
  <2>4. QED
    BY <1>4, <2>1, <2>3 DEF Types
<1>7. Command(c)'
  <2>1. Calling(c)'
    <3>1. /\ call'[c].path = call[c].path /\ call'[c].data = call[c].data
          /\ call'[c].force = call[c].force /\ call'[c].step # "idle"
      BY <1>1 DEF Stepped, SameCall
    <3>2. call[c].path = Target(c) /\ call[c].data = DataOf(c) /\ call[c].force = force[c]
      BY <1>1, CommandTypes DEF Calling
    <3>3. QED
      BY <1>1, <3>1, <3>2 DEF Calling, Stepped, Target, DataOf
  <2>2. Filling(c)'
    BY <1>1 DEF Stepped, Filling
  <2>3. Reporting(c)'
    <3>1. Before(c)' = Before(c) /\ Files(c)' = Files(c)
      BY <1>1 DEF Before, Files
    <3>2. Before(c) \subseteq Files(c)
      <4>1. 1..index[c] \subseteq Files(c)
        BY <1>2, FilesOfCommand DEF CommandInv
      <4>2. QED
        BY <1>3, <4>1, CommandTypes DEF Before
    <3>3. installed'[c] = {} \/ 1 \in installed'[c]
      BY <1>3, <1>5, CommandTypes DEF Before
    <3>4. QED
      BY <1>1, <1>2, <1>5, <3>1, <3>2, <3>3 DEF Reporting
  <2>4. QED
    BY <2>1, <2>2, <2>3 DEF Command
<1>8. ASSUME NEW d \in Writers \ {c} PROVE Command(d)'
  <2>1. call'[d] = call[d] /\ temp'[d] = temp[d] /\ installed'[d] = installed[d]
    BY <1>1, <1>5 DEF Stepped, SameCall
  <2>2. QED
    BY <1>1, <2>1, Untouched DEF CommandInv
<1>9. QED
  BY <1>4, <1>6, <1>7, <1>8 DEF CommandInv

(* What is printed when a target is in place.                              *)
LEMMA PrintsTypes ==
  ASSUME CommandInv, NEW c \in Writers, Prints(c), index[c] \in 1..Targets
  PROVE  /\ reported' \in [Writers -> SUBSET (1..Targets)]
         /\ kind[c] # "run" => reported'[c] = reported[c] \union {index[c]}
         /\ \A d \in Writers \ {c} : reported'[d] = reported[d]
BY CommandTypes DEF Prints

LEMMA ReportKeeps ==
  ASSUME CommandInv, NEW c \in Writers, Report(c) PROVE CommandInv'
<1>1. /\ UNCHANGED <<files, durable, temp, kind, layout, force, installed, interferences>>
      /\ stage[c] = "writing" /\ call[c].step = "done"
      /\ call' = [call EXCEPT ![c] = NoCall]
  BY DEF Report, storage, setting
<1>2. /\ index[c] \in Files(c) /\ call[c].outcome # "none"
      /\ kind[c] # "run" => reported[c] = Before(c)
      /\ installed[c] =
           Before(c) \union (IF call[c].outcome = "written" THEN {index[c]} ELSE {})
      /\ call[c].outcome \in {"none", "written", "refused", "error"}
  BY <1>1, CommandTypes, StepNames DEF Reporting, Calling, Calls
<1>3. /\ call' \in [Writers -> Calls] /\ call'[c] = NoCall
      /\ \A d \in Writers \ {c} : call'[d] = call[d]
  BY <1>1, CommandTypes, NoCallType
<1>4. index[c] \in 1..Targets /\ Files(c) \subseteq 1..Targets /\ Files(c)' = Files(c)
  BY <1>1, <1>2, FilesOfCommand DEF CommandInv, Files
<1>5. installed[c] \subseteq Files(c) /\ (installed[c] = {} \/ 1 \in installed[c])
  BY CommandTypes DEF Reporting
<1>6. CASE /\ call[c].outcome = "written"
           /\ Prints(c)
           /\ index[c] + 1 \in Files(c)
           /\ index' = [index EXCEPT ![c] = @ + 1]
           /\ stage' = [stage EXCEPT ![c] = "next"] /\ UNCHANGED exit
  <2>1. /\ index' \in [Writers -> 1..Targets] /\ index'[c] = index[c] + 1
        /\ stage' \in [Writers -> {"idle", "preflight", "next", "writing", "ended", "dead"}]
        /\ stage'[c] = "next" /\ reported' \in [Writers -> SUBSET (1..Targets)]
        /\ kind[c] # "run" => reported'[c] = reported[c] \union {index[c]}
        /\ \A d \in Writers \ {c} :
             stage'[d] = stage[d] /\ index'[d] = index[d] /\ reported'[d] = reported[d]
    BY <1>4, <1>6, PrintsTypes, CommandTypes
  <2>2. Before(c)' = Before(c) \union {index[c]}
    BY <1>4, <2>1, CommandTypes DEF Before
  <2>3. Calling(c)'
    BY <1>3, <2>1, NoCallType DEF Calling
  <2>4. Reporting(c)'
    BY <1>1, <1>2, <1>4, <1>5, <1>6, <2>1, <2>2 DEF Reporting
  <2>5. QED
    BY <1>1, <1>3, <1>6, <2>1, <2>3, <2>4, NoCallType, StageStep, CommandTypes
<1>7. CASE /\ call[c].outcome = "written"
           /\ Prints(c)
           /\ index[c] + 1 \notin Files(c)
           /\ (\E code \in {0, 3} : End(c, code)) /\ UNCHANGED index
  <2>1. PICK code \in {0, 3} : End(c, code)
    BY <1>7
  <2>2. /\ exit' \in [Writers -> {0, 2, 3}]
        /\ stage' \in [Writers -> {"idle", "preflight", "next", "writing", "ended", "dead"}]
        /\ stage'[c] = "ended" /\ reported' \in [Writers -> SUBSET (1..Targets)]
        /\ kind[c] # "run" => reported'[c] = reported[c] \union {index[c]}
        /\ \A d \in Writers \ {c} :
             stage'[d] = stage[d] /\ exit'[d] = exit[d] /\ reported'[d] = reported[d]
    BY <1>4, <1>7, <2>1, PrintsTypes, CommandTypes DEF End
  <2>3. /\ installed[c] = Files(c)
        /\ kind[c] # "run" => reported'[c] = installed[c]
    <3>1. Files(c) = 1..index[c]
      BY <1>2, <1>7, FilesOfCommand DEF CommandInv
    <3>2. Before(c) \union {index[c]} = 1..index[c]
      BY <1>4, CommandTypes DEF Before
    <3>3. QED
      BY <1>2, <1>7, <2>2, <3>1, <3>2
  <2>4. Calling(c)'
    BY <1>3, <2>2, NoCallType DEF Calling
  <2>5. Reporting(c)'
    BY <1>1, <1>4, <1>5, <2>2, <2>3 DEF Reporting
  <2>6. QED
    BY <1>1, <1>3, <1>7, <2>2, <2>4, <2>5, NoCallType, StageStep, CommandTypes
<1>8. CASE /\ call[c].outcome # "written" /\ (\E code \in {2, 3} : End(c, code))
           /\ UNCHANGED <<reported, index>>
  <2>1. PICK code \in {2, 3} : End(c, code)
    BY <1>8
  <2>2. /\ exit' \in [Writers -> {0, 2, 3}] /\ exit'[c] # 0
        /\ stage' \in [Writers -> {"idle", "preflight", "next", "writing", "ended", "dead"}]
        /\ stage'[c] = "ended"
        /\ \A d \in Writers \ {c} : stage'[d] = stage[d] /\ exit'[d] = exit[d]
    BY <2>1, CommandTypes DEF End
  <2>3. Calling(c)'
    BY <1>3, <2>2, NoCallType DEF Calling
  <2>4. Reporting(c)'
    BY <1>1, <1>2, <1>4, <1>5, <1>8, <2>2 DEF Reporting
  <2>5. QED
    BY <1>1, <1>3, <1>8, <2>2, <2>3, <2>4, NoCallType, StageStep, CommandTypes
<1>9. QED
  <2>1. \/ /\ call[c].outcome = "written" /\ Prints(c)
           /\ IF index[c] + 1 \in Files(c)
                THEN /\ index' = [index EXCEPT ![c] = @ + 1]
                     /\ stage' = [stage EXCEPT ![c] = "next"] /\ UNCHANGED exit
                ELSE /\ \E code \in {0, 3} : End(c, code)
                     /\ UNCHANGED index
        \/ /\ call[c].outcome \in {"refused", "error"} /\ UNCHANGED <<reported, index>>
           /\ \E code \in {2, 3} : End(c, code)
    BY DEF Report
  <2>2. QED
    BY <1>6, <1>7, <1>8, <2>1

LEMMA KillKeeps ==
  ASSUME CommandInv, NEW c \in Writers, Kill(c) PROVE CommandInv'
<1>1. /\ UNCHANGED <<files, durable, kind, layout, force, index, reported, exit>>
      /\ UNCHANGED <<installed, interferences>>
      /\ call' = [call EXCEPT ![c] = NoCall] /\ temp' = [temp EXCEPT ![c] = Absent]
      /\ stage' = [stage EXCEPT ![c] = "dead"]
  BY DEF Kill, Killed, Dies, storage, setting
<1>2. /\ call' \in [Writers -> Calls] /\ call'[c] = NoCall
      /\ stage' \in [Writers -> {"idle", "preflight", "next", "writing", "ended", "dead"}]
      /\ stage'[c] = "dead"
      /\ \A d \in Writers \ {c} : call'[d] = call[d] /\ stage'[d] = stage[d]
  BY <1>1, CommandTypes, NoCallType
<1>3. Calling(c)'
  BY <1>2, NoCallType DEF Calling
<1>4. Reporting(c)'
  BY <1>1, <1>2, CommandTypes DEF Reporting, Files
<1>5. QED
  BY <1>1, <1>2, <1>3, <1>4, NoCallType, StageStep, CommandTypes

(* Everything shown is synced, so a power loss tears nothing.              *)
LEMMA LosePowerKeeps ==
  ASSUME CommandInv, LosePower PROVE CommandInv'
<1>1. /\ UNCHANGED <<kind, layout, force, index, reported, exit, installed>>
      /\ interferences < MaxInterferences /\ interferences' = interferences + 1
      /\ stage' = [c \in Writers |-> IF stage[c] \in {"idle", "ended"} THEN stage[c] ELSE "dead"]
      /\ call' = [w \in Writers |-> NoCall] /\ temp' = [w \in Writers |-> Absent]
      /\ durable' = files'
  BY DEF LosePower, PowerLoss, setting
<1>2. \A p \in Paths : \/ files'[p] = AfterPowerLoss(files[p])
                       \/ files'[p] = AfterPowerLoss(durable[p])
  BY DEF LosePower, PowerLoss
<1>3. DOMAIN files' = Paths /\ files' = [p \in Paths |-> files'[p]]
  BY DEF LosePower, PowerLoss
<1>4. ASSUME NEW p \in Paths
      PROVE  files'[p] \in Nodes /\ ~files'[p].torn /\ files'[p].synced
  <2>1. ASSUME NEW node \in Nodes, node.synced
        PROVE  LET after == AfterPowerLoss(node) IN
               after \in Nodes /\ ~after.torn /\ after.synced
    BY <2>1 DEF AfterPowerLoss, Nodes
  <2>2. /\ files[p] \in Nodes /\ files[p].synced
        /\ durable[p] \in Nodes /\ durable[p].synced
    BY DEF CommandInv, Types, NeverTorn
  <2>3. QED
    BY <1>2, <2>1, <2>2
<1>5. files' \in [Paths -> Nodes] /\ durable' \in [Paths -> Nodes] /\ NeverTorn'
  BY <1>1, <1>3, <1>4 DEF NeverTorn
<1>6. Types'
  <2>1. call' \in [Writers -> Calls] /\ temp' \in [Writers -> Nodes]
    BY <1>1, NoCallType, AbsentType
  <2>2. \A w \in Writers : temp'[w].kind \in {"absent", "file"}
    BY <1>1, NodeTypes DEF Absent
  <2>3. FilesTypeOK'
    BY <1>5, <2>1, <2>2, FilesTypes DEF FilesTypeOK
  <2>4. interferences' \in 0..MaxInterferences
    BY <1>1, GenerateAssumption DEF CommandInv, Types, TypeOK
  <2>5. stage' \in [Writers -> {"idle", "preflight", "next", "writing", "ended", "dead"}]
    BY <1>1
  <2>6. TypeOK'
    BY <1>1, <2>3, <2>4, <2>5 DEF CommandInv, Types, TypeOK
  <2>7. QED
    BY <1>5, <2>1, <2>6 DEF Types
<1>7. ASSUME NEW c \in Writers PROVE Command(c)'
  <2>1. /\ call'[c] = NoCall /\ temp'[c] = Absent
        /\ stage'[c] = IF stage[c] \in {"idle", "ended"} THEN stage[c] ELSE "dead"
    BY <1>1
  <2>2. Calling(c)' /\ Filling(c)'
    BY <2>1, NoCallType, AbsentType DEF Calling, Filling
  <2>3. Reporting(c)'
    BY <1>1, <2>1, CommandTypes DEF Reporting, Files
  <2>4. QED
    BY <2>2, <2>3 DEF Command
<1>8. QED
  BY <1>5, <1>6, <1>7 DEF CommandInv

(* Others at the target paths, the kernel, and stuttering.                 *)
LEMMA MeddleKeeps ==
  ASSUME CommandInv, Meddle \/ Sync \/ UNCHANGED vars PROVE CommandInv'
<1>1. /\ UNCHANGED <<kind, layout, stage, force, index, reported, exit, installed>>
      /\ UNCHANGED <<temp, call>>
  BY DEF Meddle, Interfere, Sync, WriteBack, vars, commandVars, setting, fileVars
<1>2. files \in [Paths -> Nodes] /\ durable \in [Paths -> Nodes]
  BY DEF CommandInv, Types
<1>3. /\ files' \in [Paths -> Nodes] /\ durable' \in [Paths -> Nodes] /\ NeverTorn'
      /\ interferences' \in 0..MaxInterferences
  <2>1. interferences \in 0..MaxInterferences /\ MaxInterferences \in Nat
    BY GenerateAssumption DEF CommandInv, Types, TypeOK
  <2>2. CASE Meddle
    <3>1. PICK p \in Paths, node \in Foreign :
            files' = [files EXCEPT ![p] = node] /\ durable' = durable
      BY <2>2 DEF Meddle, Interfere
    <3>2. interferences' \in 0..MaxInterferences
      BY <2>1, <2>2 DEF Meddle
    <3>3. files' \in [Paths -> Nodes] /\ durable' \in [Paths -> Nodes]
      BY <1>2, <3>1, ForeignTypes
    <3>4. NeverTorn'
      BY <1>2, <3>1, ForeignTypes DEF CommandInv, NeverTorn
    <3>5. QED
      BY <3>2, <3>3, <3>4
  <2>3. CASE Sync
    <3>1. PICK p \in Paths : durable' = [durable EXCEPT ![p] = files[p]] /\ files' = files
      BY <2>3 DEF Sync, WriteBack
    <3>2. interferences' = interferences
      BY <2>3 DEF Sync
    <3>3. NeverTorn'
      BY <1>2, <3>1 DEF CommandInv, NeverTorn
    <3>4. QED
      BY <1>2, <2>1, <3>1, <3>2, <3>3
  <2>4. CASE UNCHANGED vars
    BY <1>2, <2>1, <2>4 DEF vars, fileVars, storage, CommandInv, NeverTorn
  <2>5. QED
    BY <2>2, <2>3, <2>4
<1>4. Types'
  <2>1. FilesTypeOK'
    BY <1>1, <1>3, FilesTypes DEF CommandInv, Types, TypeOK, FilesTypeOK
  <2>2. TypeOK'
    BY <1>1, <1>3, <2>1 DEF CommandInv, Types, TypeOK
  <2>3. QED
    BY <1>1, <1>3, <2>2 DEF CommandInv, Types
<1>5. \A d \in Writers : Command(d)'
  BY <1>1, Untouched DEF CommandInv
<1>6. QED
  BY <1>3, <1>4, <1>5 DEF CommandInv

LEMMA CommandStep == CommandInv /\ [Next]_vars => CommandInv'
<1> SUFFICES ASSUME CommandInv, [Next]_vars PROVE CommandInv'
  OBVIOUS
<1>1. ASSUME NEW c \in Writers,
             Begin(c) \/ Preflight(c) \/ WriteNext(c) \/ Writing(c) \/ Report(c) \/ Kill(c)
      PROVE  CommandInv'
  BY <1>1, BeginKeeps, PreflightKeeps, WriteNextKeeps, WritingKeeps, ReportKeeps, KillKeeps
<1>2. CASE LosePower
  BY <1>2, LosePowerKeeps
<1>3. CASE Meddle \/ Sync \/ Over \/ UNCHANGED vars
  BY <1>3, MeddleKeeps DEF Over
<1>4. QED
  BY <1>1, <1>2, <1>3 DEF Next

-----------------------------------------------------------------------------
(* Theorems *)

(* Calls, temporary files and commands keep their ranges.                  *)
THEOREM GenerateTypeCorrect == Spec => []TypeOK
<1>1. CommandInv => TypeOK
  BY DEF CommandInv, Types
<1>2. QED
  BY <1>1, CommandInit, CommandStep, PTL DEF Spec

(* A reader, now or after a power loss at any moment, sees a complete      *)
(* file: nothing is put in place before it is synced.                      *)
THEOREM FilesNeverTorn == Spec => []NeverTorn
<1>1. CommandInv => NeverTorn
  BY DEF CommandInv
<1>2. QED
  BY <1>1, CommandInit, CommandStep, PTL DEF Spec

(* A command that ends, run excepted, has printed exactly the files it put *)
(* in place, and any that succeeds has put all of its files in place.      *)
THEOREM ReportsAreTruthful == Spec => []ReportsWhatItInstalled
<1>1. CommandInv => ReportsWhatItInstalled
  BY DEF CommandInv, Command, Reporting, ReportsWhatItInstalled
<1>2. QED
  BY <1>1, CommandInit, CommandStep, PTL DEF Spec

-----------------------------------------------------------------------------
(* What a step does to the files *)

(* c puts the target it is at in place. *)
Puts(c) ==
  /\ stage[c] = "writing" /\ index[c] \in Files(c) /\ installed[c] = Before(c)
  /\ files' = [files EXCEPT ![Target(c)] = temp[c]] /\ temp[c].data = DataOf(c)
  /\ force[c] \/ files[Target(c)] = Absent
  /\ installed' = [installed EXCEPT ![c] = @ \union {index[c]}]
  /\ UNCHANGED interferences

Passes == UNCHANGED <<files, installed, interferences>>
Disturbs == interferences' # 0 /\ UNCHANGED installed

Underway == {"preflight", "next", "writing"}

(* A command compares its paths before it gets under way. *)
Compared(c) == stage'[c] \in Underway => stage[c] \in Underway \/ ~Collides(c)

LEMMA WritingPuts ==
  ASSUME CommandInv, NEW c \in Writers, Writing(c) PROVE Puts(c) \/ Passes
<1>1. /\ stage[c] = "writing" /\ Stepped(c) /\ UNCHANGED interferences
      /\ installed' = IF call'[c].outcome = "written"
           THEN [installed EXCEPT ![c] = @ \union {index[c]}] ELSE installed
  BY ProgressSteps DEF Writing
<1>2. /\ index[c] \in Files(c)
      /\ installed[c] =
           Before(c) \union (IF call[c].outcome = "written" THEN {index[c]} ELSE {})
      /\ installed \in [Writers -> SUBSET (1..Targets)]
  BY <1>1, CommandTypes DEF Reporting
<1>3. CASE Installs(c)
  BY <1>1, <1>2, <1>3 DEF Installs, Puts
<1>4. CASE Leaves(c) /\ call[c].outcome = "written"
  <2>1. index[c] \in installed[c]
    BY <1>2, <1>4
  <2>2. installed' = installed
    BY <1>1, <1>2, <1>4, <2>1 DEF Leaves
  <2>3. QED
    BY <1>1, <1>4, <2>2 DEF Leaves, Passes
<1>5. CASE Leaves(c) /\ call[c].outcome # "written"
  BY <1>1, <1>5 DEF Leaves, Passes
<1>6. QED
  BY <1>1, <1>3, <1>4, <1>5 DEF Stepped

LEMMA FilesStep ==
  ASSUME CommandInv, [Next]_vars
  PROVE  /\ UNCHANGED <<kind, layout, force>> /\ \A c \in Writers : Compared(c)
         /\ Passes \/ Disturbs \/ \E c \in Writers : Puts(c)
<1>1. ASSUME NEW c \in Writers, Begin(c)
      PROVE  /\ UNCHANGED <<kind, layout, force>> /\ Passes
             /\ \A d \in Writers : Compared(d)
  BY <1>1, CommandTypes DEF Begin, End, Passes, Compared, Underway, fileVars, storage, setting
<1>2. ASSUME NEW c \in Writers, Preflight(c)
      PROVE  /\ UNCHANGED <<kind, layout, force>> /\ Passes
             /\ \A d \in Writers : Compared(d)
  BY <1>2, CommandTypes DEF Preflight, End, Passes, Compared, Underway, fileVars, storage, setting
<1>3. ASSUME NEW c \in Writers, WriteNext(c)
      PROVE  /\ UNCHANGED <<kind, layout, force>> /\ Passes
             /\ \A d \in Writers : Compared(d)
  BY <1>3, CommandTypes DEF WriteNext, WriteAtomic, Passes, Compared, Underway, storage,
                            setting
<1>4. ASSUME NEW c \in Writers, Writing(c)
      PROVE  /\ UNCHANGED <<kind, layout, force>>
             /\ Passes \/ Puts(c)
             /\ \A d \in Writers : Compared(d)
  BY <1>4, WritingPuts DEF Writing, commandVars, setting, Compared
<1>5. ASSUME NEW c \in Writers, Report(c)
      PROVE  /\ UNCHANGED <<kind, layout, force>> /\ Passes
             /\ \A d \in Writers : Compared(d)
  <2>1. /\ UNCHANGED <<kind, layout, force, files, installed, interferences>>
        /\ stage[c] = "writing"
    BY <1>5 DEF Report, storage, setting
  <2>2. \E s : stage' = [stage EXCEPT ![c] = s]
    BY <1>5 DEF Report, End
  <2>3. QED
    BY <2>1, <2>2, CommandTypes DEF Passes, Compared, Underway
<1>6. ASSUME NEW c \in Writers, Kill(c)
      PROVE  /\ UNCHANGED <<kind, layout, force>> /\ Passes
             /\ \A d \in Writers : Compared(d)
  BY <1>6, CommandTypes DEF Kill, Killed, Passes, Compared, Underway, storage, setting
<1>7. interferences \in Nat
  BY GenerateAssumption DEF CommandInv, Types, TypeOK
<1>8. ASSUME LosePower
      PROVE  /\ UNCHANGED <<kind, layout, force>> /\ Disturbs
             /\ \A d \in Writers : Compared(d)
  BY <1>7, <1>8 DEF LosePower, Disturbs, setting, Compared, Underway
<1>9. ASSUME Meddle
      PROVE  /\ UNCHANGED <<kind, layout, force>> /\ Disturbs
             /\ \A d \in Writers : Compared(d)
  BY <1>7, <1>9 DEF Meddle, Disturbs, commandVars, setting, Compared
<1>10. ASSUME Sync \/ Over \/ UNCHANGED vars
       PROVE  /\ UNCHANGED <<kind, layout, force>> /\ Passes
              /\ \A d \in Writers : Compared(d)
  BY <1>10 DEF Sync, WriteBack, Over, vars, fileVars, storage, commandVars, setting, Passes,
                Compared
<1>11. ASSUME NEW c \in Writers,
              Begin(c) \/ Preflight(c) \/ WriteNext(c) \/ Writing(c) \/ Report(c) \/ Kill(c)
       PROVE  /\ UNCHANGED <<kind, layout, force>>
              /\ Passes \/ Puts(c)
              /\ \A d \in Writers : Compared(d)
  BY <1>1, <1>2, <1>3, <1>4, <1>5, <1>6, <1>11
<1>12. \/ \E c \in Writers :
            Begin(c) \/ Preflight(c) \/ WriteNext(c) \/ Writing(c) \/ Report(c) \/ Kill(c)
       \/ LosePower \/ Meddle \/ Sync \/ Over \/ UNCHANGED vars
  BY DEF Next
<1>13. QED
  BY <1>8, <1>9, <1>10, <1>11, <1>12

(* Without --force nothing that exists is ever replaced, not even what     *)
(* appears between the check of a target and its installation.             *)
THEOREM NothingReplacedWithoutForce == Spec => ReplacesOnlyWithForce
<1>1. ASSUME CommandInv, [Next]_vars
      PROVE  [\A c \in Writers : \A i \in Files(c) :
                (i \in installed'[c] \ installed[c] /\ ~force[c]) =>
                   files[layout.place[i]] = Absent]_vars
  <2>1. CASE Passes \/ Disturbs
    BY <2>1 DEF Passes, Disturbs
  <2>2. ASSUME NEW c \in Writers, Puts(c)
        PROVE  \A d \in Writers : \A i \in Files(d) :
                 (i \in installed'[d] \ installed[d] /\ ~force[d]) =>
                    files[layout.place[i]] = Absent
    BY <1>1, <2>2, CommandTypes DEF Puts, Target
  <2>3. QED
    BY <1>1, <2>1, <2>2, FilesStep
<1>2. QED
  BY <1>1, CommandInit, CommandStep, PTL DEF Spec, ReplacesOnlyWithForce

-----------------------------------------------------------------------------
(* Commands side by side *)

(* While nobody disturbs them and none is forced, the data that is shown   *)
(* was installed, and whoever installed something still holds its first    *)
(* target.  Only one can hold that, and who finds it taken goes no         *)
(* further: the others have installed nothing.                             *)
Shown == \A p \in Paths : files[p].data # NoData =>
           \E c \in Writers : \E i \in installed[c] : files[p].data = <<c, i>>
HoldsFirst == \A c \in Writers : 1 \in installed[c] => files[layout.place[1]].data = <<c, 1>>
Calm == interferences = 0 /\ \A c \in Writers : ~force[c]
OneWriter == Calm => Shown /\ HoldsFirst

LEMMA SomeData == ASSUME NEW c, NEW i PROVE <<c, i>> # NoData
<1>1. Len(<<c, i>>) = 2 /\ Len(NoData) = 0
  BY DEF NoData
<1>2. QED
  BY <1>1

LEMMA OneWriterInit == Init => OneWriter
<1> SUFFICES ASSUME Init PROVE OneWriter
  OBVIOUS
<1>1. \A p \in Paths : files[p] = Node("file", NoData, TRUE) \/ files[p] = Absent
  BY DEF Init, FilesInit
<1>2. \A p \in Paths : files[p].data = NoData
  BY <1>1, NodeTypes, AbsentType
<1>3. \A c \in Writers : installed[c] = {}
  BY DEF Init
<1>4. QED
  BY <1>2, <1>3 DEF OneWriter, Shown, HoldsFirst

LEMMA PutsFirst ==
  ASSUME CommandInv, OneWriter, Calm, NEW c \in Writers, Puts(c),
         NEW d \in Writers, installed[d] # {}
  PROVE  c = d /\ index[c] # 1
<1>1. 1 \in installed[d] /\ files[layout.place[1]].data = <<d, 1>>
  BY CommandTypes DEF Reporting, OneWriter, HoldsFirst
<1>2. files[Target(c)].data = NoData
  BY AbsentType DEF Puts, Calm
<1>3. index[c] # 1
  BY <1>1, <1>2, SomeData DEF Target
<1>4. 1 \in installed[c]
  BY <1>3, CommandTypes DEF Puts, Before
<1>5. <<c, 1>> = <<d, 1>>
  BY <1>1, <1>4 DEF OneWriter, HoldsFirst
<1>6. QED
  BY <1>3, <1>5

LEMMA OneWriterStep == CommandInv /\ OneWriter /\ [Next]_vars => OneWriter'
<1> SUFFICES ASSUME CommandInv, OneWriter, [Next]_vars, Calm' PROVE Shown' /\ HoldsFirst'
  BY DEF OneWriter
<1>1. UNCHANGED <<kind, layout, force>>
  BY FilesStep
<1>2. CASE Passes
  <2>1. Calm
    BY <1>1, <1>2 DEF Calm, Passes
  <2>2. QED
    BY <1>1, <1>2, <2>1 DEF Passes, OneWriter, Shown, HoldsFirst
<1>3. ASSUME NEW c \in Writers, Puts(c) PROVE Shown' /\ HoldsFirst'
  <2>1. Calm
    BY <1>1, <1>3 DEF Calm, Puts
  <2>2. /\ files' = [files EXCEPT ![layout.place[index[c]]] = temp[c]]
        /\ temp[c].data = <<c, index[c]>>
        /\ files \in [Paths -> Nodes] /\ layout.place[index[c]] \in Paths
    BY <1>3, FilesOfCommand DEF Puts, Target, DataOf, CommandInv, Types
  <2>3. /\ installed'[c] = installed[c] \union {index[c]}
        /\ \A d \in Writers \ {c} : installed'[d] = installed[d] /\ installed[d] = {}
    BY <1>3, <2>1, PutsFirst, CommandTypes DEF Puts
  <2>4. files[layout.place[index[c]]].data = NoData
    BY <1>3, <2>1, AbsentType DEF Puts, Calm, Target
  <2>5. ASSUME NEW p \in Paths, files'[p].data # NoData
        PROVE  \E d \in Writers : \E i \in installed'[d] : files'[p].data = <<d, i>>
    <3>1. CASE p = layout.place[index[c]]
      BY <2>2, <2>3, <3>1
    <3>2. CASE p # layout.place[index[c]]
      <4>1. files'[p] = files[p]
        BY <2>2, <3>2
      <4>2. PICK d \in Writers : \E i \in installed[d] : files[p].data = <<d, i>>
        BY <2>1, <2>5, <4>1 DEF OneWriter, Shown
      <4>3. installed[d] \subseteq installed'[d]
        BY <2>3
      <4>4. QED
        BY <4>1, <4>2, <4>3
    <3>3. QED
      BY <3>1, <3>2
  <2>6. ASSUME NEW d \in Writers, 1 \in installed'[d]
        PROVE  files'[layout.place[1]].data = <<d, 1>>
    <3>1. d = c
      BY <2>3, <2>6
    <3>2. CASE index[c] = 1
      BY <2>2, <3>1, <3>2
    <3>3. CASE index[c] # 1
      <4>1. files[layout.place[1]].data = <<c, 1>>
        BY <2>1, <2>3, <2>6, <3>1, <3>3 DEF OneWriter, HoldsFirst
      <4>2. layout.place[1] # layout.place[index[c]]
        BY <2>4, <4>1, SomeData
      <4>3. files'[layout.place[1]] = files[layout.place[1]]
        BY <2>2, <4>2
      <4>4. QED
        BY <3>1, <4>1, <4>3
    <3>4. QED
      BY <3>2, <3>3
  <2>7. QED
    BY <1>1, <2>5, <2>6 DEF Shown, HoldsFirst
<1>4. CASE Disturbs
  BY <1>4 DEF Disturbs, Calm
<1>5. QED
  BY <1>2, <1>3, <1>4, FilesStep

(* Commands that race for the same targets without --force never leave a   *)
(* mixture: every file of theirs comes from one of them.                   *)
THEOREM RacesNeverMix == Spec => []NeverMixed
<1>1. CommandInv /\ OneWriter => NeverMixed
  <2> SUFFICES ASSUME CommandInv, OneWriter, Calm, NEW p \in Paths, NEW q \in Paths,
                      files[p].data # NoData, files[q].data # NoData
               PROVE  files[p].data[1] = files[q].data[1]
    BY DEF NeverMixed, Calm
  <2>1. PICK c \in Writers : \E i \in installed[c] : files[p].data = <<c, i>>
    BY DEF OneWriter, Shown
  <2>2. PICK d \in Writers : \E j \in installed[d] : files[q].data = <<d, j>>
    BY DEF OneWriter, Shown
  <2>3. 1 \in installed[c] /\ 1 \in installed[d]
    BY <2>1, <2>2, CommandTypes DEF Reporting
  <2>4. <<c, 1>> = <<d, 1>>
    BY <2>3 DEF OneWriter, HoldsFirst
  <2>5. PICK i \in installed[c] : files[p].data = <<c, i>>
    BY <2>1
  <2>6. PICK j \in installed[d] : files[q].data = <<d, j>>
    BY <2>2
  <2>7. QED
    BY <2>4, <2>5, <2>6
<1>2. QED
  BY <1>1, CommandInit, CommandStep, OneWriterInit, OneWriterStep, PTL DEF Spec

-----------------------------------------------------------------------------
(* Every file in its place *)

(* What it read and what was there before is there until it installs, so   *)
(* that it recognises every alias but a fresh one.  The paths of a command *)
(* that tells them apart differ once it is under way; one without --force  *)
(* finds its next path free.  What is installed next therefore takes the   *)
(* place of nothing installed before, nor of what was read.                *)
Given(c) ==
  Undisturbed(c) /\ installed[c] = {} =>
    \A p \in Protected \union layout.earlier : files[p].kind = "file"
Separate(c) ==
  /\ \A i, j \in Files(c) : i # j => layout.place[i] # layout.place[j]
  /\ \A i \in Files(c) : layout.place[i] \notin Protected
Apart(c) ==
  /\ stage[c] \in Underway \/ installed[c] # {}
  /\ Undisturbed(c) /\ TellsApart(c)
  => Separate(c)
Kept(c) ==
  Undisturbed(c) /\ (force[c] => TellsApart(c)) =>
    /\ \A i \in installed[c] : files[layout.place[i]].data = <<c, i>>
    /\ \A p \in Protected : files[p] = Node("file", NoData, TRUE)
Placed == \A c \in Writers : Given(c) /\ Apart(c) /\ Kept(c)

LEMMA PlacedInit == Init => Placed
<1> SUFFICES ASSUME Init, NEW c \in Writers PROVE Given(c) /\ Apart(c) /\ Kept(c)
  BY DEF Placed
<1>1. stage[c] = "idle" /\ installed[c] = {}
  BY DEF Init
<1>2. \A p \in Protected \union layout.earlier : files[p] = Node("file", NoData, TRUE)
  BY GenerateAssumption DEF Init, FilesInit
<1>3. \A p \in Protected \union layout.earlier : files[p].kind = "file"
  BY <1>2, NodeTypes
<1>4. QED
  BY <1>1, <1>2, <1>3 DEF Given, Apart, Kept, Underway

(* Names that pass the comparison while what was there is there, and are   *)
(* no fresh aliases, lead to different paths.                              *)
LEMMA ComparedNamesDiffer ==
  ASSUME CommandInv, NEW c \in Writers, TellsApart(c), ~Collides(c),
         \A p \in Protected \union layout.earlier : files[p].kind = "file"
  PROVE  Separate(c)
<1>1. \A i \in Files(c) : layout.spelling[i] \in Spellings
  BY FilesOfCommand, GenerateAssumption DEF CommandInv, Types, TypeOK
<1>2. ASSUME NEW i \in Files(c), NEW j \in Files(c), i # j
      PROVE  layout.place[i] # layout.place[j]
  <2> SUFFICES ASSUME layout.place[i] = layout.place[j]
               PROVE  Recognised(layout.place[i], layout.spelling[i], layout.spelling[j])
    BY <1>2 DEF Collides, TellsApart
  <2>1. CASE layout.place[i] \in Protected \union layout.earlier
    BY <2>1 DEF Recognised
  <2>2. CASE layout.place[i] \notin Protected \union layout.earlier
    <3>1. \/ layout.spelling[i] = layout.spelling[j]
          \/ layout.foldsCase /\ "form" \notin {layout.spelling[i], layout.spelling[j]}
      BY <1>2, <2>2 DEF FreshAliases, TellsApart
    <3>2. QED
      BY <1>1, <3>1 DEF Recognised, Spellings
  <2>3. QED
    BY <2>1, <2>2
<1>3. ASSUME NEW i \in Files(c) PROVE layout.place[i] \notin Protected
  BY DEF Collides, Recognised, TellsApart
<1>4. QED
  BY <1>2, <1>3 DEF Separate

LEMMA PlacedStep == CommandInv /\ Placed /\ [Next]_vars => Placed'
<1> SUFFICES ASSUME CommandInv, Placed, [Next]_vars,
                    NEW c \in Writers
             PROVE  Given(c)' /\ Apart(c)' /\ Kept(c)'
  BY DEF Placed
<1>1. UNCHANGED <<kind, layout, force>> /\ Compared(c)
  BY FilesStep
<1>2. /\ Given(c) /\ Apart(c) /\ Kept(c)
      /\ Files(c)' = Files(c) /\ Separate(c)' = Separate(c)
      /\ TellsApart(c)' = TellsApart(c)
  BY <1>1 DEF Placed, Files, Separate, TellsApart, FreshAliases
<1>3. CASE Passes
  <2>1. Undisturbed(c)' = Undisturbed(c)
    BY <1>3 DEF Passes, Undisturbed
  <2>2. Given(c)' /\ Kept(c)'
    BY <1>1, <1>2, <1>3, <2>1 DEF Passes, Given, Kept
  <2>3. ASSUME stage'[c] \in Underway \/ installed'[c] # {}, Undisturbed(c), TellsApart(c)
        PROVE  Separate(c)
    <3>1. CASE stage[c] \in Underway \/ installed[c] # {}
      BY <1>2, <2>3, <3>1 DEF Apart
    <3>2. CASE stage[c] \notin Underway /\ installed[c] = {}
      <4>1. ~Collides(c)
        BY <1>1, <1>3, <2>3, <3>2 DEF Passes, Compared
      <4>2. QED
        BY <1>2, <2>3, <3>2, <4>1, ComparedNamesDiffer DEF Given
    <3>3. QED
      BY <3>1, <3>2
  <2>4. Apart(c)'
    BY <1>2, <2>1, <2>3 DEF Apart
  <2>5. QED
    BY <2>2, <2>4
<1>4. ASSUME NEW d \in Writers, Puts(d) PROVE Given(c)' /\ Apart(c)' /\ Kept(c)'
  <2>1. /\ installed'[d] = installed[d] \union {index[d]} /\ interferences' = interferences
        /\ \A e \in Writers \ {d} : installed'[e] = installed[e]
    BY <1>4, CommandTypes DEF Puts
  <2>2. CASE d # c
    <3>1. ~Undisturbed(c)'
      BY <2>1, <2>2 DEF Undisturbed
    <3>2. QED
      BY <3>1 DEF Given, Apart, Kept
  <2>3. CASE d = c
    <3>1. /\ Undisturbed(c)' => Undisturbed(c)
          /\ Undisturbed(c) /\ TellsApart(c) => Separate(c)
      BY <1>2, <1>4, <2>1, <2>3 DEF Puts, Apart, Underway, Undisturbed
    <3>2. Given(c)' /\ Apart(c)'
      BY <1>2, <2>1, <2>3, <3>1 DEF Given, Apart
    <3>3. ASSUME Undisturbed(c)', force[c] => TellsApart(c)
          PROVE  /\ \A i \in installed'[c] : files'[layout.place[i]].data = <<c, i>>
                 /\ \A p \in Protected : files'[p] = Node("file", NoData, TRUE)
      <4>1. /\ \A i \in installed[c] : files[layout.place[i]].data = <<c, i>>
            /\ \A p \in Protected : files[p] = Node("file", NoData, TRUE)
        BY <1>2, <3>1, <3>3 DEF Kept
      <4>2. /\ files' = [files EXCEPT ![layout.place[index[c]]] = temp[c]]
            /\ temp[c].data = <<c, index[c]>> /\ index[c] \in Files(c)
            /\ files \in [Paths -> Nodes] /\ layout.place[index[c]] \in Paths
        BY <1>4, <2>3, FilesOfCommand DEF Puts, Target, DataOf, CommandInv, Types
      <4>3. /\ \A i \in installed[c] :
                 i # index[c] => layout.place[i] # layout.place[index[c]]
            /\ layout.place[index[c]] \notin Protected
        <5>1. CASE force[c]
          <6>1. Separate(c) /\ installed[c] \subseteq Files(c)
            BY <3>1, <3>3, <5>1, CommandTypes DEF Reporting
          <6>2. QED
            BY <4>2, <6>1 DEF Separate
        <5>2. CASE ~force[c]
          <6>1. files[layout.place[index[c]]] = Absent
            BY <1>4, <2>3, <5>2 DEF Puts, Target
          <6>2. /\ Absent.data = NoData /\ Absent.kind = "absent"
                /\ Node("file", NoData, TRUE).kind = "file"
            BY NodeTypes DEF Absent
          <6>3. QED
            BY <4>1, <6>1, <6>2, SomeData
        <5>3. QED
          BY <5>1, <5>2
      <4>4. ASSUME NEW i \in installed'[c] PROVE files'[layout.place[i]].data = <<c, i>>
        <5>1. CASE i = index[c]
          BY <4>2, <5>1
        <5>2. CASE i # index[c]
          <6>1. i \in installed[c] /\ i \in Files(c)
            BY <2>1, <2>3, <5>2, CommandTypes DEF Reporting
          <6>2. files'[layout.place[i]] = files[layout.place[i]]
            BY <4>2, <4>3, <5>2, <6>1, FilesOfCommand DEF CommandInv
          <6>3. QED
            BY <4>1, <6>1, <6>2
        <5>3. QED
          BY <5>1, <5>2
      <4>5. ASSUME NEW p \in Protected PROVE files'[p] = Node("file", NoData, TRUE)
        <5>1. files'[p] = files[p]
          BY <4>2, <4>3, GenerateAssumption
        <5>2. QED
          BY <4>1, <5>1
      <4>6. QED
        BY <4>4, <4>5
    <3>4. QED
      BY <1>1, <1>2, <3>2, <3>3 DEF Kept
  <2>4. QED
    BY <2>2, <2>3
<1>5. CASE Disturbs
  BY <1>5 DEF Disturbs, Given, Apart, Kept, Undisturbed
<1>6. QED
  BY <1>3, <1>4, <1>5, FilesStep

(* After a command that succeeds, undisturbed, every name leads to the     *)
(* file written for it, and the files it read are as they were, wherever   *)
(* the names lead and however they are spelled: without --force always,    *)
(* and with it for a command that tells its files apart.                   *)
THEOREM EachFileInItsPlace == Spec => []EachInItsPlace
<1>1. CommandInv /\ Placed => EachInItsPlace
  <2> SUFFICES ASSUME CommandInv, Placed, NEW c \in Writers, stage[c] = "ended",
                      exit[c] = 0, Undisturbed(c), force[c] => TellsApart(c)
               PROVE  /\ \A i \in Files(c) : files[layout.place[i]].data = <<c, i>>
                      /\ \A p \in Protected : files[p] = Node("file", NoData, TRUE)
    BY DEF EachInItsPlace
  <2>1. installed[c] = Files(c)
    BY CommandTypes DEF Reporting
  <2>2. QED
    BY <2>1 DEF Placed, Kept
<1>2. QED
  BY <1>1, CommandInit, CommandStep, PlacedInit, PlacedStep, PTL DEF Spec

=============================================================================
