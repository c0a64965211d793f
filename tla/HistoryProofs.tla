----------------------------- MODULE HistoryProofs -----------------------------
(***************************************************************************)
(* Theorems about the status history, for any number of schedulers and     *)
(* runs, any limits and any sizes: no kill, power loss or clock step ever  *)
(* leaves a file the next Append refuses, the file is always a             *)
(* subsequence of what was stored, and without races and power losses it   *)
(* holds the newest runs.                                                  *)
(***************************************************************************)
EXTENDS History, SequenceTheorems, FiniteSetTheorems, WellFoundedInduction, TLAPS

Nodes == [kind : {"absent", "file"}, data : Seq(Run), synced : BOOLEAN, torn : BOOLEAN]
Calls == [step : CallSteps, path : Paths \union {""}, data : Seq(Run),
          force : BOOLEAN, outcome : Outcomes]
Stages == {"idle", "read", "append", "writing"}

Types ==
  /\ files \in [Paths -> Nodes] /\ durable \in [Paths -> Nodes]
  /\ temp \in [Writers -> Nodes] /\ call \in [Writers -> Calls]
  /\ stage \in [Writers -> Stages] /\ run \in [Writers -> Run \union {NoRun}]
  /\ limit \in [Writers -> 0..MaxRuns] /\ snapshot \in [Writers -> Seq(Run)]
  /\ started \in 0..MaxStarted /\ log \in Seq(Run)
  /\ raced \in BOOLEAN /\ losses \in 0..MaxPowerLosses

(* A subsequence of what was stored: in its order, with nothing twice.     *)
Placed(d, stored, i, j) ==
  \E k, l \in 1..Len(stored) :
    (i < j => k < l) /\ stored[k] = d[i] /\ stored[l] = d[j]
InLog(d, stored) == \A i, j \in 1..Len(d) : i <= j => Placed(d, stored, i, j)

(* A file no reader refuses, that no power loss tears.                     *)
Fitting(d) == d # << >> /\ Bytes(d) <= MaxFileBytes /\ Valid(d)
Sound(node) ==
  \/ node = Absent
  \/ node.kind = "file" /\ ~node.torn /\ node.synced /\ Fitting(node.data)

(* What a writer puts in place: its run after the newest it read.          *)
Builds(d, read, r) == \E n \in 1..(Len(read) + 1) : d = Newest(Append(read, r), n)

(* A writer is in a call of WriteAtomic for the document it built, or in   *)
(* none.                                                                   *)
Calling(w) ==
  /\ stage[w] # "writing" => call[w] = NoCall
  /\ stage[w] = "writing" =>
       /\ call[w].step # "idle" /\ call[w].path = Path /\ call[w].force
       /\ Fitting(call[w].data) /\ Builds(call[w].data, snapshot[w], run[w])
  /\ call[w].step \in {"check", "create", "write", "sync", "commit"} =>
       call[w].outcome = "none"

(* A temporary file holds its data before it is synced, and is synced      *)
(* before it is put in place.                                              *)
Filling(w) ==
  /\ ~temp[w].torn
  /\ call[w].step \in {"sync", "commit"} => temp[w].kind = "file" /\ temp[w].data = call[w].data
  /\ call[w].step = "write" => temp[w].kind = "file"
  /\ call[w].step = "commit" => temp[w].synced

(* A run that is in progress is no other writer's, and not stored before   *)
(* its own call puts it in place.                                          *)
Own(w) ==
  stage[w] # "idle" =>
    /\ run[w] \in Run /\ run[w].id \in 1..started
    /\ \A v \in Writers \ {w} : stage[v] # "idle" => run[v].id # run[w].id
    /\ call[w].outcome # "written" => \A k \in 1..Len(log) : log[k].id # run[w].id

Writer(w) == Calling(w) /\ Filling(w) /\ Own(w) /\ InLog(snapshot[w], log)

(* Every stored run was started, and none is stored twice.                 *)
Stored ==
  /\ \A k \in 1..Len(log) : log[k].id \in 1..started
  /\ \A k, l \in 1..Len(log) : log[k].id = log[l].id => k = l

Newer ==
  ~raced /\ losses = 0 =>
    LET d == files[Path].data IN
    /\ Len(d) <= Len(log) /\ d = Newest(log, Len(d))
    /\ log # << >> => d # << >>

Shown ==
  \A p \in Paths : /\ Sound(files[p]) /\ Sound(durable[p])
                   /\ InLog(files[p].data, log) /\ InLog(durable[p].data, log)

HistoryInv == Types /\ Shown /\ Stored /\ Newer /\ \A w \in Writers : Writer(w)

-----------------------------------------------------------------------------
(* Sequences of runs *)

LEMMA Constants ==
  /\ MaxRuns \in Nat /\ MaxFileBytes \in Nat /\ MaxStarted \in Nat /\ MaxPowerLosses \in Nat
  /\ Sizes \subseteq Nat \ {0} /\ Limits \subseteq Int /\ Path \in Paths
<1>1. Paths # {}
  BY HistoryAssumption, FS_EmptySet
<1>2. QED
  BY <1>1, HistoryAssumption DEF Path

(* The newest n of a history of at least n runs. *)
LEMMA NewestRuns ==
  ASSUME NEW S, NEW s \in Seq(S), NEW n \in 0..Len(s)
  PROVE  /\ Newest(s, n) \in Seq(S) /\ Len(Newest(s, n)) = n
         /\ \A i \in 1..n : Newest(s, n)[i] = s[Len(s) - n + i]
<1>1. Len(s) \in Nat /\ n \in Nat /\ Len(s) - n + 1 \in Int
  BY LenProperties
<1>2. \A i \in (Len(s) - n + 1)..Len(s) : s[i] \in S
  BY <1>1, ElementOfSeq
<1>3. QED
  BY <1>1, <1>2, SubSeqProperties DEF Newest

LEMMA NewestAll ==
  ASSUME NEW S, NEW s \in Seq(S)
  PROVE  Newest(s, 0) = << >> /\ Newest(s, Len(s)) = s
<1>1. Len(s) \in Nat
  BY LenProperties
<1>2. Newest(s, 0) = << >>
  BY <1>1, SubSeqEmpty DEF Newest
<1>3. Newest(s, Len(s)) = s
  BY <1>1, SubSeqFull DEF Newest
<1>4. QED
  BY <1>2, <1>3

(* Storing keeps what is in the log there. *)
LEMMA InLongerLog ==
  ASSUME NEW d \in Seq(Run), NEW stored \in Seq(Run), NEW r \in Run, InLog(d, stored)
  PROVE  InLog(d, Append(stored, r))
<1> DEFINE t == Append(stored, r)
<1>1. /\ Len(stored) \in Nat /\ Len(t) = Len(stored) + 1
      /\ \A i \in 1..Len(stored) : t[i] = stored[i]
  BY AppendProperties, LenProperties
<1> HIDE DEF t
<1>2. ASSUME NEW i \in 1..Len(d), NEW j \in 1..Len(d), i <= j PROVE Placed(d, t, i, j)
  <2>1. PICK k \in 1..Len(stored), l \in 1..Len(stored) :
          (i < j => k < l) /\ stored[k] = d[i] /\ stored[l] = d[j]
    BY <1>2 DEF InLog, Placed
  <2>2. k \in 1..Len(t) /\ l \in 1..Len(t)
    BY <1>1
  <2>3. QED
    BY <1>1, <2>1, <2>2 DEF Placed
<1>3. InLog(d, t)
  BY <1>2 DEF InLog
<1>4. QED
  BY <1>3 DEF t

LEMMA InLogNewest ==
  ASSUME NEW d \in Seq(Run), NEW stored \in Seq(Run), InLog(d, stored), NEW n \in 0..Len(d)
  PROVE  InLog(Newest(d, n), stored)
<1> DEFINE e == Newest(d, n)
<1>1. /\ Len(d) \in Nat /\ Len(e) = n
      /\ \A i \in 1..n : e[i] = d[Len(d) - n + i]
  BY NewestRuns, LenProperties
<1> HIDE DEF e
<1>2. ASSUME NEW i \in 1..Len(e), NEW j \in 1..Len(e), i <= j PROVE Placed(e, stored, i, j)
  <2>1. /\ Len(d) - n + i \in 1..Len(d) /\ Len(d) - n + j \in 1..Len(d)
        /\ Len(d) - n + i <= Len(d) - n + j
        /\ i < j => Len(d) - n + i < Len(d) - n + j
    BY <1>1, <1>2
  <2>2. PICK k \in 1..Len(stored), l \in 1..Len(stored) :
          /\ Len(d) - n + i < Len(d) - n + j => k < l
          /\ stored[k] = d[Len(d) - n + i] /\ stored[l] = d[Len(d) - n + j]
    BY <2>1 DEF InLog, Placed
  <2>3. e[i] = d[Len(d) - n + i] /\ e[j] = d[Len(d) - n + j]
    BY <1>1
  <2>4. QED
    BY <2>1, <2>2, <2>3 DEF Placed
<1>3. InLog(e, stored)
  BY <1>2 DEF InLog
<1>4. QED
  BY <1>3 DEF e

LEMMA InLogAppend ==
  ASSUME NEW d \in Seq(Run), NEW stored \in Seq(Run), NEW r \in Run, InLog(d, stored)
  PROVE  InLog(Append(d, r), Append(stored, r))
<1> DEFINE a == Append(d, r)
           t == Append(stored, r)
<1>1. /\ Len(d) \in Nat /\ Len(a) = Len(d) + 1 /\ a[Len(d) + 1] = r
      /\ \A i \in 1..Len(d) : a[i] = d[i]
  BY AppendProperties, LenProperties
<1>2. /\ Len(stored) \in Nat /\ Len(t) = Len(stored) + 1 /\ t[Len(stored) + 1] = r
      /\ \A i \in 1..Len(stored) : t[i] = stored[i]
  BY AppendProperties, LenProperties
<1> HIDE DEF a, t
<1>3. ASSUME NEW i \in 1..Len(a), NEW j \in 1..Len(a), i <= j PROVE Placed(a, t, i, j)
  <2>1. CASE j \in 1..Len(d)
    <3>1. i \in 1..Len(d)
      BY <1>1, <1>3, <2>1
    <3>2. PICK k \in 1..Len(stored), l \in 1..Len(stored) :
            (i < j => k < l) /\ stored[k] = d[i] /\ stored[l] = d[j]
      BY <1>3, <2>1, <3>1 DEF InLog, Placed
    <3>3. k \in 1..Len(t) /\ l \in 1..Len(t) /\ t[k] = a[i] /\ t[l] = a[j]
      BY <1>1, <1>2, <2>1, <3>1, <3>2
    <3>4. QED
      BY <3>2, <3>3 DEF Placed
  <2>2. CASE j = Len(d) + 1
    <3>1. CASE i = j
      BY <1>1, <1>2, <2>2, <3>1 DEF Placed
    <3>2. CASE i # j
      <4>1. i \in 1..Len(d) /\ i <= i
        BY <1>1, <1>3, <2>2, <3>2
      <4>2. PICK k \in 1..Len(stored) : stored[k] = d[i]
        BY <4>1 DEF InLog, Placed
      <4>3. /\ k \in 1..Len(t) /\ Len(stored) + 1 \in 1..Len(t) /\ k < Len(stored) + 1
            /\ t[k] = a[i] /\ t[Len(stored) + 1] = a[j]
        BY <1>1, <1>2, <2>2, <4>1, <4>2
      <4>4. QED
        BY <4>2, <4>3 DEF Placed
    <3>3. QED
      BY <3>1, <3>2
  <2>3. QED
    BY <1>1, <1>3, <2>1, <2>2
<1>4. QED
  BY <1>3 DEF InLog, a, t

(* The newest of all stored, and the run after them, are the newest again. *)
LEMMA NewestOfNewest ==
  ASSUME NEW stored \in Seq(Run), NEW r \in Run, NEW m \in 0..Len(stored),
         NEW n \in 1..(m + 1)
  PROVE  Newest(Append(Newest(stored, m), r), n) = Newest(Append(stored, r), n)
<1> DEFINE d == Newest(stored, m)
           a == Append(d, r)
           t == Append(stored, r)
<1>1. /\ Len(stored) \in Nat /\ d \in Seq(Run) /\ Len(d) = m
      /\ \A i \in 1..m : d[i] = stored[Len(stored) - m + i]
  BY NewestRuns, LenProperties
<1>2. /\ a \in Seq(Run) /\ Len(a) = m + 1 /\ a[m + 1] = r
      /\ \A i \in 1..m : a[i] = d[i]
  BY <1>1, AppendProperties
<1>3. /\ t \in Seq(Run) /\ Len(t) = Len(stored) + 1 /\ t[Len(stored) + 1] = r
      /\ \A i \in 1..Len(stored) : t[i] = stored[i]
  BY AppendProperties
<1> HIDE DEF d, a, t
<1>4. /\ Newest(a, n) \in Seq(Run) /\ Len(Newest(a, n)) = n
      /\ \A i \in 1..n : Newest(a, n)[i] = a[m + 1 - n + i]
  <2>1. n \in 0..Len(a)
    BY <1>1, <1>2
  <2>2. QED
    BY <1>2, <2>1, NewestRuns
<1>5. /\ Newest(t, n) \in Seq(Run) /\ Len(Newest(t, n)) = n
      /\ \A i \in 1..n : Newest(t, n)[i] = t[Len(stored) + 1 - n + i]
  <2>1. n \in 0..Len(t) /\ t \in Seq(Run)
    BY <1>1, <1>3
  <2>2. /\ Newest(t, n) \in Seq(Run) /\ Len(Newest(t, n)) = n
        /\ \A i \in 1..n : Newest(t, n)[i] = t[Len(t) - n + i]
    BY <2>1, NewestRuns
  <2>3. Len(t) = Len(stored) + 1
    BY <1>3
  <2>4. QED
    BY <2>2, <2>3
<1>6. ASSUME NEW i \in 1..n PROVE Newest(a, n)[i] = Newest(t, n)[i]
  <2>1. CASE i = n
    <3>1. m + 1 - n + i = m + 1 /\ Len(stored) + 1 - n + i = Len(stored) + 1
      BY <1>1, <2>1
    <3>2. QED
      BY <1>2, <1>3, <1>4, <1>5, <3>1
  <2>2. CASE i # n
    <3>1. /\ m + 1 - n + i \in 1..m /\ Len(stored) + 1 - n + i \in 1..Len(stored)
          /\ Len(stored) - m + (m + 1 - n + i) = Len(stored) + 1 - n + i
      BY <1>1, <2>2
    <3>2. Newest(a, n)[i] = stored[Len(stored) + 1 - n + i]
      BY <1>1, <1>2, <1>4, <3>1
    <3>3. Newest(t, n)[i] = stored[Len(stored) + 1 - n + i]
      BY <1>3, <1>5, <3>1
    <3>4. QED
      BY <3>2, <3>3
  <2>3. QED
    BY <2>1, <2>2
<1>7. Newest(a, n) = Newest(t, n)
  BY <1>4, <1>5, <1>6, SeqEqual
<1>8. QED
  BY <1>7 DEF a, t, d

(* Among the numbers of runs that fit there is a largest one.              *)
LEMMA LargestThatFits ==
  ASSUME NEW runs, NEW most \in Nat
  PROVE  \E n \in 0..most : Fits(runs, n) /\ \A m \in (n + 1)..most : ~Fits(runs, m)
<1> DEFINE T == {x \in 0..most : Fits(runs, most - x)}
<1>1. T \subseteq Nat
  OBVIOUS
<1>2. T # {}
  <2>1. most \in 0..most /\ most - most = 0
    OBVIOUS
  <2>2. Fits(runs, most - most)
    BY <2>1 DEF Fits
  <2>3. QED
    BY <2>1, <2>2
<1>3. PICK x \in T : \A y \in T : ~(<<y, x>> \in OpToRel(<, Nat))
  BY <1>1, <1>2, NatLessThanWellFounded, WFMin
<1>4. x \in 0..most /\ Fits(runs, most - x)
  BY <1>3
<1>5. ASSUME NEW m \in (most - x + 1)..most PROVE ~Fits(runs, m)
  <2>1. most - m \in 0..most /\ most - (most - m) = m /\ most - m < x
    BY <1>4
  <2>2. <<most - m, x>> \in OpToRel(<, Nat)
    BY <1>4, <2>1 DEF OpToRel
  <2>3. most - m \notin T
    BY <1>3, <2>2
  <2>4. QED
    BY <2>1, <2>3
<1>6. most - x \in 0..most
  BY <1>4
<1>7. QED
  BY <1>4, <1>5, <1>6

(* What is written is the newest runs, and as few bytes as a reader takes. *)
LEMMA BoundedRuns ==
  ASSUME NEW runs \in Seq(Run), NEW lim \in Nat
  PROVE  \E n \in 0..Len(runs) :
           /\ Bounded(runs, lim) = Newest(runs, n)
           /\ n # 0 => Bytes(Bounded(runs, lim)) <= MaxFileBytes
<1> DEFINE most == Smaller(lim, Len(runs))
           n == CHOOSE n \in 0..most :
                  Fits(runs, n) /\ \A m \in (n + 1)..most : ~Fits(runs, m)
<1>1. most \in Nat /\ most <= Len(runs)
  BY LenProperties DEF Smaller
<1>2. n \in 0..most /\ Fits(runs, n)
  BY <1>1, LargestThatFits
<1>3. Bounded(runs, lim) = Newest(runs, n)
  BY DEF Bounded
<1>4. Len(runs) \in Nat
  BY LenProperties
<1> HIDE DEF n, most
<1>5. n \in 0..Len(runs)
  BY <1>1, <1>2, <1>4
<1>6. QED
  BY <1>2, <1>3, <1>5 DEF Fits

-----------------------------------------------------------------------------
(* The first state *)

LEMMA NoDataLog == ASSUME NEW stored PROVE NoData \in Seq(Run) /\ InLog(NoData, stored)
<1>1. NoData \in Seq(Run) /\ Len(NoData) = 0
  BY EmptySeq DEF NoData
<1>2. 1..Len(NoData) = {}
  BY <1>1
<1>3. QED
  BY <1>1, <1>2 DEF InLog

LEMMA AbsentType ==
  /\ Absent \in Nodes /\ ~Absent.torn /\ Absent.synced /\ Absent.data = NoData
  /\ Absent.kind = "absent"
BY NoDataLog DEF Absent, Node, Nodes

LEMMA NewFileType ==
  LET node == Node("file", NoData, FALSE) IN
  node \in Nodes /\ ~node.torn /\ node.kind = "file"
BY NoDataLog DEF Node, Nodes

LEMMA NoCallType ==
  /\ NoCall \in Calls /\ NoCall.step = "idle" /\ NoCall.outcome = "none"
BY NoDataLog DEF NoCall, Calls, CallSteps, Outcomes

LEMMA StepNames ==
  /\ {"idle", "check", "create", "write", "sync", "commit", "remove", "done"} = CallSteps
  /\ {"none", "written", "refused", "error"} = Outcomes
BY DEF CallSteps, Outcomes

(* There is no file, and nobody is at work.                                *)
LEMMA InitHistoryInv == Init => HistoryInv
<1> SUFFICES ASSUME Init PROVE HistoryInv
  OBVIOUS
<1>1. /\ files = [p \in Paths |-> Absent] /\ durable = files
      /\ temp = [w \in Writers |-> Absent] /\ call = [w \in Writers |-> NoCall]
  BY DEF Init, FilesInit
<1>2. /\ stage = [w \in Writers |-> "idle"] /\ run = [w \in Writers |-> NoRun]
      /\ limit = [w \in Writers |-> 0] /\ snapshot = [w \in Writers |-> NoData]
      /\ started = 0 /\ log = << >> /\ raced = FALSE /\ losses = 0
  BY DEF Init
<1>3. log \in Seq(Run) /\ Len(log) = 0
  BY <1>2, EmptySeq
<1>4. Types
  <2>1. /\ files \in [Paths -> Nodes] /\ durable \in [Paths -> Nodes]
        /\ temp \in [Writers -> Nodes] /\ call \in [Writers -> Calls]
    BY <1>1, AbsentType, NoCallType
  <2>2. /\ stage \in [Writers -> Stages] /\ run \in [Writers -> Run \union {NoRun}]
        /\ snapshot \in [Writers -> Seq(Run)]
    BY <1>2, NoDataLog DEF Stages
  <2>3. /\ limit \in [Writers -> 0..MaxRuns] /\ started \in 0..MaxStarted
        /\ raced \in BOOLEAN /\ losses \in 0..MaxPowerLosses
    <3>1. 0 \in 0..MaxRuns /\ 0 \in 0..MaxStarted /\ 0 \in 0..MaxPowerLosses
      BY Constants
    <3>2. QED
      BY <1>2, <3>1
  <2>4. QED
    BY <1>3, <2>1, <2>2, <2>3 DEF Types
<1>5. Shown
  BY <1>1, AbsentType, NoDataLog DEF Shown, Sound
<1>6. Stored
  BY <1>3 DEF Stored
<1>7. Newer
  <2>1. files[Path].data = NoData
    BY <1>1, Constants, AbsentType
  <2>2. Len(NoData) = 0 /\ NoData = << >>
    BY EmptySeq DEF NoData
  <2>3. Newest(log, 0) = << >>
    BY <1>3, NewestAll
  <2>4. QED
    BY <1>2, <1>3, <2>1, <2>2, <2>3 DEF Newer
<1>8. ASSUME NEW w \in Writers PROVE Writer(w)
  <2>1. /\ call[w] = NoCall /\ temp[w] = Absent /\ stage[w] = "idle" /\ snapshot[w] = NoData
    BY <1>1, <1>2
  <2>2. QED
    BY <2>1, NoCallType, AbsentType, NoDataLog DEF Writer, Calling, Filling, Own
<1>9. QED
  BY <1>4, <1>5, <1>6, <1>7, <1>8 DEF HistoryInv

-----------------------------------------------------------------------------
(* One step of WriteAtomic *)

(* The call of w is as it was but for its step and its outcome, the calls  *)
(* of the others as they were.                                             *)
SameCall(w) ==
  /\ call'[w].path = call[w].path /\ call'[w].data = call[w].data
  /\ call'[w].force = call[w].force
  /\ \A v \in Writers \ {w} : call'[v] = call[v]

LEMMA StepType ==
  ASSUME call \in [Writers -> Calls], NEW w \in Writers, NEW from, NEW to \in CallSteps,
         Step(w, from, to)
  PROVE  /\ call' \in [Writers -> Calls] /\ SameCall(w)
         /\ call[w].step = from /\ call'[w].step = to /\ call'[w].outcome = call[w].outcome
BY DEF Step, SameCall, Calls

LEMMA ReturnType ==
  ASSUME call \in [Writers -> Calls], NEW w \in Writers, NEW from, NEW to \in CallSteps,
         NEW outcome \in Outcomes, Return(w, from, to, outcome)
  PROVE  /\ call' \in [Writers -> Calls] /\ SameCall(w)
         /\ call[w].step = from /\ call'[w].step = to /\ call'[w].outcome = outcome
BY DEF Return, SameCall, Calls

(* What is put in place is the complete, synced document.                  *)
Installs(w) ==
  /\ call[w].step = "commit" /\ call[w].outcome = "none" /\ call'[w].outcome = "written"
  /\ files' = [files EXCEPT ![Path] = temp[w]]
  /\ temp[w].kind = "file" /\ temp[w].data = call[w].data
  /\ temp[w].synced /\ ~temp[w].torn

Leaves(w) ==
  /\ files' = files /\ (call[w].outcome = "written" => call'[w].outcome = "written")
  /\ ~(call[w].step = "commit" /\ call'[w].outcome = "written")

(* A call after one of its steps. *)
Stepped(w) ==
  /\ call' \in [Writers -> Calls] /\ SameCall(w) /\ call'[w].step # "idle"
  /\ temp' \in [Writers -> Nodes] /\ \A v \in Writers \ {w} : temp'[v] = temp[v]
  /\ Filling(w)'
  /\ call'[w].step \in {"check", "create", "write", "sync", "commit"} =>
       call'[w].outcome = "none"
  /\ durable' = durable
  /\ Installs(w) \/ Leaves(w)

LEMMA ProgressSteps ==
  ASSUME HistoryInv, NEW w \in Writers, stage[w] = "writing", Progress(w)
  PROVE  Stepped(w)
<1>1. /\ call \in [Writers -> Calls] /\ temp \in [Writers -> Nodes]
      /\ Calling(w) /\ Filling(w) /\ call[w].path = Path /\ call[w].force
  BY DEF HistoryInv, Types, Writer, Calling
<1>2. CASE CheckTarget(w)
  <2>1. temp' = temp /\ files' = files /\ durable' = durable
    BY <1>2 DEF CheckTarget, storage
  <2>2. CASE Return(w, "check", "done", "refused")
    <3>1. /\ call' \in [Writers -> Calls] /\ SameCall(w) /\ call[w].step = "check"
          /\ call'[w].step = "done" /\ call'[w].outcome = "refused"
      BY <1>1, <2>2, ReturnType, StepNames
    <3>2. QED
      BY <1>1, <2>1, <3>1 DEF Stepped, Leaves, Calling, Filling
  <2>3. CASE Step(w, "check", "create")
    <3>1. /\ call' \in [Writers -> Calls] /\ SameCall(w) /\ call[w].step = "check"
          /\ call'[w].step = "create" /\ call'[w].outcome = call[w].outcome
      BY <1>1, <2>3, StepType, StepNames
    <3>2. QED
      BY <1>1, <2>1, <3>1 DEF Stepped, Leaves, Calling, Filling
  <2>4. QED
    BY <1>2, <2>2, <2>3 DEF CheckTarget
<1>3. CASE CreateTemp(w)
  <2>1. /\ call' \in [Writers -> Calls] /\ SameCall(w) /\ call[w].step = "create"
        /\ call'[w].step = "write" /\ call'[w].outcome = call[w].outcome
    BY <1>1, <1>3, StepType, StepNames DEF CreateTemp
  <2>2. /\ temp' = [temp EXCEPT ![w] = Node("file", NoData, FALSE)]
        /\ files' = files /\ durable' = durable
    BY <1>3 DEF CreateTemp, storage
  <2>3. /\ temp' \in [Writers -> Nodes] /\ temp'[w].kind = "file" /\ ~temp'[w].torn
        /\ \A v \in Writers \ {w} : temp'[v] = temp[v]
    BY <1>1, <2>2, NewFileType
  <2>4. QED
    BY <1>1, <2>1, <2>2, <2>3 DEF Stepped, Leaves, Calling, Filling
<1>4. CASE WriteTemp(w)
  <2>1. /\ call' \in [Writers -> Calls] /\ SameCall(w) /\ call[w].step = "write"
        /\ call'[w].step = "sync" /\ call'[w].outcome = call[w].outcome
    BY <1>1, <1>4, StepType, StepNames DEF WriteTemp
  <2>2. /\ temp' = [temp EXCEPT ![w].data = call[w].data]
        /\ files' = files /\ durable' = durable
    BY <1>4 DEF WriteTemp, storage
  <2>3. call[w].data \in Seq(Run)
    BY <1>1 DEF Calls
  <2>4. /\ temp' \in [Writers -> Nodes] /\ temp'[w].kind = temp[w].kind
        /\ temp'[w].torn = temp[w].torn /\ temp'[w].data = call[w].data
        /\ \A v \in Writers \ {w} : temp'[v] = temp[v]
    BY <1>1, <2>2, <2>3 DEF Nodes
  <2>5. QED
    BY <1>1, <2>1, <2>2, <2>4 DEF Stepped, SameCall, Leaves, Calling, Filling
<1>5. CASE SyncTemp(w)
  <2>1. /\ call' \in [Writers -> Calls] /\ SameCall(w) /\ call[w].step = "sync"
        /\ call'[w].step = "commit" /\ call'[w].outcome = call[w].outcome
    BY <1>1, <1>5, StepType, StepNames DEF SyncTemp
  <2>2. /\ temp' = [temp EXCEPT ![w].synced = TRUE]
        /\ files' = files /\ durable' = durable
    BY <1>5 DEF SyncTemp, storage
  <2>3. /\ temp' \in [Writers -> Nodes] /\ temp'[w].kind = temp[w].kind /\ temp'[w].synced
        /\ temp'[w].torn = temp[w].torn /\ temp'[w].data = temp[w].data
        /\ \A v \in Writers \ {w} : temp'[v] = temp[v]
    BY <1>1, <2>2 DEF Nodes
  <2>4. QED
    BY <1>1, <2>1, <2>2, <2>3 DEF Stepped, SameCall, Leaves, Calling, Filling
<1>6. CASE Rename(w)
  <2>1. durable' = durable
    BY <1>6 DEF Rename
  <2>2. CASE Return(w, "commit", "remove", "error") /\ UNCHANGED <<files, temp>>
    <3>1. /\ call' \in [Writers -> Calls] /\ SameCall(w) /\ call[w].step = "commit"
          /\ call'[w].step = "remove" /\ call'[w].outcome = "error"
      BY <1>1, <2>2, ReturnType, StepNames
    <3>2. QED
      BY <1>1, <2>1, <2>2, <3>1 DEF Stepped, Leaves, Calling, Filling
  <2>3. CASE /\ Return(w, "commit", "remove", "written")
             /\ files' = [files EXCEPT ![call[w].path] = temp[w]]
             /\ temp' = [temp EXCEPT ![w] = Absent]
    <3>1. /\ call' \in [Writers -> Calls] /\ SameCall(w) /\ call[w].step = "commit"
          /\ call'[w].step = "remove" /\ call'[w].outcome = "written"
      BY <1>1, <2>3, ReturnType, StepNames
    <3>2. /\ temp' \in [Writers -> Nodes] /\ temp'[w] = Absent
          /\ \A v \in Writers \ {w} : temp'[v] = temp[v]
      BY <1>1, <2>3, AbsentType
    <3>3. Installs(w)
      BY <1>1, <2>3, <3>1 DEF Installs, Calling, Filling
    <3>4. Filling(w)'
      BY <3>1, <3>2, AbsentType DEF Filling
    <3>5. QED
      BY <2>1, <3>1, <3>2, <3>3, <3>4 DEF Stepped
  <2>4. QED
    BY <1>6, <2>2, <2>3 DEF Rename
<1>7. ~Link(w)
  BY <1>1 DEF Link
<1>8. CASE CallFails(w)
  <2>1. PICK from \in CallSteps, to \in {"remove", "done"} :
          Return(w, from, to, "error") /\ from \notin {"remove", "done"}
    <3>1. PICK from \in CallSteps : from = call[w].step
      BY <1>1 DEF Calls
    <3>2. CASE from \in {"check", "create"}
      <4>1. Return(w, from, "done", "error")
        BY <1>8, <3>1, <3>2 DEF CallFails, Return
      <4>2. QED
        BY <3>2, <4>1
    <3>3. CASE from \in {"write", "sync", "commit"}
      <4>1. Return(w, from, "remove", "error")
        BY <1>8, <3>1, <3>3 DEF CallFails, Return
      <4>2. QED
        BY <3>3, <4>1
    <3>4. QED
      BY <1>8, <3>1, <3>2, <3>3 DEF CallFails
  <2>2. /\ call' \in [Writers -> Calls] /\ SameCall(w) /\ call[w].step = from
        /\ call'[w].step = to /\ call'[w].outcome = "error"
    <3>1. to \in CallSteps /\ "error" \in Outcomes
      BY DEF CallSteps, Outcomes
    <3>2. QED
      BY <1>1, <2>1, <3>1, ReturnType
  <2>3. temp' = temp /\ files' = files /\ durable' = durable
    BY <1>8 DEF CallFails, storage
  <2>4. call[w].outcome = "none"
    BY <1>1, <1>8 DEF CallFails, Calling
  <2>5. QED
    BY <1>1, <2>2, <2>3, <2>4 DEF Stepped, Leaves, Filling
<1>9. CASE RemoveTemp(w)
  <2>1. /\ call' \in [Writers -> Calls] /\ SameCall(w) /\ call[w].step = "remove"
        /\ call'[w].step = "done" /\ call'[w].outcome = call[w].outcome
    BY <1>1, <1>9, StepType, StepNames DEF RemoveTemp
  <2>2. /\ temp' = [temp EXCEPT ![w] = Absent] /\ files' = files /\ durable' = durable
    BY <1>9 DEF RemoveTemp, storage
  <2>3. /\ temp' \in [Writers -> Nodes] /\ temp'[w] = Absent
        /\ \A v \in Writers \ {w} : temp'[v] = temp[v]
    BY <1>1, <2>2, AbsentType
  <2>4. Filling(w)'
    BY <2>1, <2>3, AbsentType DEF Filling
  <2>5. QED
    BY <1>1, <2>1, <2>2, <2>3, <2>4 DEF Stepped, Leaves
<1>10. QED
  BY <1>2, <1>3, <1>4, <1>5, <1>6, <1>7, <1>8, <1>9 DEF Progress

-----------------------------------------------------------------------------
(* The steps of Append *)

(* Nothing of the other writers changes. *)
Others(w) ==
  \A v \in Writers \ {w} :
    /\ stage'[v] = stage[v] /\ run'[v] = run[v] /\ snapshot'[v] = snapshot[v]
    /\ call'[v] = call[v] /\ temp'[v] = temp[v]

(* The others see at most that the run of w is stored, or that a new one   *)
(* begins.                                                                 *)
LEMMA OthersKeep ==
  ASSUME HistoryInv, NEW w \in Writers, Others(w), started' \in Nat, started <= started',
         log' = log \/ (stage[w] # "idle" /\ log' = Append(log, run[w])),
         stage'[w] # "idle" =>
           (stage[w] # "idle" /\ run'[w] = run[w]) \/ run'[w].id = started + 1,
         NEW v \in Writers, v # w
  PROVE  Writer(v)'
<1>1. /\ Calling(v) /\ Filling(v) /\ Own(v) /\ InLog(snapshot[v], log) /\ Own(w)
      /\ snapshot[v] \in Seq(Run) /\ log \in Seq(Run) /\ started \in Nat
  BY Constants DEF HistoryInv, Writer, Types
<1>2. /\ stage'[v] = stage[v] /\ run'[v] = run[v] /\ snapshot'[v] = snapshot[v]
      /\ call'[v] = call[v] /\ temp'[v] = temp[v]
  BY DEF Others
<1>3. Calling(v)' /\ Filling(v)'
  BY <1>1, <1>2 DEF Calling, Filling
<1>4. InLog(snapshot[v], log')
  <2>1. CASE log' = log
    BY <1>1, <2>1
  <2>2. CASE stage[w] # "idle" /\ log' = Append(log, run[w])
    BY <1>1, <2>2, InLongerLog DEF Own
  <2>3. QED
    BY <2>1, <2>2
<1>5. Own(v)'
  <2> SUFFICES ASSUME stage[v] # "idle" PROVE Own(v)'
    BY <1>2 DEF Own
  <2>1. run[v] \in Run /\ run[v].id \in 1..started /\ run[v].id \in 1..started'
    BY <1>1 DEF Own
  <2>2. ASSUME NEW u \in Writers \ {v}, stage'[u] # "idle" PROVE run'[u].id # run[v].id
    <3>1. CASE u = w
      <4>1. CASE stage[w] # "idle" /\ run'[w] = run[w]
        BY <1>1, <3>1, <4>1 DEF Own
      <4>2. CASE run'[w].id = started + 1
        BY <1>1, <2>1, <3>1, <4>2
      <4>3. QED
        BY <2>2, <3>1, <4>1, <4>2
    <3>2. CASE u # w
      BY <1>1, <2>2, <3>2 DEF Own, Others
    <3>3. QED
      BY <3>1, <3>2
  <2>3. ASSUME call[v].outcome # "written", NEW k \in 1..Len(log')
        PROVE  log'[k].id # run[v].id
    <3>1. CASE log' = log
      BY <1>1, <2>3, <3>1 DEF Own
    <3>2. CASE stage[w] # "idle" /\ log' = Append(log, run[w])
      <4>1. run[w] \in Run /\ run[w].id # run[v].id
        BY <1>1, <3>2 DEF Own
      <4>2. /\ Len(log) \in Nat /\ Len(log') = Len(log) + 1 /\ log'[Len(log) + 1] = run[w]
            /\ \A i \in 1..Len(log) : log'[i] = log[i]
        BY <1>1, <3>2, <4>1, AppendProperties, LenProperties
      <4>3. CASE k = Len(log) + 1
        BY <4>1, <4>2, <4>3
      <4>4. CASE k \in 1..Len(log)
        BY <1>1, <2>3, <4>2, <4>4 DEF Own
      <4>5. QED
        BY <4>2, <4>3, <4>4
    <3>3. QED
      BY <3>1, <3>2
  <2>4. QED
    BY <1>2, <2>1, <2>2, <2>3 DEF Own
<1>6. QED
  BY <1>2, <1>3, <1>4, <1>5 DEF Writer

(* What the types say of one writer. *)
LEMMA WriterTypes ==
  ASSUME HistoryInv, NEW w \in Writers
  PROVE  /\ call \in [Writers -> Calls] /\ temp \in [Writers -> Nodes]
         /\ stage \in [Writers -> Stages] /\ run \in [Writers -> Run \union {NoRun}]
         /\ limit \in [Writers -> 0..MaxRuns] /\ snapshot \in [Writers -> Seq(Run)]
         /\ started \in 0..MaxStarted /\ started \in Nat /\ log \in Seq(Run)
         /\ Calling(w) /\ Filling(w) /\ Own(w) /\ InLog(snapshot[w], log)
BY Constants DEF HistoryInv, Types, Writer

(* A step that leaves the files and the log alone. *)
LEMMA QuietStep ==
  ASSUME HistoryInv, NEW w \in Writers, UNCHANGED <<files, durable, log, raced, losses>>,
         Others(w), started' \in 0..MaxStarted, started <= started',
         stage' \in [Writers -> Stages], run' \in [Writers -> Run \union {NoRun}],
         limit' \in [Writers -> 0..MaxRuns], snapshot' \in [Writers -> Seq(Run)],
         temp' \in [Writers -> Nodes], call' \in [Writers -> Calls],
         stage'[w] # "idle" =>
           (stage[w] # "idle" /\ run'[w] = run[w]) \/ run'[w].id = started + 1,
         Writer(w)'
  PROVE  HistoryInv'
<1>1. Types'
  BY DEF HistoryInv, Types
<1>2. Shown' /\ Newer'
  BY DEF HistoryInv, Shown, Newer
<1>3. Stored'
  BY Constants DEF HistoryInv, Stored, Types
<1>4. \A v \in Writers : Writer(v)'
  BY OthersKeep, Constants
<1>5. QED
  BY <1>1, <1>2, <1>3, <1>4 DEF HistoryInv

(* Append returns, or its process dies. *)
LEMMA EndKeeps ==
  ASSUME HistoryInv, NEW w \in Writers, End(w),
         UNCHANGED <<files, durable, log, raced, losses>>,
         started' \in 0..MaxStarted, started <= started',
         \/ call' = [call EXCEPT ![w] = NoCall]
         \/ call' = call /\ stage[w] # "writing",
         temp' = temp \/ temp' = [temp EXCEPT ![w] = Absent]
  PROVE  HistoryInv'
<1>1. /\ stage' = [stage EXCEPT ![w] = "idle"] /\ run' = [run EXCEPT ![w] = NoRun]
      /\ limit' = [limit EXCEPT ![w] = 0] /\ snapshot' = [snapshot EXCEPT ![w] = NoData]
  BY DEF End
<1>2. call' \in [Writers -> Calls] /\ call'[w] = NoCall
      /\ \A v \in Writers \ {w} : call'[v] = call[v]
  BY WriterTypes, NoCallType DEF Calling
<1>3. temp' \in [Writers -> Nodes] /\ ~temp'[w].torn
      /\ \A v \in Writers \ {w} : temp'[v] = temp[v]
  BY WriterTypes, AbsentType DEF Filling
<1>4. /\ stage' \in [Writers -> Stages] /\ run' \in [Writers -> Run \union {NoRun}]
      /\ limit' \in [Writers -> 0..MaxRuns] /\ snapshot' \in [Writers -> Seq(Run)]
      /\ stage'[w] = "idle" /\ snapshot'[w] = NoData
  <2>1. 0 \in 0..MaxRuns /\ NoData \in Seq(Run) /\ "idle" \in Stages
    BY NoDataLog, Constants DEF Stages
  <2>2. QED
    BY <1>1, <2>1, WriterTypes
<1>5. Others(w)
  BY <1>1, <1>2, <1>3, WriterTypes DEF Others
<1>6. Writer(w)'
  BY <1>2, <1>3, <1>4, NoCallType, NoDataLog DEF Writer, Calling, Filling, Own
<1>7. QED
  BY <1>2, <1>3, <1>4, <1>5, <1>6, QuietStep

LEMMA StartKeeps ==
  ASSUME HistoryInv, NEW w \in Writers, Start(w) PROVE HistoryInv'
<1>1. /\ stage[w] = "idle" /\ started < MaxStarted /\ started' = started + 1
      /\ UNCHANGED <<files, durable, temp, call, log, raced, losses>>
  BY DEF Start, fileVars, storage
<1>2. started' \in 0..MaxStarted /\ started <= started' /\ started + 1 \in 1..MaxStarted
      /\ call[w] = NoCall
  BY <1>1, WriterTypes, Constants DEF Calling
<1>3. CASE End(w)
  BY <1>1, <1>2, <1>3, EndKeeps
<1>4. CASE /\ \E lim \in Limits : LegalLimit(lim) /\ limit' = [limit EXCEPT ![w] = lim]
           /\ \E size \in Sizes, backward \in BOOLEAN : run' = [run EXCEPT
                ![w] = [id |-> started + 1, size |-> size, backward |-> backward]]
           /\ stage' = [stage EXCEPT ![w] = "read"]
           /\ UNCHANGED snapshot
  <2>1. limit' \in [Writers -> 0..MaxRuns]
    <3>1. PICK lim \in 1..MaxRuns : limit' = [limit EXCEPT ![w] = lim]
      BY <1>4 DEF LegalLimit
    <3>2. QED
      BY <3>1, WriterTypes, Constants
  <2>2. PICK r \in Run : run' = [run EXCEPT ![w] = r] /\ r.id = started + 1
    <3>1. PICK size \in Sizes, backward \in BOOLEAN : run' = [run EXCEPT
            ![w] = [id |-> started + 1, size |-> size, backward |-> backward]]
      BY <1>4
    <3>2. [id |-> started + 1, size |-> size, backward |-> backward] \in Run
      BY <1>2 DEF Run
    <3>3. QED
      BY <3>1, <3>2
  <2>3. /\ run' \in [Writers -> Run \union {NoRun}] /\ run'[w] = r
        /\ \A v \in Writers \ {w} : run'[v] = run[v]
    BY <2>2, WriterTypes
  <2>4. /\ stage' \in [Writers -> Stages] /\ stage'[w] = "read"
        /\ \A v \in Writers \ {w} : stage'[v] = stage[v]
    BY <1>4, WriterTypes DEF Stages
  <2>5. Others(w)
    BY <1>1, <1>4, <2>3, <2>4 DEF Others
  <2>6. Own(w)'
    <3>1. ASSUME NEW v \in Writers \ {w}, stage'[v] # "idle" PROVE run'[v].id # run'[w].id
      <4>1. Own(v) /\ stage[v] # "idle" /\ run'[v] = run[v]
        BY <2>3, <2>4, <3>1, WriterTypes
      <4>2. run[v].id \in 1..started
        BY <4>1 DEF Own
      <4>3. QED
        BY <2>2, <2>3, <4>1, <4>2, WriterTypes
    <3>2. \A k \in 1..Len(log) : log[k].id # r.id
      BY <2>2, WriterTypes DEF HistoryInv, Stored
    <3>3. run'[w].id \in 1..started'
      BY <1>1, <1>2, <2>2, <2>3, WriterTypes
    <3>4. QED
      BY <1>1, <2>3, <3>1, <3>2, <3>3 DEF Own
  <2>7. Writer(w)'
    BY <1>1, <1>2, <1>4, <2>4, <2>6, WriterTypes, NoCallType DEF Writer, Calling, Filling
  <2>8. QED
    BY <1>1, <1>2, <1>4, <2>1, <2>2, <2>3, <2>4, <2>5, <2>7, WriterTypes, QuietStep
<1>5. QED
  BY <1>3, <1>4 DEF Start

LEMMA ReadKeeps ==
  ASSUME HistoryInv, NEW w \in Writers, Read(w) PROVE HistoryInv'
<1>1. /\ stage[w] = "read" /\ started' = started
      /\ UNCHANGED <<files, durable, temp, call, log, raced, losses>> /\ call[w] = NoCall
  BY WriterTypes DEF Read, fileVars, storage, Calling
<1>2. CASE End(w)
  BY <1>1, <1>2, EndKeeps, WriterTypes
<1>3. CASE /\ snapshot' = [snapshot EXCEPT ![w] = files[Path].data]
           /\ stage' = [stage EXCEPT ![w] = "append"]
           /\ UNCHANGED <<run, limit>>
  <2>1. files[Path].data \in Seq(Run) /\ InLog(files[Path].data, log)
    BY Constants DEF HistoryInv, Types, Shown, Nodes
  <2>2. /\ snapshot' \in [Writers -> Seq(Run)] /\ snapshot'[w] = files[Path].data
        /\ stage' \in [Writers -> Stages] /\ stage'[w] = "append"
        /\ \A v \in Writers \ {w} : stage'[v] = stage[v] /\ snapshot'[v] = snapshot[v]
    BY <1>3, <2>1, WriterTypes DEF Stages
  <2>3. Others(w)
    BY <1>1, <1>3, <2>2 DEF Others
  <2>4. Own(w)'
    BY <1>1, <1>3, <2>2, WriterTypes DEF Own
  <2>5. Writer(w)'
    BY <1>1, <2>1, <2>2, <2>4, WriterTypes, NoCallType DEF Writer, Calling, Filling
  <2>6. /\ started' \in 0..MaxStarted /\ started <= started'
        /\ stage[w] # "idle" /\ run'[w] = run[w]
    BY <1>1, <1>3, WriterTypes
  <2>7. /\ run' \in [Writers -> Run \union {NoRun}] /\ limit' \in [Writers -> 0..MaxRuns]
        /\ temp' \in [Writers -> Nodes] /\ call' \in [Writers -> Calls]
    BY <1>1, <1>3, WriterTypes
  <2>8. QED
    BY <1>1, <2>2, <2>3, <2>5, <2>6, <2>7, QuietStep
<1>4. QED
  BY <1>2, <1>3 DEF Read

(* What is encoded fits, and holds the run. *)
LEMMA EncodedBuilds ==
  ASSUME HistoryInv, NEW w \in Writers, stage[w] = "append", Encoded(w) # << >>,
         Valid(Encoded(w))
  PROVE  /\ Encoded(w) \in Seq(Run) /\ Fitting(Encoded(w))
         /\ Builds(Encoded(w), snapshot[w], run[w])
<1> DEFINE runs == Append(snapshot[w], run[w])
<1>1. /\ runs \in Seq(Run) /\ Len(runs) = Len(snapshot[w]) + 1 /\ limit[w] \in Nat
      /\ Len(snapshot[w]) \in Nat
  BY WriterTypes, AppendProperties, LenProperties, Constants DEF Own
<1>2. PICK n \in 0..Len(runs) :
        /\ Bounded(runs, limit[w]) = Newest(runs, n)
        /\ n # 0 => Bytes(Bounded(runs, limit[w])) <= MaxFileBytes
  BY <1>1, BoundedRuns
<1>3. Newest(runs, 0) = << >> /\ Newest(runs, n) \in Seq(Run)
  BY <1>1, NewestAll, NewestRuns
<1> HIDE DEF runs
<1>4. Encoded(w) = Bounded(runs, limit[w])
  BY DEF Encoded, runs
<1>5. n # 0 /\ n \in 1..(Len(snapshot[w]) + 1)
  BY <1>1, <1>2, <1>3, <1>4
<1>6. QED
  BY <1>2, <1>3, <1>4, <1>5 DEF Fitting, Builds, runs

LEMMA EncodeKeeps ==
  ASSUME HistoryInv, NEW w \in Writers, Encode(w) PROVE HistoryInv'
<1>1. /\ stage[w] = "append" /\ started' = started /\ call[w] = NoCall
      /\ UNCHANGED <<files, durable, temp, log, raced, losses>>
  BY WriterTypes DEF Encode, fileVars, storage, Calling, WriteAtomic
<1>2. CASE End(w) /\ UNCHANGED fileVars
  BY <1>1, <1>2, EndKeeps, WriterTypes DEF fileVars
<1>3. CASE /\ Encoded(w) # << >> /\ Valid(Encoded(w))
           /\ WriteAtomic(w, Path, Encoded(w), TRUE)
           /\ stage' = [stage EXCEPT ![w] = "writing"]
           /\ UNCHANGED <<run, limit, snapshot>>
  <2>1. /\ Encoded(w) \in Seq(Run) /\ Fitting(Encoded(w))
        /\ Builds(Encoded(w), snapshot[w], run[w])
    BY <1>1, <1>3, EncodedBuilds
  <2>2. PICK c : /\ c = [step |-> "check", path |-> Path, data |-> Encoded(w),
                          force |-> TRUE, outcome |-> "none"]
                 /\ call' = [call EXCEPT ![w] = c]
    BY <1>3 DEF WriteAtomic
  <2>3. c \in Calls
    BY <2>1, <2>2, Constants DEF Calls, CallSteps, Outcomes
  <2>4. call' \in [Writers -> Calls] /\ call'[w] = c
        /\ \A v \in Writers \ {w} : call'[v] = call[v]
    BY <2>2, <2>3, WriterTypes
  <2>5. /\ stage' \in [Writers -> Stages] /\ stage'[w] = "writing"
        /\ \A v \in Writers \ {w} : stage'[v] = stage[v]
    BY <1>3, WriterTypes DEF Stages
  <2>6. Others(w)
    BY <1>1, <1>3, <2>4, <2>5 DEF Others
  <2>7. Own(w)'
    BY <1>1, <1>3, <2>2, <2>4, <2>5, WriterTypes, NoCallType DEF Own
  <2>8. Calling(w)'
    BY <1>3, <2>1, <2>2, <2>4, <2>5 DEF Calling
  <2>9. Writer(w)'
    BY <1>1, <1>3, <2>2, <2>4, <2>7, <2>8, WriterTypes DEF Writer, Filling
  <2>10. /\ started' \in 0..MaxStarted /\ started <= started'
         /\ stage[w] # "idle" /\ run'[w] = run[w]
    BY <1>1, <1>3, WriterTypes
  <2>11. /\ run' \in [Writers -> Run \union {NoRun}] /\ limit' \in [Writers -> 0..MaxRuns]
         /\ temp' \in [Writers -> Nodes] /\ snapshot' \in [Writers -> Seq(Run)]
    BY <1>1, <1>3, WriterTypes
  <2>12. QED
    BY <1>1, <2>4, <2>5, <2>6, <2>9, <2>10, <2>11, QuietStep
<1>4. QED
  BY <1>2, <1>3 DEF Encode

(* The document in place is in order in the log that now ends with its run. *)
LEMMA BuiltInLog ==
  ASSUME NEW read \in Seq(Run), NEW stored \in Seq(Run), NEW r \in Run, NEW d,
         InLog(read, stored), Builds(d, read, r)
  PROVE  InLog(d, Append(stored, r))
<1>1. PICK n \in 1..(Len(read) + 1) : d = Newest(Append(read, r), n)
  BY DEF Builds
<1>2. /\ Append(read, r) \in Seq(Run) /\ Append(stored, r) \in Seq(Run)
      /\ Len(Append(read, r)) = Len(read) + 1 /\ Len(read) \in Nat
  BY AppendProperties, LenProperties
<1>3. n \in 0..Len(Append(read, r))
  BY <1>2
<1>4. InLog(Append(read, r), Append(stored, r))
  BY InLogAppend
<1>5. QED
  BY <1>1, <1>2, <1>3, <1>4, InLogNewest

(* Without a race the document in place is the newest of all stored.       *)
LEMMA BuiltIsNewest ==
  ASSUME NEW stored \in Seq(Run), NEW r \in Run, NEW read, NEW d, d # << >>,
         Len(read) \in 0..Len(stored), read = Newest(stored, Len(read)), Builds(d, read, r)
  PROVE  /\ Len(d) <= Len(Append(stored, r)) /\ d = Newest(Append(stored, r), Len(d))
<1> DEFINE m == Len(read)
           t == Append(stored, r)
<1>1. PICK n \in 1..(m + 1) : d = Newest(Append(read, r), n)
  BY DEF Builds
<1>2. d = Newest(Append(Newest(stored, m), r), n)
  BY <1>1
<1> HIDE DEF m
<1>3. m \in 0..Len(stored)
  BY DEF m
<1>4. d = Newest(t, n)
  BY <1>2, <1>3, NewestOfNewest
<1>5. t \in Seq(Run) /\ Len(t) = Len(stored) + 1 /\ Len(stored) \in Nat
  BY AppendProperties, LenProperties
<1> HIDE DEF t
<1>6. n \in 0..Len(t)
  BY <1>3, <1>5
<1>7. Len(d) = n
  BY <1>4, <1>5, <1>6, NewestRuns
<1>8. QED
  BY <1>4, <1>6, <1>7 DEF t

LEMMA InstallKeeps ==
  ASSUME HistoryInv, NEW w \in Writers, stage[w] = "writing", Stepped(w), Installs(w),
         log' = Append(log, run[w]),
         raced' = (raced \/ files[Path].data # snapshot[w]),
         UNCHANGED <<process, losses>>
  PROVE  HistoryInv'
<1> DEFINE r == run[w]
           d == call[w].data
<1>1. /\ r \in Run /\ r.id \in 1..started /\ \A k \in 1..Len(log) : log[k].id # r.id
      /\ Fitting(d) /\ Builds(d, snapshot[w], r) /\ log \in Seq(Run)
      /\ snapshot[w] \in Seq(Run) /\ InLog(snapshot[w], log) /\ temp[w] \in Nodes
  BY WriterTypes DEF Installs, Own, Calling
<1>2. /\ UNCHANGED <<stage, run, limit, snapshot, started, durable, losses>>
      /\ files' = [files EXCEPT ![Path] = temp[w]] /\ temp[w].data = d
      /\ temp[w].kind = "file" /\ temp[w].synced /\ ~temp[w].torn
  BY DEF process, Stepped, Installs
<1>3. /\ Len(log) \in Nat /\ log' \in Seq(Run) /\ Len(log') = Len(log) + 1
      /\ log'[Len(log) + 1] = r /\ \A k \in 1..Len(log) : log'[k] = log[k]
  BY <1>1, AppendProperties, LenProperties
<1>4. /\ files \in [Paths -> Nodes] /\ durable \in [Paths -> Nodes] /\ Path \in Paths
      /\ files' \in [Paths -> Nodes] /\ files'[Path] = temp[w]
      /\ \A p \in Paths \ {Path} : files'[p] = files[p]
  BY <1>1, <1>2, Constants DEF HistoryInv, Types
<1>5. Types'
  <2>1. raced' \in BOOLEAN
    BY DEF HistoryInv, Types
  <2>2. call' \in [Writers -> Calls] /\ temp' \in [Writers -> Nodes]
    BY DEF Stepped
  <2>3. QED
    BY <1>2, <1>3, <1>4, <2>1, <2>2 DEF HistoryInv, Types
<1>6. Shown'
  <2>1. ASSUME NEW p \in Paths
        PROVE  Sound(files'[p]) /\ InLog(files'[p].data, log')
    <3>1. CASE p = Path
      BY <1>1, <1>2, <1>4, <3>1, BuiltInLog DEF Sound
    <3>2. CASE p # Path
      <4>1. /\ files'[p] = files[p] /\ files[p].data \in Seq(Run) /\ Sound(files[p])
            /\ InLog(files[p].data, log)
        BY <1>4, <3>2 DEF HistoryInv, Shown, Nodes
      <4>2. QED
        BY <1>1, <4>1, InLongerLog
    <3>3. QED
      BY <3>1, <3>2
  <2>2. ASSUME NEW p \in Paths
        PROVE  Sound(durable[p]) /\ InLog(durable[p].data, log')
    <3>1. /\ durable[p].data \in Seq(Run) /\ Sound(durable[p])
          /\ InLog(durable[p].data, log)
      BY <1>4 DEF HistoryInv, Shown, Nodes
    <3>2. QED
      BY <1>1, <3>1, InLongerLog
  <2>3. QED
    BY <1>2, <2>1, <2>2 DEF Shown
<1>7. Stored'
  <2>1. /\ \A k \in 1..Len(log) : log[k].id \in 1..started
        /\ \A k, l \in 1..Len(log) : log[k].id = log[l].id => k = l
    BY DEF HistoryInv, Stored
  <2>2. \A k \in 1..Len(log') : k \in 1..Len(log) \/ k = Len(log) + 1
    BY <1>3
  <2> HIDE DEF r
  <2>3. \A k \in 1..Len(log') : log'[k].id \in 1..started
    BY <1>1, <1>3, <2>1, <2>2
  <2>4. ASSUME NEW k \in 1..Len(log'), NEW l \in 1..Len(log'), log'[k].id = log'[l].id
        PROVE  k = l
    <3>1. CASE k \in 1..Len(log) /\ l \in 1..Len(log)
      BY <1>3, <2>1, <2>4, <3>1
    <3>2. CASE k \in 1..Len(log) /\ l = Len(log) + 1
      BY <1>1, <1>3, <2>4, <3>2
    <3>3. CASE k = Len(log) + 1 /\ l \in 1..Len(log)
      BY <1>1, <1>3, <2>4, <3>3
    <3>4. QED
      BY <2>2, <3>1, <3>2, <3>3
  <2>5. QED
    BY <1>2, <2>3, <2>4 DEF Stored
<1>8. Newer'
  <2> SUFFICES ASSUME ~raced', losses = 0
               PROVE  /\ Len(d) <= Len(log') /\ d = Newest(log', Len(d)) /\ d # << >>
    BY <1>2, <1>4 DEF Newer
  <2>1. /\ files[Path].data = snapshot[w] /\ Len(snapshot[w]) <= Len(log)
        /\ snapshot[w] = Newest(log, Len(snapshot[w]))
    BY DEF HistoryInv, Newer
  <2>2. Len(snapshot[w]) \in 0..Len(log)
    BY <1>1, <1>3, <2>1, LenProperties
  <2>3. d # << >>
    BY <1>1 DEF Fitting
  <2>4. QED
    BY <1>1, <2>1, <2>2, <2>3, BuiltIsNewest
<1>9. Others(w)
  BY <1>2 DEF Others, Stepped, SameCall
<1>10. Writer(w)'
  <2>1. Calling(w)'
    BY <1>2, WriterTypes DEF Calling, Stepped, SameCall
  <2>2. Own(w)'
    <3>1. call'[w].outcome = "written"
      BY DEF Installs
    <3>2. QED
      BY <1>2, <3>1, WriterTypes DEF Own
  <2>3. InLog(snapshot[w], log')
    BY <1>1, InLongerLog
  <2>4. QED
    BY <1>2, <2>1, <2>2, <2>3 DEF Writer, Stepped
<1>11. ASSUME NEW v \in Writers, v # w PROVE Writer(v)'
  <2>1. /\ started' \in Nat /\ started <= started' /\ stage[w] # "idle"
        /\ run'[w] = run[w] /\ log' = Append(log, run[w])
    BY <1>2, WriterTypes
  <2>2. QED
    BY <1>9, <1>11, <2>1, OthersKeep
<1>12. QED
  BY <1>5, <1>6, <1>7, <1>8, <1>10, <1>11 DEF HistoryInv

LEMMA WritingKeeps ==
  ASSUME HistoryInv, NEW w \in Writers, Writing(w) PROVE HistoryInv'
<1>1. /\ stage[w] = "writing" /\ Stepped(w) /\ UNCHANGED <<process, losses>>
      /\ UNCHANGED <<stage, run, limit, snapshot, started, losses>>
  BY ProgressSteps DEF Writing, process
<1>2. CASE Installs(w)
  <2>1. call[w].step = "commit" /\ call'[w].outcome = "written"
    BY <1>2 DEF Installs
  <2>2. /\ log' = Append(log, run[w]) /\ raced' = (raced \/ files[Path].data # snapshot[w])
    BY <2>1 DEF Writing
  <2>3. QED
    BY <1>1, <1>2, <2>2, InstallKeeps
<1>3. CASE Leaves(w)
  <2>1. UNCHANGED <<files, durable, log, raced, losses>>
    BY <1>1, <1>3 DEF Writing, Leaves, Stepped
  <2>2. Others(w)
    BY <1>1 DEF Others, Stepped, SameCall
  <2>3. Calling(w)'
    BY <1>1, WriterTypes DEF Calling, Stepped, SameCall
  <2>4. Own(w)'
    <3>1. /\ stage' = stage /\ run' = run /\ started' = started /\ log' = log
          /\ call'[w].outcome # "written" => call[w].outcome # "written"
      BY <1>1, <1>3, <2>1 DEF Leaves
    <3>2. Own(w)
      BY WriterTypes
    <3>3. stage[w] # "idle"
      BY <1>1
    <3>4. /\ run'[w] \in Run /\ run'[w].id \in 1..started'
          /\ \A v \in Writers \ {w} : stage'[v] # "idle" => run'[v].id # run'[w].id
      BY <3>1, <3>2, <3>3 DEF Own
    <3>5. ASSUME call'[w].outcome # "written"
          PROVE  \A k \in 1..Len(log') : log'[k].id # run'[w].id
      BY <3>1, <3>2, <3>3, <3>5 DEF Own
    <3>6. QED
      BY <3>4, <3>5 DEF Own
  <2>5. Writer(w)'
    BY <1>1, <2>1, <2>3, <2>4, WriterTypes DEF Writer, Stepped
  <2>6. /\ started' \in 0..MaxStarted /\ started <= started'
        /\ stage[w] # "idle" /\ run'[w] = run[w]
    BY <1>1, WriterTypes
  <2>7. /\ run' \in [Writers -> Run \union {NoRun}] /\ limit' \in [Writers -> 0..MaxRuns]
        /\ stage' \in [Writers -> Stages] /\ snapshot' \in [Writers -> Seq(Run)]
    BY <1>1, WriterTypes
  <2>8. temp' \in [Writers -> Nodes] /\ call' \in [Writers -> Calls]
    BY <1>1 DEF Stepped
  <2>9. QED
    BY <2>1, <2>2, <2>5, <2>6, <2>7, <2>8, QuietStep
<1>4. QED
  BY <1>1, <1>2, <1>3 DEF Stepped

-----------------------------------------------------------------------------
(* The environment *)

(* A sound node survives the power loss as it is. *)
LEMMA SoundSurvives ==
  ASSUME NEW node \in Nodes, Sound(node) PROVE AfterPowerLoss(node) = node
BY AbsentType DEF Sound, AfterPowerLoss, Nodes

LEMMA LosePowerKeeps == ASSUME HistoryInv, LosePower PROVE HistoryInv'
<1>1. /\ losses' = losses + 1 /\ losses < MaxPowerLosses
      /\ UNCHANGED <<started, log, raced>>
      /\ call' = [w \in Writers |-> NoCall] /\ temp' = [w \in Writers |-> Absent]
      /\ stage' = [w \in Writers |-> "idle"] /\ run' = [w \in Writers |-> NoRun]
      /\ limit' = [w \in Writers |-> 0] /\ snapshot' = [w \in Writers |-> NoData]
      /\ durable' = files'
  BY DEF LosePower, PowerLoss
<1>2. files \in [Paths -> Nodes] /\ durable \in [Paths -> Nodes]
  BY DEF HistoryInv, Types
<1>3. files' \in [Paths -> {AfterPowerLoss(files[p]) : p \in Paths}
                          \union {AfterPowerLoss(durable[p]) : p \in Paths}]
      /\ \A p \in Paths : files'[p] = AfterPowerLoss(files[p])
                            \/ files'[p] = AfterPowerLoss(durable[p])
  BY DEF LosePower, PowerLoss
<1>4. \A p \in Paths : files'[p] = files[p] \/ files'[p] = durable[p]
  <2>1. ASSUME NEW p \in Paths
        PROVE  AfterPowerLoss(files[p]) = files[p] /\ AfterPowerLoss(durable[p]) = durable[p]
    BY <1>2, SoundSurvives DEF HistoryInv, Shown
  <2>2. QED
    BY <1>3, <2>1
<1>5. files' \in [Paths -> Nodes]
  <2>1. DOMAIN files' = Paths /\ files' = [p \in Paths |-> files'[p]]
    BY <1>3
  <2>2. QED
    BY <1>2, <1>4, <2>1
<1>6. Types'
  <2>1. /\ temp' \in [Writers -> Nodes] /\ call' \in [Writers -> Calls]
    BY <1>1, AbsentType, NoCallType
  <2>2. /\ stage' \in [Writers -> Stages] /\ run' \in [Writers -> Run \union {NoRun}]
        /\ snapshot' \in [Writers -> Seq(Run)]
    BY <1>1, NoDataLog DEF Stages
  <2>3. limit' \in [Writers -> 0..MaxRuns]
    <3>1. 0 \in 0..MaxRuns
      BY Constants
    <3>2. QED
      BY <1>1, <3>1
  <2>4. losses' \in 0..MaxPowerLosses
    BY <1>1, Constants DEF HistoryInv, Types
  <2>5. QED
    BY <1>1, <1>5, <2>1, <2>2, <2>3, <2>4 DEF HistoryInv, Types
<1>7. Shown'
  BY <1>1, <1>4 DEF HistoryInv, Shown
<1>8. Stored'
  BY <1>1 DEF HistoryInv, Stored
<1>9. Newer'
  <2>1. losses' # 0
    BY <1>1 DEF HistoryInv, Types
  <2>2. QED
    BY <2>1 DEF Newer
<1>10. ASSUME NEW w \in Writers PROVE Writer(w)'
  <2>1. /\ call'[w] = NoCall /\ temp'[w] = Absent /\ stage'[w] = "idle"
        /\ snapshot'[w] = NoData
    BY <1>1
  <2>2. QED
    BY <2>1, NoCallType, AbsentType, NoDataLog DEF Writer, Calling, Filling, Own
<1>11. QED
  BY <1>6, <1>7, <1>8, <1>9, <1>10 DEF HistoryInv

LEMMA SyncKeeps == ASSUME HistoryInv, Sync PROVE HistoryInv'
<1>1. /\ durable' = [durable EXCEPT ![Path] = files[Path]] /\ Path \in Paths
      /\ UNCHANGED <<files, temp, call, stage, run, limit, snapshot, started, log, raced>>
      /\ UNCHANGED losses
  BY Constants DEF Sync, WriteBack, process
<1>2. durable' \in [Paths -> Nodes]
      /\ \A p \in Paths : durable'[p] = durable[p] \/ durable'[p] = files[p]
  BY <1>1 DEF HistoryInv, Types
<1>3. Types'
  BY <1>1, <1>2 DEF HistoryInv, Types
<1>4. Shown'
  BY <1>1, <1>2 DEF HistoryInv, Shown
<1>5. Stored' /\ Newer'
  BY <1>1 DEF HistoryInv, Stored, Newer
<1>6. \A w \in Writers : Writer(w)'
  BY <1>1 DEF HistoryInv, Writer, Calling, Filling, Own
<1>7. QED
  BY <1>3, <1>4, <1>5, <1>6 DEF HistoryInv

(* Every step keeps the invariant. *)
LEMMA NextHistoryInv == HistoryInv /\ [Next]_vars => HistoryInv'
<1> SUFFICES ASSUME HistoryInv, [Next]_vars PROVE HistoryInv'
  OBVIOUS
<1>1. ASSUME NEW w \in Writers, Finish(w) \/ Kill(w) PROVE HistoryInv'
  <2>1. /\ End(w) /\ call' = [call EXCEPT ![w] = NoCall] /\ started' = started
        /\ UNCHANGED <<files, durable, log, raced, losses>>
        /\ temp' = temp \/ temp' = [temp EXCEPT ![w] = Absent]
    BY <1>1 DEF Finish, Kill, Killed, Dies, storage
  <2>2. started' \in 0..MaxStarted /\ started <= started'
    BY <2>1, Constants DEF HistoryInv, Types
  <2>3. QED
    BY <2>1, <2>2, EndKeeps
<1>2. CASE UNCHANGED vars
  <2>1. /\ UNCHANGED <<files, temp, call, stage, run, limit, snapshot, started, log, raced>>
        /\ UNCHANGED <<losses, durable>>
    BY <1>2 DEF vars, fileVars, storage, process
  <2>2. Types' /\ Shown' /\ Stored' /\ Newer'
    BY <2>1 DEF HistoryInv, Types, Shown, Stored, Newer
  <2>3. \A w \in Writers : Writer(w)'
    BY <2>1 DEF HistoryInv, Writer, Calling, Filling, Own
  <2>4. QED
    BY <2>2, <2>3 DEF HistoryInv
<1>3. QED
  BY <1>1, <1>2, StartKeeps, ReadKeeps, EncodeKeeps, WritingKeeps, LosePowerKeeps, SyncKeeps
     DEF Next, Over

(* The invariant holds in every reachable state. *)
THEOREM HistoryInvariant == Spec => []HistoryInv
BY InitHistoryInv, NextHistoryInv, PTL DEF Spec

-----------------------------------------------------------------------------
(* What it gives *)

(* There are no more stored runs than were started: each has an id of its  *)
(* own among theirs.                                                       *)
LEMMA LogIsStarted ==
  ASSUME HistoryInv
  PROVE  Len(log) \in Nat /\ Len(log) <= started
<1> DEFINE f == [k \in 1..Len(log) |-> log[k].id]
<1>1. log \in Seq(Run) /\ Len(log) \in Nat /\ started \in Nat
  BY Constants, LenProperties DEF HistoryInv, Types
<1>2. f \in Injection(1..Len(log), 1..started)
  BY DEF HistoryInv, Stored, Injection, IsInjective
<1>3. /\ IsFiniteSet(1..started) /\ Cardinality(1..started) = started
      /\ Cardinality(1..Len(log)) = Len(log)
  <2>1. /\ IsFiniteSet(1..started)
        /\ Cardinality(1..started) = IF 1 > started THEN 0 ELSE started - 1 + 1
        /\ Cardinality(1..Len(log)) = IF 1 > Len(log) THEN 0 ELSE Len(log) - 1 + 1
    <3>1. 1 \in Int /\ started \in Int /\ Len(log) \in Int
      BY <1>1
    <3>2. /\ IsFiniteSet(1..started)
          /\ Cardinality(1..started) = IF 1 > started THEN 0 ELSE started - 1 + 1
      BY <3>1, FS_Interval
    <3>3. Cardinality(1..Len(log)) = IF 1 > Len(log) THEN 0 ELSE Len(log) - 1 + 1
      BY <3>1, FS_Interval
    <3>4. QED
      BY <3>2, <3>3
  <2>2. QED
    BY <1>1, <2>1
<1> HIDE DEF f
<1>4. Cardinality(1..Len(log)) <= Cardinality(1..started)
  BY <1>2, <1>3, FS_Injection
<1>5. QED
  BY <1>1, <1>3, <1>4

(* Files, calls, writers and the log keep their ranges, and no run is      *)
(* stored that was not started.                                            *)
THEOREM HistoryTypeCorrect == Spec => []TypeOK
<1>1. ASSUME HistoryInv PROVE TypeOK
  <2>1. FilesTypeOK
    <3>1. /\ DOMAIN files = Paths /\ DOMAIN durable = Paths
          /\ \A p \in Paths : files[p].kind \in {"absent", "file"}
      BY <1>1 DEF HistoryInv, Types, Nodes
    <3>2. \A w \in Writers :
            /\ call[w].step \in CallSteps /\ call[w].outcome \in Outcomes
            /\ call[w].path \in Paths \union {""} /\ temp[w].kind \in {"absent", "file"}
      BY <1>1 DEF HistoryInv, Types, Calls, Nodes
    <3>3. QED
      BY <3>1, <3>2 DEF FilesTypeOK
  <2>2. \A w \in Writers : \A i \in 1..Len(snapshot[w]) : snapshot[w][i] \in Run
    BY <1>1, ElementOfSeq DEF HistoryInv, Types
  <2>3. QED
    BY <1>1, <2>1, <2>2, LogIsStarted DEF HistoryInv, Types, TypeOK, Stages
<1>2. QED
  BY <1>1, HistoryInvariant, PTL

(* No sequence of runs, limits, sizes, kills, power losses and clock steps *)
(* leaves a file the next Append refuses, on the disk or after the next    *)
(* power loss.                                                             *)
THEOREM HistoryAlwaysReadable == Spec => []AlwaysReadable
<1>1. ASSUME HistoryInv PROVE AlwaysReadable
  BY <1>1, Constants DEF HistoryInv, Shown, Sound, Fitting, AlwaysReadable, Readable
<1>2. QED
  BY <1>1, HistoryInvariant, PTL

(* Retention drops from the old end only, and never the run just stored.   *)
THEOREM NewestAreKept == Spec => []KeepsTheNewest
<1>1. HistoryInv => KeepsTheNewest
  BY DEF HistoryInv, Newer, KeepsTheNewest
<1>2. QED
  BY <1>1, HistoryInvariant, PTL

(* Whatever races and fails, the file is a subsequence of what was stored. *)
THEOREM NothingInvented == Spec => []NeverInvents
<1>1. ASSUME HistoryInv PROVE NeverInvents
  <2>1. InLog(files[Path].data, log)
    BY <1>1, Constants DEF HistoryInv, Shown
  <2>2. ASSUME NEW i \in 1..Len(files[Path].data), NEW j \in 1..Len(files[Path].data), i <= j
        PROVE  \E k, l \in 1..Len(log) :
                 /\ i < j => k < l
                 /\ log[k] = files[Path].data[i] /\ log[l] = files[Path].data[j]
    <3>1. Placed(files[Path].data, log, i, j)
      BY <2>1, <2>2 DEF InLog
    <3>2. QED
      BY <3>1 DEF Placed
  <2>3. QED
    BY <2>2, Zenon DEF NeverInvents
<1>2. QED
  BY <1>1, HistoryInvariant, PTL

=============================================================================
