--------------------------- MODULE RunCommandProofs ---------------------------
(***************************************************************************)
(* Theorems about run commands: for any number of runs that overlap on one *)
(* state file, whatever fails, no outage is recorded as notified that the  *)
(* receiver was not told of, and none slips past the threshold; with one   *)
(* run at a time the file is the atomic object of NotificationState.       *)
(***************************************************************************)
EXTENDS RunCommand, NotificationStateProofs

(* What every document on disk or in a run's memory satisfies, given the   *)
(* keys the receiver has accepted.  It speaks of the copies too: a run     *)
(* that overlaps another writes back what it read long ago.                *)
Sound(d, keys) ==
  /\ d \in Document
  /\ FitsBounds(d)
  /\ \A p \in Projects :
       /\ GoodEntry(d[p])
       /\ d[p].last # NoStatus => d[p].observed \in Times
       /\ d[p].failures >= Threshold => d[p].pending \/ d[p].notified
       /\ d[p].notified => <<p, d[p].episode>> \in keys

Delivered(s) == <<First(queue[s]).project, First(queue[s]).episode>> \in accepted

SlotInv(s) ==
  /\ Sound(snap[s], accepted)
  /\ pc[s] # "idle" => at[s] \in Times /\ results[s] \in Results
  /\ pc[s] \in {"ackRead", "ack"} => Delivered(s)

(* Every slot has its program counter and its memory. *)
Shape ==
  /\ DOMAIN pc = Slots /\ DOMAIN results = Slots /\ DOMAIN at = Slots
  /\ DOMAIN snap = Slots /\ DOMAIN queue = Slots

RunInv ==
  /\ Shape
  /\ Sound(disk, accepted)
  /\ \A s \in Slots : SlotInv(s)

-----------------------------------------------------------------------------
(* Sound documents *)

(* No alert is due before the first failure.                               *)
LEMMA ThresholdPositive == Threshold \in Thresholds /\ Threshold \in Nat /\ Threshold >= 1
BY RunAssumption, NotificationAssumption

(* A lost file, and forgotten memory, claim nothing.                       *)
LEMMA SoundEmpty ==
  ASSUME NEW keys
  PROVE  Sound(EmptyDocument, keys)
<1>1. \A p \in Projects : /\ GoodEntry(EmptyDocument[p])
                          /\ EmptyDocument[p].last = NoStatus
                          /\ EmptyDocument[p].failures = 0
                          /\ EmptyDocument[p].notified = FALSE
  BY EmptyGood DEF ZeroState
<1>2. ~(0 >= Threshold)
  BY ThresholdPositive
<1>3. QED
  BY <1>1, <1>2, EmptyGood DEF Sound

(* The receiver forgets no key. *)
LEMMA SoundForMore ==
  ASSUME NEW d, NEW keys, NEW more, keys \subseteq more, Sound(d, keys)
  PROVE  Sound(d, more)
BY DEF Sound

(* One observation: the alert becomes due at the threshold, and an outage  *)
(* that was told keeps its episode.                                        *)
LEMMA ObservedSound ==
  ASSUME NEW s \in ProjectState, GoodEntry(s), NEW x \in Status, NEW t \in Times,
         ~(Opens(s, x) /\ s.episode = MaxEpisode)
  PROVE  LET o == Observed(s, x, t, Threshold) IN
         /\ o.observed = t
         /\ o.failures >= Threshold => o.pending \/ o.notified
         /\ o.notified => s.notified /\ o.episode = s.episode
<1>1. CASE x = Healthy
  BY <1>1, ThresholdPositive DEF Observed, Recovered
<1>2. CASE x # Healthy
  <2>1. s.notified => ~Opens(s, x)
    BY StatusCases DEF Opens, GoodEntry, ValidState, ZeroState
  <2>2. QED
    BY <1>2, <2>1 DEF Observed, Failed, Due
<1>3. QED
  BY <1>1, <1>2

(* What Advance makes of a sound document is sound, at any time.           *)
LEMMA AdvancedSound ==
  ASSUME NEW d, NEW keys, Sound(d, keys), NEW t \in Times, NEW r \in Results,
         ~EpisodesExhausted(d, r), ValidDocument(Advanced(d, t, r, Threshold))
  PROVE  Sound(Advanced(d, t, r, Threshold), keys)
<1> DEFINE a == Advanced(d, t, r, Threshold)
<1>1. d \in Document /\ \A p \in Projects : GoodEntry(d[p])
  BY DEF Sound
<1>2. a \in Document /\ \A p \in Projects : GoodEntry(a[p])
  BY <1>1, AdvancedGood, ThresholdPositive
<1>3. FitsBounds(a)
  BY DEF ValidDocument
<1>4. ASSUME NEW p \in Projects
      PROVE  /\ a[p].last # NoStatus => a[p].observed \in Times
             /\ a[p].failures >= Threshold => a[p].pending \/ a[p].notified
             /\ a[p].notified => <<p, a[p].episode>> \in keys
  <2>1. CASE p \in DOMAIN r
    <3>1. a[p] = Observed(d[p], r[p], t, Threshold)
      BY <2>1 DEF Advanced
    <3>2. /\ d[p] \in ProjectState /\ GoodEntry(d[p]) /\ r[p] \in Status
          /\ ~(Opens(d[p], r[p]) /\ d[p].episode = MaxEpisode)
      BY <1>1, <2>1, ResultsShape DEF EpisodesExhausted, Document
    <3>3. /\ a[p].observed = t
          /\ a[p].failures >= Threshold => a[p].pending \/ a[p].notified
          /\ a[p].notified => d[p].notified /\ a[p].episode = d[p].episode
      BY <3>1, <3>2, ObservedSound
    <3>4. QED
      BY <3>3 DEF Sound
  <2>2. CASE p \notin DOMAIN r
    <3>1. a[p] = d[p]
      BY <2>2 DEF Advanced
    <3>2. QED
      BY <3>1 DEF Sound
  <2>3. QED
    BY <2>1, <2>2
<1>5. QED
  BY <1>2, <1>3, <1>4 DEF Sound

(* An acknowledgement for a name the document cannot hold changes nothing. *)
LEMMA AcknowledgedForeign ==
  ASSUME NEW d \in Document, NEW q, q \notin Projects
  PROVE  Acknowledged(d, q) = d
BY DEF Acknowledged, Document

(* So is what MarkDelivered makes of one, when the receiver has the event. *)
LEMMA AcknowledgedSound ==
  ASSUME NEW d, NEW keys, Sound(d, keys), NEW e, Matches(d, e),
         <<e.project, e.episode>> \in keys
  PROVE  Sound(Acknowledged(d, e.project), keys)
<1> DEFINE q == e.project
           a == Acknowledged(d, q)
<1>1. d \in Document /\ (\A p \in Projects : GoodEntry(d[p])) /\ FitsBounds(d)
  BY DEF Sound
<1>2. CASE q \in Projects
  <2>1. d[q].pending /\ d[q].episode = e.episode
    BY DEF Matches, EventOf
  <2>2. /\ a \in Document /\ (\A p \in Projects : GoodEntry(a[p])) /\ FitsBounds(a)
    BY <1>1, <1>2, <2>1, AcknowledgedGood DEF FitsBounds
  <2>3. \A p \in Projects : a[p] = IF p = q
          THEN [d[q] EXCEPT !.pending = FALSE, !.notified = TRUE] ELSE d[p]
    BY <1>1, <1>2 DEF Acknowledged, Document
  <2>4. /\ a[q].last = d[q].last /\ a[q].observed = d[q].observed
        /\ a[q].notified = TRUE /\ a[q].episode = d[q].episode
    BY <1>1, <1>2, <2>3 DEF Document, ProjectState
  <2>5. ASSUME NEW p \in Projects
        PROVE  /\ a[p].last # NoStatus => a[p].observed \in Times
               /\ a[p].failures >= Threshold => a[p].pending \/ a[p].notified
               /\ a[p].notified => <<p, a[p].episode>> \in keys
    <3>1. CASE p = q
      BY <2>1, <2>4, <3>1 DEF Sound
    <3>2. CASE p # q
      <4>1. a[p] = d[p]
        BY <2>3, <3>2
      <4>2. QED
        BY <4>1 DEF Sound
    <3>3. QED
      BY <3>1, <3>2
  <2>6. QED
    BY <2>2, <2>5 DEF Sound
<1>3. CASE q \notin Projects
  BY <1>1, <1>3, AcknowledgedForeign
<1>4. QED
  BY <1>2, <1>3

-----------------------------------------------------------------------------
(* Steps *)

(* Nothing runs, and there is no file.                                     *)
LEMMA InitRunInv == Init => RunInv
<1> SUFFICES ASSUME Init PROVE RunInv
  OBVIOUS
<1>1. Sound(EmptyDocument, accepted)
  BY SoundEmpty
<1>2. Shape
  BY DEF Init, FileInit, Shape
<1>3. ASSUME NEW s \in Slots PROVE SlotInv(s)
  BY <1>1 DEF Init, FileInit, SlotInv
<1>4. QED
  BY <1>1, <1>2, <1>3 DEF Init, FileInit, RunInv

(* A step of slot s leaves the other slots alone: what is left to show is  *)
(* that the file and slot s are in order.                                  *)
Only(s) ==
  /\ Shape' /\ accepted \subseteq accepted'
  /\ \A q \in Slots : q # s =>
       /\ pc'[q] = pc[q] /\ results'[q] = results[q] /\ at'[q] = at[q]
       /\ snap'[q] = snap[q] /\ queue'[q] = queue[q]

(* It suffices to look at the file and at the slot that moved.             *)
LEMMA OneSlot ==
  ASSUME RunInv, NEW s \in Slots, Only(s), Sound(disk', accepted'), SlotInv(s)'
  PROVE  RunInv'
<1>1. ASSUME NEW q \in Slots, q # s PROVE SlotInv(q)'
  <2>1. /\ pc'[q] = pc[q] /\ results'[q] = results[q] /\ at'[q] = at[q]
        /\ snap'[q] = snap[q] /\ queue'[q] = queue[q] /\ accepted \subseteq accepted'
    BY <1>1 DEF Only
  <2>2. SlotInv(q)
    BY DEF RunInv
  <2>3. Sound(snap'[q], accepted')
    BY <2>1, <2>2, SoundForMore DEF SlotInv
  <2>4. QED
    BY <2>1, <2>2, <2>3 DEF SlotInv, Delivered
<1>2. QED
  BY <1>1 DEF RunInv, Only

(* A run that ends, in whatever way, forgets its copy. *)
LEMMA EndKeeps ==
  ASSUME RunInv, NEW s \in Slots, NEW code, End(s, code), UNCHANGED disk,
         accepted \subseteq accepted'
  PROVE  RunInv'
<1>1. Only(s)
  BY DEF RunInv, Shape, Only, End
<1>2. Sound(disk', accepted')
  BY SoundForMore DEF RunInv
<1>3. SlotInv(s)'
  BY SoundEmpty DEF RunInv, Shape, SlotInv, End
<1>4. QED
  BY <1>1, <1>2, <1>3, OneSlot

(* A step that changes nothing but the program counter, and does not enter *)
(* an acknowledgement.                                                     *)
LEMMA MoveKeeps ==
  ASSUME RunInv, NEW s \in Slots, NEW from, NEW to, from # "idle",
         Goto(s, from, to), to \notin {"ackRead", "ack"},
         UNCHANGED <<disk, local, remote>>
  PROVE  RunInv'
<1>1. Only(s)
  BY DEF RunInv, Shape, Only, Goto, local, remote
<1>2. SlotInv(s)'
  BY DEF RunInv, Shape, SlotInv, Goto, local, remote
<1>3. QED
  BY <1>1, <1>2, OneSlot DEF RunInv, remote

(* A run that starts has results and an instant.                           *)
LEMMA StartKeeps ==
  ASSUME RunInv, NEW s \in Slots, Start(s)
  PROVE  RunInv'
<1>1. PICK selected \in Selections : \E r \in [selected -> Status] :
        results' = [results EXCEPT ![s] = r]
  BY DEF Start
<1>2. PICK r \in [selected -> Status] : results' = [results EXCEPT ![s] = r]
  BY <1>1
<1>3. r \in Results
  BY <1>2, RunAssumption DEF Results
<1>4. FreshTime \in Times
  BY DEF Start, FreshTime
<1>5. Only(s)
  BY <1>2 DEF RunInv, Shape, Only, Start, Goto, remote
<1>6. SlotInv(s)'
  BY <1>2, <1>3, <1>4 DEF RunInv, Shape, SlotInv, Start, Goto, remote
<1>7. QED
  BY <1>5, <1>6, OneSlot DEF Start, RunInv, remote

(* The copies a run takes are sound because the file is.                   *)
LEMMA ReadKeeps ==
  ASSUME RunInv, NEW s \in Slots, ReadState(s) \/ ReadForAck(s)
  PROVE  RunInv'
<1>1. Only(s)
  BY DEF RunInv, Shape, Only, ReadState, ReadForAck, Goto, remote
<1>2. SlotInv(s)'
  BY DEF RunInv, Shape, SlotInv, Delivered, ReadState, ReadForAck, Goto, remote
<1>3. QED
  BY <1>1, <1>2, OneSlot DEF ReadState, ReadForAck, RunInv, remote

(* The end of Advance, on a copy that may be old.                          *)
LEMMA WriteKeeps ==
  ASSUME RunInv, NEW s \in Slots, WriteState(s)
  PROVE  RunInv'
<1>1. /\ pc[s] = "advance" /\ ~AdvanceFails(s) /\ disk' = NextDocument(s)
      /\ accepted' = accepted
  BY DEF WriteState, Goto
<1>2. Sound(snap[s], accepted) /\ at[s] \in Times /\ results[s] \in Results
  BY <1>1 DEF RunInv, SlotInv
<1>3. Sound(disk', accepted')
  BY <1>1, <1>2, AdvancedSound DEF AdvanceFails, NextDocument
<1>4. Only(s)
  BY <1>1 DEF RunInv, Shape, Only, WriteState, Goto, Forget
<1>5. SlotInv(s)'
  BY <1>1, <1>2, SoundEmpty DEF RunInv, Shape, SlotInv, WriteState, Goto, Forget
<1>6. QED
  BY <1>3, <1>4, <1>5, OneSlot

(* The receiver's answer makes the event one it accepted.                  *)
LEMMA DeliverKeeps ==
  ASSUME RunInv, NEW s \in Slots, Deliver(s)
  PROVE  RunInv'
<1>1. /\ accepted' = accepted \union
           {<<First(queue[s]).project, First(queue[s]).episode>>}
      /\ disk' = disk /\ UNCHANGED local
  BY DEF Deliver, Receive
<1>2. Only(s)
  BY <1>1 DEF RunInv, Shape, Only, Deliver, Goto, local
<1>3. Sound(disk', accepted') /\ Sound(snap'[s], accepted')
  BY <1>1, SoundForMore DEF RunInv, SlotInv, local
<1>4. SlotInv(s)'
  BY <1>1, <1>3 DEF RunInv, Shape, SlotInv, Delivered, Deliver, Goto, local
<1>5. QED
  BY <1>2, <1>3, <1>4, OneSlot

(* The receiver may have taken the event of a failed delivery.             *)
LEMMA DeliveryFailureKeeps ==
  ASSUME RunInv, NEW s \in Slots, DeliveryFails(s)
  PROVE  RunInv'
<1>1. accepted \subseteq accepted'
  BY DEF DeliveryFails, Receive, remote
<1>2. End(s, 3) /\ UNCHANGED disk
  BY DEF DeliveryFails
<1>3. QED
  BY <1>1, <1>2, EndKeeps

(* The end of MarkDelivered, on a copy that may be old.                    *)
LEMMA AckKeeps ==
  ASSUME RunInv, NEW s \in Slots, Ack(s)
  PROVE  RunInv'
<1> DEFINE e == First(queue[s])
<1>1. /\ pc[s] = "ack" /\ Matches(snap[s], e) /\ accepted' = accepted
      /\ disk' = Acknowledged(snap[s], e.project)
  BY DEF Ack, Goto, remote
<1>2. Sound(snap[s], accepted) /\ <<e.project, e.episode>> \in accepted
  BY <1>1 DEF RunInv, SlotInv, Delivered
<1>3. Sound(disk', accepted')
  BY <1>1, <1>2, AcknowledgedSound
<1>4. Only(s)
  BY <1>1 DEF RunInv, Shape, Only, Ack, Goto, Forget
<1>5. SlotInv(s)'
  BY <1>1, <1>2, SoundEmpty DEF RunInv, Shape, SlotInv, Ack, Goto, Forget
<1>6. QED
  BY <1>3, <1>4, <1>5, OneSlot

(* Every step of a run, faults included.                                   *)
LEMMA StepKeeps ==
  ASSUME RunInv, NEW s \in Slots, Step(s) \/ Fault(s)
  PROVE  RunInv'
<1>1. CASE Start(s)
  BY <1>1, StartKeeps
<1>2. CASE RecordHistory(s)
  BY <1>2, MoveKeeps DEF RecordHistory
<1>3. CASE WriteMetrics(s)
  BY <1>3, MoveKeeps DEF WriteMetrics
<1>4. CASE ReadState(s) \/ ReadForAck(s)
  BY <1>4, ReadKeeps
<1>5. CASE WriteState(s)
  BY <1>5, WriteKeeps
<1>6. CASE Deliver(s)
  BY <1>6, DeliverKeeps
<1>7. CASE DeliveryFails(s)
  BY <1>7, DeliveryFailureKeeps
<1>8. CASE Ack(s)
  BY <1>8, AckKeeps
<1>9. CASE AllDelivered(s)
  BY <1>9, MoveKeeps DEF AllDelivered
<1>10. CASE \/ RefuseState(s) \/ AckStale(s) \/ Output(s)
            \/ PreflightFails(s) \/ StepFails(s) \/ Crash(s)
  <2>1. \E code : End(s, code) /\ UNCHANGED disk /\ accepted' = accepted
    BY <1>10 DEF RefuseState, AckStale, Output, PreflightFails, StepFails, Crash, remote
  <2>2. QED
    BY <2>1, EndKeeps
<1>11. QED
  BY <1>1, <1>2, <1>3, <1>4, <1>5, <1>6, <1>7, <1>8, <1>9, <1>10 DEF Step, Fault

(* So does every step of the environment.                                  *)
LEMMA NextRunInv == RunInv /\ [Next]_vars => RunInv'
<1> SUFFICES ASSUME RunInv, [Next]_vars PROVE RunInv'
  OBVIOUS
<1>1. ASSUME NEW s \in Slots, Step(s) \/ Fault(s) PROVE RunInv'
  BY <1>1, StepKeeps
<1>2. CASE LoseState
  <2>1. disk' = EmptyDocument /\ UNCHANGED <<pc, local, remote>>
    BY <1>2 DEF LoseState
  <2>2. Sound(disk', accepted')
    BY <2>1, SoundEmpty
  <2>3. QED
    BY <2>1, <2>2 DEF RunInv, Shape, SlotInv, Delivered, local, remote
<1>3. CASE Settle \/ UNCHANGED vars
  BY <1>3 DEF Settle, vars, RunInv, Shape, SlotInv, Delivered, local, remote
<1>4. QED
  BY <1>1, <1>2, <1>3 DEF Next

(* The inductive invariant holds in every reachable state, for any number  *)
(* of slots.                                                               *)
THEOREM RunInvariant == Spec => []RunInv
BY InitRunInv, NextRunInv, PTL DEF Spec

(* However many runs overlap, and wherever they fail, no outage is         *)
(* recorded as notified, on disk or in a copy about to be written back,    *)
(* unless the receiver accepted an event of that very outage.              *)
THEOREM NoSilentLoss == Spec => []NotifiedWasAccepted
<1>1. RunInv => NotifiedWasAccepted
  BY DEF RunInv, SlotInv, Sound, NotifiedWasAccepted
<1>2. QED
  BY <1>1, RunInvariant, PTL

(* A project whose recorded streak reached the threshold is owed an alert  *)
(* or has had it, through crashes, failed deliveries and lost updates.     *)
THEOREM AlertIsOwed == Spec => []ThresholdIsOwed
<1>1. RunInv => ThresholdIsOwed
  BY DEF RunInv, Sound, ThresholdIsOwed
<1>2. QED
  BY <1>1, RunInvariant, PTL

-----------------------------------------------------------------------------
(* Types *)

(* Every nonempty set of natural numbers has a least element. *)
LEMMA LeastNatural ==
  ASSUME NEW S, S \subseteq Nat, S # {}
  PROVE  \E n \in S : \A m \in S : n <= m
<1> DEFINE T == {0..n : n \in S}
<1>1. \A n \in S : n \in Nat /\ 0..n \in FiniteSubsetsOf(Nat)
  BY FS_Interval DEF FiniteSubsetsOf
<1>2. T \subseteq FiniteSubsetsOf(Nat) /\ T # {}
  BY <1>1
<1>3. PICK x \in T : \A y \in T : ~ (<<y, x>> \in StrictSubsetOrdering(Nat))
  BY <1>2, WFMin, FS_StrictSubsetOrderingWellFounded
<1>4. PICK n \in S : x = 0..n
  BY <1>3
<1>5. ASSUME NEW m \in S PROVE ~(m < n)
  <2>1. 0..m \in T /\ ~ (<<0..m, 0..n>> \in StrictSubsetOrdering(Nat))
    BY <1>3, <1>4
  <2>2. m < n => 0..m \subseteq 0..n /\ 0..m # 0..n /\ 0..m \in SUBSET Nat /\ 0..n \in SUBSET Nat
    BY <1>1
  <2>3. m < n => <<0..m, 0..n>> \in StrictSubsetOrdering(Nat)
    BY <2>2 DEF StrictSubsetOrdering
  <2>4. QED
    BY <2>1, <2>3
<1>6. QED
  BY <1>1, <1>5

(* Among events of projects there is one to deliver first. *)
LEMMA FirstOfEvents ==
  ASSUME NEW events, events # {}, \A e \in events : e.project \in Projects
  PROVE  First(events) \in events
<1> DEFINE P == {Position(e.project) : e \in events}
<1>1. ASSUME NEW p \in Projects PROVE Position(p) \in Nat
  <2>1. \E i \in 1..Len(ConfigOrder) : ConfigOrder[i] = p
    BY RunAssumption
  <2>2. Position(p) \in 1..Len(ConfigOrder)
    BY <2>1 DEF Position
  <2>3. QED
    BY <2>2, RunAssumption
<1>2. P \subseteq Nat /\ P # {}
  BY <1>1
<1>3. PICK n \in P : \A m \in P : n <= m
  BY <1>2, LeastNatural
<1>4. PICK e \in events : n = Position(e.project)
  BY <1>3
<1>5. \A f \in events : Position(e.project) <= Position(f.project)
  BY <1>3, <1>4
<1>6. QED
  BY <1>5 DEF First

(* What a sound document owes is a proper event.                           *)
LEMMA SoundEvent ==
  ASSUME NEW d, NEW keys, Sound(d, keys), NEW p \in Projects, d[p].pending
  PROVE  EventOf(d, p) \in Event
<1>1. d[p] \in ProjectState /\ GoodEntry(d[p]) /\ (d[p].last # NoStatus => d[p].observed \in Times)
  BY DEF Sound, Document
<1>2. d[p].last \in FailStatus
  BY <1>1, PendingEntry
<1>3. d[p].last # NoStatus /\ d[p].last # Healthy
  BY <1>2, StatusCases
<1>4. d[p].failures >= 1 /\ d[p].episode # 0
  BY <1>1, <1>3 DEF GoodEntry, ValidState
<1>5. d[p].failures \in 1..MaxInt /\ d[p].episode \in 1..MaxEpisode
  BY <1>1, <1>4, NotificationAssumption DEF ProjectState
<1>6. QED
  BY <1>1, <1>2, <1>3, <1>5 DEF EventOf, Event

(* The document a run writes is sound, and so are the events it sends.     *)
LEMMA WrittenEvents ==
  ASSUME RunInv, NEW s \in Slots, WriteState(s)
  PROVE  /\ DOMAIN results[s] \subseteq Projects
         /\ Sound(NextDocument(s), accepted)
         /\ EventsOf(NextDocument(s), results[s]) \subseteq Event
<1>1. pc[s] = "advance" /\ ~AdvanceFails(s)
  BY DEF WriteState, Goto
<1>2. Sound(snap[s], accepted) /\ at[s] \in Times /\ results[s] \in Results
  BY <1>1 DEF RunInv, SlotInv
<1>3. Sound(NextDocument(s), accepted)
  BY <1>1, <1>2, AdvancedSound DEF AdvanceFails, NextDocument
<1>4. DOMAIN results[s] \subseteq Projects
  BY <1>2, ResultsShape
<1>5. EventsOf(NextDocument(s), results[s]) \subseteq Event
  BY <1>3, <1>4, SoundEvent DEF EventsOf
<1>6. QED
  BY <1>3, <1>4, <1>5

(* The type invariant needs the documents to be sound: only then are the   *)
(* events made from them in the ranges of their fields.                    *)
TypeInv == RunInv /\ TypeOK /\ DOMAIN exit = Slots

(* Nothing has been read, sent or printed. *)
LEMMA InitTypeInv == Init => TypeInv
<1> SUFFICES ASSUME Init PROVE TypeInv
  OBVIOUS
<1>1. EmptyDocument \in Document
  BY EmptyGood
<1>2. pc \in [Slots -> Labels] /\ DOMAIN exit = Slots
  BY DEF Init, FileInit, Labels
<1>3. \A s \in Slots :
        /\ results[s] = NoResults /\ at[s] = NoTime
        /\ snap[s] = EmptyDocument /\ queue[s] = {} /\ exit[s] = NoExit
  BY DEF Init, FileInit
<1>4. losses \in 0..MaxLosses
  <2>1. MaxLosses \in Nat
    BY RunAssumption
  <2>2. QED
    BY <2>1 DEF Init, FileInit
<1>5. steady \in BOOLEAN
  BY DEF Init, FileInit
<1>6. disk \in Document /\ accepted = {} /\ shown = {}
  BY <1>1 DEF Init, FileInit
<1>7. TypeOK
  BY <1>1, <1>2, <1>3, <1>4, <1>5, <1>6 DEF TypeOK
<1>8. QED
  BY <1>2, <1>7, InitRunInv DEF TypeInv

(* The head of a nonempty queue is a proper event. *)
LEMMA FirstIsEvent ==
  ASSUME NEW events, events # {}, events \subseteq Event
  PROVE  First(events) \in events /\ First(events) \in Event
BY FirstOfEvents DEF Event

(* The receiver only hears of projects and of episodes in their range. *)
LEMMA ReceivedType ==
  ASSUME TypeInv, NEW s \in Slots, queue[s] # {},
         Receive(First(queue[s])) \/ UNCHANGED remote
  PROVE  /\ accepted' \subseteq Projects \X (1..MaxEpisode)
         /\ shown' \subseteq Projects
<1>1. accepted \subseteq Projects \X (1..MaxEpisode) /\ shown \subseteq Projects
  BY DEF TypeInv, TypeOK
<1>2. First(queue[s]) \in Event
  BY FirstIsEvent DEF TypeInv, TypeOK
<1>3. First(queue[s]).project \in Projects /\ First(queue[s]).episode \in 1..MaxEpisode
  BY <1>2 DEF Event
<1>4. QED
  BY <1>1, <1>3 DEF Receive, remote

(* What a step that starts or ends a run, or moves it, does to the types.  *)
LEMMA StepType ==
  ASSUME TypeInv, RunInv', NEW s \in Slots, Step(s) \/ Fault(s)
  PROVE  TypeInv'
<1>1. /\ disk' \in Document
      /\ \A q \in Slots : snap'[q] \in Document
  BY DEF RunInv, SlotInv, Sound
<1> DEFINE Rest ==
      /\ pc' \in [Slots -> Labels] /\ DOMAIN exit' = Slots
      /\ \A q \in Slots :
           /\ results'[q] \in Results \union {NoResults}
           /\ at'[q] \in Times \union {NoTime}
           /\ queue'[q] \subseteq Event
           /\ exit'[q] \in {NoExit, 0, 1, 2, 3}
      /\ accepted' \subseteq Projects \X (1..MaxEpisode)
      /\ shown' \subseteq Projects
      /\ steady' \in BOOLEAN /\ losses' \in 0..MaxLosses
<1> USE DEF TypeInv, TypeOK, RunInv, Shape, Labels
<1>2. CASE Start(s)
  <2>1. PICK selected \in Selections : \E r \in [selected -> Status] :
          results' = [results EXCEPT ![s] = r]
    BY <1>2 DEF Start
  <2>2. PICK r \in [selected -> Status] : results' = [results EXCEPT ![s] = r]
    BY <2>1
  <2>3. r \in Results
    BY <2>2, RunAssumption DEF Results
  <2>4. FreshTime \in Times
    BY <1>2 DEF Start, FreshTime
  <2>5. Rest
    BY <1>2, <2>2, <2>3, <2>4 DEF Start, Goto, remote, world
  <2>6. QED
    BY <1>1, <2>5
<1>3. CASE WriteState(s)
  <2>1. DOMAIN results[s] \subseteq Projects
        /\ EventsOf(NextDocument(s), results[s]) \subseteq Event
    BY <1>3, WrittenEvents
  <2>2. Rest
    BY <1>3, <2>1 DEF WriteState, Goto, world
  <2>3. QED
    BY <1>1, <2>2
<1>4. CASE Deliver(s)
  <2>1. accepted' \subseteq Projects \X (1..MaxEpisode) /\ shown' \subseteq Projects
    BY <1>4, ReceivedType DEF Deliver
  <2>2. Rest
    BY <1>4, <2>1 DEF Deliver, Goto, local, world
  <2>3. QED
    BY <1>1, <2>2
<1>5. CASE DeliveryFails(s)
  <2>1. accepted' \subseteq Projects \X (1..MaxEpisode) /\ shown' \subseteq Projects
    BY <1>5, ReceivedType DEF DeliveryFails
  <2>2. Rest
    BY <1>5, <2>1 DEF DeliveryFails, End, world
  <2>3. QED
    BY <1>1, <2>2
<1>6. CASE RecordHistory(s) \/ WriteMetrics(s) \/ AllDelivered(s)
  <2>1. Rest
    BY <1>6 DEF RecordHistory, WriteMetrics, AllDelivered, Goto, local, remote, world
  <2>2. QED
    BY <1>1, <2>1
<1>7. CASE ReadState(s) \/ ReadForAck(s)
  <2>1. Rest
    BY <1>7 DEF ReadState, ReadForAck, Goto, remote, world
  <2>2. QED
    BY <1>1, <2>1
<1>8. CASE Ack(s)
  <2>1. Rest
    BY <1>8 DEF Ack, Goto, remote, world
  <2>2. QED
    BY <1>1, <2>1
<1>9. CASE \/ RefuseState(s) \/ AckStale(s) \/ Output(s)
           \/ PreflightFails(s) \/ StepFails(s) \/ Crash(s)
  <2>1. PICK code \in {NoExit, 0, 1, 2, 3} : End(s, code) /\ UNCHANGED <<remote, world>>
    BY <1>9 DEF RefuseState, AckStale, Output, ExitCode, PreflightFails, StepFails, Crash
  <2>2. Rest
    BY <2>1 DEF End, remote, world
  <2>3. QED
    BY <1>1, <2>2
<1>10. QED
  BY <1>2, <1>3, <1>4, <1>5, <1>6, <1>7, <1>8, <1>9 DEF Step, Fault

(* Every step keeps the types. *)
LEMMA NextTypeInv == TypeInv /\ [Next]_vars => TypeInv'
<1> SUFFICES ASSUME TypeInv, [Next]_vars PROVE TypeInv'
  OBVIOUS
<1>1. RunInv'
  BY NextRunInv DEF TypeInv
<1>2. ASSUME NEW s \in Slots, Step(s) \/ Fault(s) PROVE TypeInv'
  BY <1>1, <1>2, StepType
<1>3. CASE LoseState
  <2>1. losses' \in 0..MaxLosses
    BY <1>3, RunAssumption DEF LoseState, TypeInv, TypeOK
  <2>2. disk' \in Document
    BY <1>1 DEF RunInv, Sound
  <2>3. QED
    BY <1>1, <1>3, <2>1, <2>2 DEF LoseState, TypeInv, TypeOK, local, remote
<1>4. CASE Settle \/ UNCHANGED vars
  BY <1>1, <1>4 DEF Settle, vars, TypeInv, TypeOK, local, remote, world
<1>5. QED
  BY <1>2, <1>3, <1>4 DEF Next

(* For any number of runs, whatever fails: the file, every copy, every     *)
(* event on its way and every exit code stay in their ranges.              *)
THEOREM TypeCorrect == Spec => []TypeOK
<1>1. TypeInv => TypeOK
  BY DEF TypeInv
<1>2. QED
  BY <1>1, InitTypeInv, NextTypeInv, PTL DEF Spec

-----------------------------------------------------------------------------
(* One run at a time *)

(* The copy a run decides on is the file itself, and the file is not lost. *)
SoleInv ==
  /\ \A s \in Slots : pc[s] \in {"advance", "ack"} => snap[s] = disk
  /\ losses = 0

(* No run has read anything yet.                                           *)
LEMMA InitSoleInv == Init => SoleInv
BY DEF Init, FileInit, SoleInv

(* Nobody else writes between a run's read and its write.                  *)
LEMMA NextSoleInv ==
  ASSUME NEW sole, Slots = {sole}, MaxLosses = 0
  PROVE  RunInv /\ SoleInv /\ [Next]_vars => SoleInv'
<1> SUFFICES ASSUME RunInv, SoleInv, [Next]_vars PROVE SoleInv'
  OBVIOUS
<1>1. sole \in Slots /\ losses = 0 /\ DOMAIN pc = {sole} /\ DOMAIN snap = {sole}
  BY DEF SoleInv, RunInv, Shape
<1>2. CASE Step(sole) \/ Fault(sole)
  <2>1. losses' = losses
    BY <1>2 DEF Step, Fault, Start, RecordHistory, WriteMetrics, ReadState, WriteState,
       RefuseState, Deliver, DeliveryFails, ReadForAck, Ack, AckStale, AllDelivered, Output,
       PreflightFails, StepFails, Crash, world
  <2>2. CASE ReadState(sole) \/ ReadForAck(sole)
    BY <1>1, <2>1, <2>2 DEF SoleInv, ReadState, ReadForAck, Goto, RunInv, Shape
  <2>3. CASE ~(ReadState(sole) \/ ReadForAck(sole))
    <3>1. pc'[sole] \notin {"advance", "ack"}
      BY <1>1, <1>2, <2>3 DEF RunInv, Shape, Step, Fault, Start, RecordHistory, WriteMetrics,
         WriteState, RefuseState, Deliver, DeliveryFails, Ack, AckStale, AllDelivered, Output,
         PreflightFails, StepFails, Crash, Goto, End
    <3>2. QED
      BY <1>1, <2>1, <3>1 DEF SoleInv
  <2>4. QED
    BY <2>2, <2>3
<1>3. ~LoseState
  BY <1>1 DEF LoseState
<1>4. CASE Settle \/ UNCHANGED vars
  BY <1>4 DEF SoleInv, Settle, vars, local, world
<1>5. QED
  BY <1>2, <1>3, <1>4 DEF Next

(* Advance decides on the file as it is.                                   *)
LEMMA WriteIsAdvance ==
  ASSUME RunInv, SoleInv, NEW s \in Slots, WriteState(s)
  PROVE  FileNext
<1> DEFINE t == at[s]
           r == results[s]
<1>1. /\ pc[s] = "advance" /\ ~AdvanceFails(s) /\ disk' = NextDocument(s)
      /\ snap[s] = disk
  BY DEF WriteState, Goto, SoleInv
<1>2. t \in Times /\ r \in Results /\ Threshold \in Thresholds
  BY <1>1, ThresholdPositive DEF RunInv, SlotInv
<1>3. /\ ~EpisodesExhausted(disk, r) /\ ValidDocument(Advanced(disk, t, r, Threshold))
      /\ disk' = Advanced(disk, t, r, Threshold)
  BY <1>1 DEF AdvanceFails, NextDocument
<1>4. Advance(t, r, Threshold)
  BY <1>3 DEF Advance
<1>5. QED
  BY <1>2, <1>4 DEF FileNext

(* So does MarkDelivered.                                                  *)
LEMMA AckIsMarkDelivered ==
  ASSUME RunInv, SoleInv, NEW s \in Slots, Ack(s)
  PROVE  FileNext \/ UNCHANGED disk
<1> DEFINE e == First(queue[s])
           q == e.project
<1>1. Matches(disk, e) /\ disk' = Acknowledged(disk, q)
  BY DEF Ack, Goto, SoleInv
<1>2. /\ Sound(disk, accepted) /\ disk \in Document /\ FitsBounds(disk)
      /\ \A p \in Projects : GoodEntry(disk[p])
  BY DEF RunInv, Sound
<1>3. CASE q \in Projects
  <2>1. disk[q].pending /\ EventOf(disk, q) = e
    BY <1>1 DEF Matches
  <2>2. e \in Event
    BY <1>2, <1>3, <2>1, SoundEvent
  <2>3. ValidDocument(Acknowledged(disk, q))
    BY <1>2, <1>3, <2>1, AcknowledgedGood, GoodIsValid DEF ValidDocument, FitsBounds
  <2>4. MarkDelivered(e)
    BY <1>1, <2>3 DEF MarkDelivered
  <2>5. QED
    BY <2>2, <2>4 DEF FileNext
<1>4. CASE q \notin Projects
  BY <1>1, <1>2, <1>4, AcknowledgedForeign
<1>5. QED
  BY <1>3, <1>4

(* With one run at a time and no loss of the file, the separate read and   *)
(* write of Advance and of MarkDelivered implement the atomic object.      *)
THEOREM SingleWriterIsAtomic ==
  ASSUME NEW sole, Slots = {sole}, MaxLosses = 0
  PROVE  Spec => AtomicState
<1>1. Init => FileInit
  BY DEF Init, FileInit
<1>2. RunInv /\ SoleInv /\ [Next]_vars => [FileNext]_disk
  <2> SUFFICES ASSUME RunInv, SoleInv, [Next]_vars PROVE FileNext \/ UNCHANGED disk
    OBVIOUS
  <2>1. CASE \E s \in Slots : WriteState(s)
    BY <2>1, WriteIsAdvance
  <2>2. CASE \E s \in Slots : Ack(s)
    BY <2>2, AckIsMarkDelivered
  <2>3. CASE UNCHANGED disk
    BY <2>3
  <2>4. CASE LoseState
    BY <2>4 DEF LoseState, SoleInv
  <2>5. QED
    BY <2>1, <2>2, <2>3, <2>4 DEF Next, Step, Fault, Start, RecordHistory, WriteMetrics,
       ReadState, RefuseState, Deliver, DeliveryFails, ReadForAck, AckStale, AllDelivered,
       Output, PreflightFails, StepFails, Crash, Settle, vars
<1>3. RunInv /\ SoleInv /\ [Next]_vars => SoleInv'
  BY NextSoleInv
<1>4. QED
  BY <1>1, <1>2, <1>3, InitRunInv, NextRunInv, InitSoleInv, PTL
     DEF Spec, AtomicState, FileSpec

(* Through the atomic object, the run command keeps what Alerts promises,  *)
(* whatever fails: an outage is recorded as told at most once, a due alert *)
(* stays due until it is told or the project recovers, and outage numbers  *)
(* never repeat or decrease.                                               *)
THEOREM SingleWriterKeepsAlerts ==
  ASSUME NEW sole, Slots = {sole}, MaxLosses = 0
  PROVE  Spec => AlertsSpec
<1>1. Spec => FileSpec
  BY SingleWriterIsAtomic DEF AtomicState
<1>2. QED
  BY <1>1, ImplementsAlerts, PTL

-----------------------------------------------------------------------------
(* What a single writer promises *)

(* A run's queue and its results are those of the file: what it has still  *)
(* to send or to mark is pending there, nothing else it checked is.        *)
Recording(s) ==
  /\ pc[s] \notin {"deliver", "ackRead", "ack"} => queue[s] = {}
  /\ pc[s] \in {"ackRead", "ack"} => queue[s] # {}
  /\ \A e \in queue[s] : Matches(disk, e)
  /\ pc[s] \in {"deliver", "ackRead", "ack", "output"} =>
       \A p \in DOMAIN results[s] :
         /\ disk[p].last = results[s][p]
         /\ disk[p].pending => EventOf(disk, p) \in queue[s]

(* The receiver has seen no episode the file has not reached, and shows    *)
(* the outage whose key it has seen.                                       *)
Telling ==
  /\ NotifiedWasShown
  /\ \A p \in Projects, k \in 1..MaxEpisode : <<p, k>> \in accepted => k <= disk[p].episode
  /\ \A p \in Projects :
       <<p, disk[p].episode>> \in accepted /\ disk[p].last \in FailStatus => p \in shown

SingleInv ==
  /\ TypeInv /\ SoleInv
  /\ \A s \in Slots : Recording(s)
  /\ ExitCodeIsTruthful
  /\ Telling

(* Nothing has been observed, sent or told. *)
LEMMA InitSingleInv == Init => SingleInv
<1> SUFFICES ASSUME Init PROVE SingleInv
  OBVIOUS
<1>1. TypeInv /\ SoleInv
  BY InitTypeInv, InitSoleInv
<1>2. \A p \in Projects : disk[p] = ZeroState
  BY EmptyGood DEF Init, FileInit
<1>3. \A s \in Slots : pc[s] = "idle" /\ queue[s] = {} /\ exit[s] = NoExit
  BY DEF Init, FileInit
<1>4. \A s \in Slots : Recording(s)
  BY <1>3 DEF Recording
<1>5. ExitCodeIsTruthful
  BY <1>3 DEF ExitCodeIsTruthful, NoExit
<1>6. Telling
  BY <1>2 DEF Init, FileInit, Telling, NotifiedWasShown, ZeroState
<1>7. QED
  BY <1>1, <1>4, <1>5, <1>6 DEF SingleInv

(* The entry of an event that matches: an open outage nobody was told of.  *)
LEMMA MatchedEntry ==
  ASSUME NEW d, NEW keys, Sound(d, keys), NEW e \in Event, Matches(d, e)
  PROVE  /\ e.project \in Projects /\ e.episode \in 1..MaxEpisode
         /\ d[e.project].pending /\ d[e.project].episode = e.episode
         /\ EventOf(d, e.project) = e
         /\ d[e.project].last \in FailStatus
<1>1. e.project \in Projects /\ e.episode \in 1..MaxEpisode
  BY DEF Event
<1>2. d[e.project] \in ProjectState /\ GoodEntry(d[e.project])
  BY <1>1 DEF Sound, Document
<1>3. d[e.project].pending /\ EventOf(d, e.project) = e
  BY DEF Matches
<1>4. d[e.project].episode = e.episode
  BY <1>3 DEF EventOf
<1>5. QED
  BY <1>1, <1>2, <1>3, <1>4, PendingEntry

(* One observation: the episode moves on exactly when an outage begins,    *)
(* and what is notified was so before, of the same outage.                 *)
LEMMA ObservedEpisode ==
  ASSUME NEW s \in ProjectState, GoodEntry(s), NEW x \in Status, NEW t
  PROVE  LET o == Observed(s, x, t, Threshold) IN
         /\ o.last = x
         /\ o.episode = IF Opens(s, x) THEN s.episode + 1 ELSE s.episode
         /\ o.notified => s.notified /\ x # Healthy
         /\ x \in FailStatus /\ ~Opens(s, x) => s.last \in FailStatus
<1>1. CASE x = Healthy
  BY <1>1, StatusCases DEF Observed, Recovered, Opens
<1>2. CASE x # Healthy
  BY <1>2, StatusCases DEF Observed, Failed, Opens, ProjectState
<1>3. QED
  BY <1>1, <1>2

(* The end of Advance, on the file itself. *)
LEMMA WriteRecords ==
  ASSUME SingleInv, NEW s \in Slots, WriteState(s)
  PROVE  Recording(s)' /\ Telling'
<1> DEFINE d == disk
           n == NextDocument(s)
           r == results[s]
<1>1. /\ pc[s] = "advance" /\ snap[s] = d /\ disk' = n /\ results' = results
      /\ pc'[s] = "deliver" /\ queue'[s] = EventsOf(n, r)
      /\ shown' = shown \ {p \in DOMAIN r : r[p] = Healthy} /\ accepted' = accepted
  BY DEF WriteState, Goto, SingleInv, SoleInv, TypeInv, RunInv, Shape
<1>2. Sound(d, accepted) /\ Sound(n, accepted) /\ DOMAIN r \subseteq Projects /\ r \in Results
  BY <1>1, WrittenEvents DEF SingleInv, TypeInv, RunInv, SlotInv
<1>3. ASSUME NEW p \in Projects
      PROVE  /\ d[p] \in ProjectState /\ n[p] \in ProjectState /\ GoodEntry(d[p])
             /\ p \notin DOMAIN r => n[p] = d[p]
             /\ p \in DOMAIN r =>
                  /\ n[p].last = r[p]
                  /\ n[p].episode = IF Opens(d[p], r[p]) THEN d[p].episode + 1 ELSE d[p].episode
                  /\ n[p].notified => d[p].notified /\ r[p] # Healthy
                  /\ r[p] \in FailStatus /\ ~Opens(d[p], r[p]) => d[p].last \in FailStatus
  <2>1. d[p] \in ProjectState /\ n[p] \in ProjectState /\ GoodEntry(d[p])
    BY <1>2 DEF Sound, Document
  <2>2. n[p] = IF p \in DOMAIN r THEN Observed(d[p], r[p], at[s], Threshold) ELSE d[p]
    BY <1>1 DEF NextDocument, Advanced
  <2>3. p \in DOMAIN r => r[p] \in Status
    BY <1>2, ResultsShape
  <2>4. QED
    BY <2>1, <2>2, <2>3, ObservedEpisode
<1> HIDE DEF d, n, r
<1>4. Recording(s)'
  <2>1. \A p \in DOMAIN r : n[p].pending => EventOf(n, p) \in queue'[s]
    BY <1>1 DEF EventsOf
  <2>2. ASSUME NEW e \in queue'[s] PROVE Matches(n, e)
    <3>1. PICK p \in DOMAIN r : n[p].pending /\ e = EventOf(n, p)
      BY <1>1 DEF EventsOf
    <3>2. e.project = p
      BY <3>1 DEF EventOf
    <3>3. QED
      BY <3>1, <3>2 DEF Matches
  <2>3. \A p \in DOMAIN r : n[p].last = r[p]
    BY <1>2, <1>3
  <2>4. QED
    BY <1>1, <2>1, <2>2, <2>3 DEF Recording, r
<1>5. Telling'
  <2>0. Telling
    BY DEF SingleInv
  <2>1. ASSUME NEW p \in Projects, n[p].notified PROVE p \in shown'
    <3>1. d[p].notified /\ (p \in DOMAIN r => r[p] # Healthy)
      BY <1>3, <2>1
    <3>2. QED
      BY <1>1, <2>0, <3>1 DEF Telling, NotifiedWasShown, d
  <2>2. ASSUME NEW p \in Projects, NEW k \in 1..MaxEpisode, <<p, k>> \in accepted
        PROVE  k <= n[p].episode
    <3>1. k <= d[p].episode
      BY <2>0, <2>2 DEF Telling, d
    <3>2. d[p].episode \in Nat /\ n[p].episode \in {d[p].episode, d[p].episode + 1}
      BY <1>3, NotificationAssumption DEF ProjectState
    <3>3. QED
      BY <3>1, <3>2
  <2>3. ASSUME NEW p \in Projects, <<p, n[p].episode>> \in accepted, n[p].last \in FailStatus
        PROVE  p \in shown'
    <3>1. n[p].episode \in 1..MaxEpisode
      BY <2>3 DEF SingleInv, TypeInv, TypeOK
    <3>2. n[p].episode <= d[p].episode
      BY <2>0, <2>3, <3>1 DEF Telling, d
    <3>3. CASE p \in DOMAIN r
      <4>1. d[p].episode \in Nat
        BY <1>3, NotificationAssumption DEF ProjectState
      <4>2. ~Opens(d[p], r[p]) /\ n[p].episode = d[p].episode /\ n[p].last = r[p]
        BY <1>3, <3>2, <3>3, <4>1
      <4>3. d[p].last \in FailStatus
        BY <1>3, <2>3, <3>3, <4>2
      <4>4. p \in shown
        BY <2>0, <2>3, <4>2, <4>3 DEF Telling, d
      <4>5. r[p] # Healthy
        BY <2>3, <4>2, StatusCases
      <4>6. QED
        BY <1>1, <4>4, <4>5
    <3>4. CASE p \notin DOMAIN r
      <4>1. p \in shown
        BY <1>3, <2>0, <2>3, <3>4 DEF Telling, d
      <4>2. QED
        BY <1>1, <3>4, <4>1
    <3>5. QED
      BY <3>3, <3>4
  <2>4. QED
    BY <1>1, <2>1, <2>2, <2>3 DEF Telling, NotifiedWasShown
<1>6. QED
  BY <1>4, <1>5

(* The end of MarkDelivered, on the file itself. *)
LEMMA AckRecords ==
  ASSUME SingleInv, NEW s \in Slots, Ack(s)
  PROVE  Recording(s)' /\ Telling'
<1> DEFINE d == disk
           e == First(queue[s])
           q == e.project
           n == Acknowledged(d, q)
           r == results[s]
<1>1. /\ pc[s] = "ack" /\ snap[s] = d /\ disk' = n /\ Matches(d, e)
      /\ pc'[s] = "deliver" /\ queue'[s] = queue[s] \ {e}
      /\ results' = results /\ shown' = shown /\ accepted' = accepted
  BY DEF Ack, Goto, remote, SingleInv, SoleInv, TypeInv, RunInv, Shape
<1>2. Recording(s) /\ Telling
  BY DEF SingleInv
<1>3. e \in queue[s] /\ e \in Event
  BY <1>1, <1>2, FirstIsEvent DEF Recording, SingleInv, TypeInv, TypeOK
<1>4. Sound(d, accepted) /\ Delivered(s) /\ r \in Results
  BY <1>1 DEF SingleInv, TypeInv, RunInv, SlotInv
<1>5. /\ q \in Projects /\ d[q].pending /\ EventOf(d, q) = e
      /\ d[q].episode = e.episode /\ d[q].last \in FailStatus
  BY <1>1, <1>3, <1>4, MatchedEntry
<1>6. d \in Document /\ \A p \in Projects : n[p] = IF p = q
        THEN [d[q] EXCEPT !.pending = FALSE, !.notified = TRUE] ELSE d[p]
  BY <1>4, <1>5 DEF Acknowledged, Document, Sound
<1>7. /\ n[q].last = d[q].last /\ n[q].episode = d[q].episode /\ n[q].pending = FALSE
      /\ \A p \in Projects : p # q => n[p] = d[p]
  BY <1>5, <1>6 DEF Document, ProjectState
<1>8. q \in shown
  BY <1>2, <1>4, <1>5 DEF Telling, Delivered
<1> HIDE DEF d, e, q, n, r
<1>9. Recording(s)'
  <2>1. ASSUME NEW f \in queue'[s] PROVE Matches(n, f)
    <3>1. f \in queue[s] /\ f # e /\ f \in Event /\ Matches(d, f)
      BY <1>1, <1>2, <2>1 DEF Recording, SingleInv, TypeInv, TypeOK, d
    <3>2. f.project \in Projects /\ EventOf(d, f.project) = f
      BY <1>4, <3>1, MatchedEntry
    <3>3. f.project # q
      BY <1>5, <3>1, <3>2
    <3>4. n[f.project] = d[f.project]
      BY <1>7, <3>2, <3>3
    <3>5. QED
      BY <3>1, <3>4 DEF Matches, EventOf
  <2>2. ASSUME NEW p \in DOMAIN r
        PROVE  /\ n[p].last = r[p]
               /\ n[p].pending => EventOf(n, p) \in queue'[s]
    <3>1. p \in Projects /\ d[p].last = r[p] /\ (d[p].pending => EventOf(d, p) \in queue[s])
      BY <1>1, <1>2, <1>4, ResultsShape DEF Recording, r, d
    <3>2. CASE p = q
      BY <1>7, <3>1, <3>2
    <3>3. CASE p # q
      <4>1. n[p] = d[p] /\ EventOf(n, p) = EventOf(d, p)
        BY <1>7, <3>1, <3>3 DEF EventOf
      <4>2. EventOf(d, p).project = p
        BY DEF EventOf
      <4>3. EventOf(d, p) # e
        BY <3>3, <4>2 DEF q
      <4>4. QED
        BY <1>1, <3>1, <4>1, <4>3
    <3>4. QED
      BY <3>2, <3>3
  <2>3. QED
    BY <1>1, <2>1, <2>2 DEF Recording, r
<1>10. Telling'
  <2>1. \A p \in Projects : n[p].last = d[p].last /\ n[p].episode = d[p].episode
                            /\ (n[p].notified => p \in shown)
    BY <1>2, <1>7, <1>8 DEF Telling, NotifiedWasShown, d
  <2>2. QED
    BY <1>1, <1>2, <2>1 DEF Telling, NotifiedWasShown, d
<1>11. QED
  BY <1>9, <1>10

(* The receiver hears of an outage the file has pending. *)
LEMMA ReceiveTells ==
  ASSUME SingleInv, NEW s \in Slots, queue[s] # {}, UNCHANGED disk,
         Receive(First(queue[s])) \/ UNCHANGED remote
  PROVE  Telling'
<1> DEFINE e == First(queue[s])
<1>1. Telling /\ Sound(disk, accepted)
  BY DEF SingleInv, TypeInv, RunInv
<1>2. e \in Event /\ Matches(disk, e)
  BY FirstIsEvent DEF SingleInv, TypeInv, TypeOK, Recording
<1>3. /\ e.project \in Projects /\ disk[e.project].episode = e.episode
      /\ disk[e.project].last \in FailStatus /\ e.episode \in Int
  BY <1>1, <1>2, MatchedEntry
<1>4. CASE UNCHANGED remote
  BY <1>1, <1>4 DEF Telling, NotifiedWasShown, remote
<1>5. CASE Receive(e)
  <2>1. /\ accepted' = accepted \union {<<e.project, e.episode>>}
        /\ shown \subseteq shown' /\ shown' \subseteq shown \union {e.project}
        /\ <<e.project, e.episode>> \notin accepted => e.project \in shown'
    BY <1>5 DEF Receive
  <2>2. e.project \in shown'
    BY <1>1, <1>3, <2>1 DEF Telling
  <2> HIDE DEF e
  <2>3. NotifiedWasShown'
    BY <1>1, <2>1 DEF Telling, NotifiedWasShown
  <2>4. \A p \in Projects, k \in 1..MaxEpisode : <<p, k>> \in accepted' => k <= disk[p].episode
    BY <1>1, <1>3, <2>1 DEF Telling
  <2>5. \A p \in Projects :
          <<p, disk[p].episode>> \in accepted' /\ disk[p].last \in FailStatus => p \in shown'
    BY <1>1, <2>1, <2>2 DEF Telling
  <2>6. QED
    BY <2>3, <2>4, <2>5 DEF Telling
<1>6. QED
  BY <1>4, <1>5

(* With no alert left to send, what the exit code says is so. *)
LEMMA OutputTells ==
  ASSUME SingleInv, NEW sole, Slots = {sole}, Output(sole)
  PROVE  ExitCodeIsTruthful'
<1>1. /\ pc[sole] = "output" /\ exit'[sole] = ExitCode(results[sole])
      /\ results' = results /\ disk' = disk
  BY DEF Output, End, SingleInv, TypeInv
<1>2. queue[sole] = {} /\ \A p \in DOMAIN results[sole] :
        disk[p].last = results[sole][p] /\ ~disk[p].pending
  BY <1>1 DEF SingleInv, Recording
<1>3. exit'[sole] = 0 => \A p \in DOMAIN results[sole] : results[sole][p] = Healthy
  BY <1>1 DEF ExitCode
<1>4. QED
  BY <1>1, <1>2, <1>3 DEF ExitCodeIsTruthful

(* Every step of the only run keeps what it recorded and what was told. *)
LEMMA StepSingle ==
  ASSUME SingleInv, NEW sole, Slots = {sole}, Step(sole) \/ Fault(sole)
  PROVE  Recording(sole)' /\ ExitCodeIsTruthful' /\ Telling'
<1>1. sole \in Slots /\ Recording(sole) /\ Telling /\ ExitCodeIsTruthful
      /\ DOMAIN pc = Slots /\ DOMAIN queue = Slots /\ DOMAIN exit = Slots
      /\ DOMAIN results = Slots
  BY DEF SingleInv, TypeInv, RunInv, Shape
<1>2. CASE WriteState(sole)
  <2>1. pc'[sole] = "deliver"
    BY <1>1, <1>2 DEF WriteState, Goto
  <2>2. QED
    BY <1>1, <1>2, <2>1, WriteRecords DEF ExitCodeIsTruthful
<1>3. CASE Ack(sole)
  <2>1. pc'[sole] = "deliver"
    BY <1>1, <1>3 DEF Ack, Goto
  <2>2. QED
    BY <1>1, <1>3, <2>1, AckRecords DEF ExitCodeIsTruthful
<1>4. CASE Deliver(sole)
  <2>1. /\ pc[sole] = "deliver" /\ pc'[sole] = "ackRead" /\ queue[sole] # {}
        /\ UNCHANGED <<disk, queue, results>>
    BY <1>1, <1>4 DEF Deliver, Goto, local
  <2>2. Telling'
    BY <1>1, <1>4, <2>1, ReceiveTells DEF Deliver
  <2>3. QED
    BY <1>1, <2>1, <2>2 DEF Recording, ExitCodeIsTruthful
<1>5. ASSUME NEW code, End(sole, code), UNCHANGED disk, Telling',
             code \in {0, 1} => ExitCodeIsTruthful'
      PROVE  Recording(sole)' /\ ExitCodeIsTruthful' /\ Telling'
  <2>1. pc'[sole] = "idle" /\ queue'[sole] = {} /\ exit'[sole] = code
    BY <1>1, <1>5 DEF End
  <2>2. QED
    BY <1>5, <2>1 DEF Recording, ExitCodeIsTruthful
<1>6. CASE DeliveryFails(sole)
  <2>1. End(sole, 3) /\ UNCHANGED disk /\ queue[sole] # {}
    BY <1>6 DEF DeliveryFails
  <2>2. Telling'
    BY <1>1, <1>6, <2>1, ReceiveTells DEF DeliveryFails
  <2>3. QED
    BY <1>5, <2>1, <2>2
<1>7. CASE Output(sole)
  <2>1. End(sole, ExitCode(results[sole])) /\ UNCHANGED disk
    BY <1>7 DEF Output
  <2>2. Telling'
    BY <1>1, <1>7 DEF Output, Telling, NotifiedWasShown, remote
  <2>3. QED
    BY <1>5, <1>7, <2>1, <2>2, OutputTells
<1>8. CASE RefuseState(sole) \/ AckStale(sole) \/ PreflightFails(sole) \/ StepFails(sole)
           \/ Crash(sole)
  <2>1. /\ \E code : code \notin {0, 1} /\ End(sole, code)
        /\ UNCHANGED disk /\ UNCHANGED remote
    BY <1>8 DEF RefuseState, AckStale, PreflightFails, StepFails, Crash, NoExit
  <2>2. Telling'
    BY <1>1, <2>1 DEF Telling, NotifiedWasShown, remote
  <2>3. QED
    BY <1>5, <2>1, <2>2
<1>9. CASE Start(sole)
  <2>1. /\ pc[sole] = "idle" /\ pc'[sole] = "history"
        /\ UNCHANGED <<disk, queue>> /\ UNCHANGED remote
    BY <1>1, <1>9 DEF Start, Goto
  <2>2. QED
    BY <1>1, <2>1 DEF Recording, ExitCodeIsTruthful, Telling, NotifiedWasShown, remote
<1>10. CASE \/ RecordHistory(sole) \/ WriteMetrics(sole) \/ ReadState(sole)
            \/ ReadForAck(sole) \/ AllDelivered(sole)
  <2>1. /\ UNCHANGED <<disk, queue, results>> /\ UNCHANGED remote
        /\ \/ pc[sole] = "history" /\ pc'[sole] = "metrics"
           \/ pc[sole] = "metrics" /\ pc'[sole] = "read"
           \/ pc[sole] = "read" /\ pc'[sole] = "advance"
           \/ pc[sole] = "ackRead" /\ pc'[sole] = "ack"
           \/ pc[sole] = "deliver" /\ pc'[sole] = "output" /\ queue[sole] = {}
    BY <1>1, <1>10 DEF RecordHistory, WriteMetrics, ReadState, ReadForAck, AllDelivered,
       Goto, local
  <2>2. QED
    BY <1>1, <2>1 DEF Recording, ExitCodeIsTruthful, Telling, NotifiedWasShown, remote
<1>11. QED
  BY <1>2, <1>3, <1>4, <1>6, <1>7, <1>8, <1>9, <1>10 DEF Step, Fault

(* With one run at a time and no loss of the file, every step keeps all. *)
LEMMA NextSingleInv ==
  ASSUME NEW sole, Slots = {sole}, MaxLosses = 0
  PROVE  SingleInv /\ [Next]_vars => SingleInv'
<1> SUFFICES ASSUME SingleInv, [Next]_vars PROVE SingleInv'
  OBVIOUS
<1>1. TypeInv' /\ SoleInv'
  BY NextTypeInv, NextSoleInv DEF SingleInv, TypeInv
<1>2. CASE Step(sole) \/ Fault(sole)
  BY <1>1, <1>2, StepSingle DEF SingleInv
<1>3. ~LoseState
  BY DEF LoseState, SingleInv, SoleInv
<1>4. CASE Settle \/ UNCHANGED vars
  <2>1. UNCHANGED <<disk, pc, exit, local, remote>>
    BY <1>4 DEF Settle, vars
  <2>2. QED
    BY <1>1, <2>1 DEF SingleInv, Recording, ExitCodeIsTruthful, Telling, NotifiedWasShown,
       local, remote
<1>5. QED
  BY <1>2, <1>3, <1>4 DEF Next

(* State is persisted before it is sent: every event a run has still to    *)
(* deliver or to mark is pending in the file, field by field.              *)
THEOREM PersistedBeforeSent ==
  ASSUME NEW sole, Slots = {sole}, MaxLosses = 0
  PROVE  Spec => []QueuedIsPending
<1>1. SingleInv => QueuedIsPending
  BY DEF SingleInv, Recording, QueuedIsPending
<1>2. SingleInv /\ [Next]_vars => SingleInv'
  BY NextSingleInv
<1>3. QED
  BY <1>1, <1>2, InitSingleInv, PTL DEF Spec

(* Exit codes 0 and 1 are only given when the file holds what the run      *)
(* reported and owes no alert to any project it checked.                   *)
THEOREM ExitCodesAreTruthful ==
  ASSUME NEW sole, Slots = {sole}, MaxLosses = 0
  PROVE  Spec => []ExitCodeIsTruthful
<1>1. SingleInv => ExitCodeIsTruthful
  BY DEF SingleInv
<1>2. SingleInv /\ [Next]_vars => SingleInv'
  BY NextSingleInv
<1>3. QED
  BY <1>1, <1>2, InitSingleInv, PTL DEF Spec

(* As long as the file is not lost, a receiver that drops repeated keys    *)
(* has shown every outage the file records as notified: no key is used     *)
(* for two outages.                                                        *)
THEOREM EpisodesAreGoodKeys ==
  ASSUME NEW sole, Slots = {sole}, MaxLosses = 0
  PROVE  Spec => []NotifiedWasShown
<1>1. SingleInv => NotifiedWasShown
  BY DEF SingleInv, Telling
<1>2. SingleInv /\ [Next]_vars => SingleInv'
  BY NextSingleInv
<1>3. QED
  BY <1>1, <1>2, InitSingleInv, PTL DEF Spec

=============================================================================
