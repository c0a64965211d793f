------------------------------ MODULE RunCommand ------------------------------
(***************************************************************************)
(* The run and doctor commands with notifications enabled                  *)
(* (executeChecks in internal/cli/app.go): check the projects, append the  *)
(* history, write the metrics, advance the notification state, then per    *)
(* pending event deliver and mark delivered, and print.                    *)
(*                                                                         *)
(* Every file operation is a step of its own, so that a crash, an error or *)
(* another run can come between two of them.  With one scheduler slot the  *)
(* runs follow one another, the single writer the documentation asks for;  *)
(* with more they overlap.                                                 *)
(***************************************************************************)
EXTENDS NotificationState, Sequences

CONSTANTS
  Slots,        \* runs that may be active at once
  ConfigOrder,  \* the projects in the order of the configuration file
  Selections,   \* the sets of projects a run may select (--project)
  Threshold,    \* --notify-after
  MaxOutages,   \* bound: no outage begins beyond this episode number
  MaxLosses     \* bound: how often the state file is lost

ASSUME RunAssumption ==
  /\ Threshold \in Thresholds
  /\ ConfigOrder \in Seq(Projects)
  /\ Projects = {ConfigOrder[i] : i \in 1..Len(ConfigOrder)}
  /\ Selections \subseteq (SUBSET Projects) \ {{}}
  /\ MaxLosses \in Nat /\ MaxOutages \in Nat

VARIABLES
  pc,        \* per slot, the next step of its run
  results,   \* per slot, what RunProjects returned
  at,        \* per slot, the instant it finished
  snap,      \* per slot, the document it read last
  queue,     \* per slot, the events Advance returned, not yet marked
  exit,      \* per slot, the exit code of the last run, NoExit before
  accepted,  \* the receiver: the <<project, episode>> keys it has seen
  shown,     \* the receiver: projects whose present outage it has shown
  steady,    \* from some moment on no step fails and no process dies
  losses

local  == <<results, at, snap, queue>>
remote == <<accepted, shown>>
world  == <<steady, losses>>
vars   == <<disk, pc, exit, local, remote, world>>

NoExit    == -1
NoResults == << >>

Labels == {"idle", "history", "metrics", "read", "advance",
           "deliver", "ackRead", "ack", "output"}

Init ==
  /\ FileInit
  /\ pc = [s \in Slots |-> "idle"]
  /\ results = [s \in Slots |-> NoResults]
  /\ at = [s \in Slots |-> NoTime]
  /\ snap = [s \in Slots |-> EmptyDocument]
  /\ queue = [s \in Slots |-> {}]
  /\ exit = [s \in Slots |-> NoExit]
  /\ accepted = {} /\ shown = {}
  /\ steady = FALSE /\ losses = 0

-----------------------------------------------------------------------------
(* Helpers *)

Goto(s, from, to) == pc[s] = from /\ pc' = [pc EXCEPT ![s] = to]

(* The process ends: its memory is gone, the results stay as its output. *)
End(s, code) ==
  /\ pc' = [pc EXCEPT ![s] = "idle"]
  /\ exit' = [exit EXCEPT ![s] = code]
  /\ at' = [at EXCEPT ![s] = NoTime]
  /\ snap' = [snap EXCEPT ![s] = EmptyDocument]
  /\ queue' = [queue EXCEPT ![s] = {}]
  /\ UNCHANGED results

ExitCode(r) == IF \E p \in DOMAIN r : r[p] # Healthy THEN 1 ELSE 0

(* The wall clock never gives two runs the same instant; instants nothing  *)
(* refers to any more are reused to keep the state space finite.           *)
TimesInUse ==
  {disk[p].observed : p \in Projects} \union {at[s] : s \in Slots}
    \union {snap[s][p].observed : s \in Slots, p \in Projects}
FreshTime == CHOOSE t \in Times : t \notin TimesInUse

(* The pending projects of a run, as events.  They leave in the order of   *)
(* its results, which is that of the configuration.                        *)
EventsOf(d, r) == {EventOf(d, p) : p \in {q \in DOMAIN r : d[q].pending}}

Position(p)  == CHOOSE i \in 1..Len(ConfigOrder) : ConfigOrder[i] = p
First(events) ==
  CHOOSE e \in events : \A f \in events : Position(e.project) <= Position(f.project)

(* A receiver that takes <<project, episode>> as its deduplication key. *)
Receive(e) ==
  LET key == <<e.project, e.episode>> IN
  /\ accepted' = accepted \union {key}
  /\ shown' = IF key \in accepted THEN shown ELSE shown \union {e.project}

-----------------------------------------------------------------------------
(* The steps of a run *)

(* Configuration, environment, options or the credentials of any selected  *)
(* project are refused before any check; the refusal is printed, which may *)
(* fail when the output is JSON.                                           *)
PreflightFails(s) ==
  /\ pc[s] = "idle" /\ ~steady
  /\ \E code \in {2, 3} : End(s, code)
  /\ UNCHANGED <<disk, remote, world>>

(* The scheduler starts a run and RunProjects returns a result for every   *)
(* selected project.                                                       *)
Start(s) ==
  /\ Goto(s, "idle", "history")
  /\ Times \ TimesInUse # {}
  /\ \E selected \in Selections : \E r \in [selected -> Status] :
       /\ \A p \in selected :
            Opens(disk[p], r[p]) => disk[p].episode < MaxOutages
       /\ results' = [results EXCEPT ![s] = r]
  /\ at' = [at EXCEPT ![s] = FreshTime]
  /\ exit' = [exit EXCEPT ![s] = NoExit]
  /\ UNCHANGED <<disk, snap, queue, remote, world>>

RecordHistory(s) ==
  /\ Goto(s, "history", "metrics")
  /\ UNCHANGED <<disk, exit, local, remote, world>>

WriteMetrics(s) ==
  /\ Goto(s, "metrics", "read")
  /\ UNCHANGED <<disk, exit, local, remote, world>>

ReadState(s) ==
  /\ Goto(s, "read", "advance")
  /\ snap' = [snap EXCEPT ![s] = disk]
  /\ UNCHANGED <<disk, exit, results, at, queue, remote, world>>

(* The document just written is not looked at again. *)
Forget(s) == snap' = [snap EXCEPT ![s] = EmptyDocument]

(* The rest of Advance: decide on the snapshot and replace the file. *)
NextDocumentReplaced(s) ==
  [p \in Projects |->
    IF p \in DOMAIN results[s]
      THEN Observed(snap[s][p], results[s][p], at[s], Threshold) ELSE ZeroState]
NextDocument(s) == Advanced(snap[s], at[s], results[s], Threshold)

AdvanceFails(s) ==
  EpisodesExhausted(snap[s], results[s]) \/ ~ValidDocument(NextDocument(s))

WriteStateUnchecked(s) ==
  /\ Goto(s, "advance", "deliver")
  /\ ~AdvanceFails(s)
  /\ disk' \in {disk, NextDocument(s)}
  /\ queue' = [queue EXCEPT ![s] = EventsOf(NextDocument(s), results[s])]
  /\ Forget(s)
  /\ UNCHANGED <<exit, results, at, remote, world>>
WriteState(s) ==
  /\ Goto(s, "advance", "deliver")
  /\ ~AdvanceFails(s)
  /\ disk' = NextDocument(s)
  /\ queue' = [queue EXCEPT ![s] = EventsOf(NextDocument(s), results[s])]
  /\ shown' = shown \ {p \in DOMAIN results[s] : results[s][p] = Healthy}
  /\ Forget(s)
  /\ UNCHANGED <<exit, results, at, accepted, world>>

RefuseState(s) ==
  /\ pc[s] = "advance" /\ AdvanceFails(s)
  /\ End(s, 3)
  /\ UNCHANGED <<disk, remote, world>>

(* The receiver answers 2xx and the answer arrives. *)
Deliver(s) ==
  /\ Goto(s, "deliver", "ackRead")
  /\ queue[s] # {}
  /\ Receive(First(queue[s]))
  /\ UNCHANGED <<disk, exit, local, world>>

(* Another status, a transport error or a timeout, the last two perhaps    *)
(* after the receiver took the event.  The run ends at the first failure.  *)
DeliveryFailureSkipped(s) ==
  /\ pc[s] = "deliver" /\ queue[s] # {}
  /\ queue' = [queue EXCEPT ![s] = @ \ {First(@)}]
  /\ UNCHANGED <<disk, pc, exit, results, at, snap, remote, world>>
DeliveryFailureMarked(s) ==
  /\ Goto(s, "deliver", "ackRead")
  /\ queue[s] # {}
  /\ UNCHANGED <<disk, exit, local, remote, world>>
DeliveryFails(s) ==
  /\ pc[s] = "deliver" /\ queue[s] # {}
  /\ End(s, 3)
  /\ Receive(First(queue[s])) \/ UNCHANGED remote
  /\ UNCHANGED <<disk, world>>

(* MarkDelivered reads the file again ... *)
ReadForAck(s) ==
  /\ Goto(s, "ackRead", "ack")
  /\ snap' = [snap EXCEPT ![s] = disk]
  /\ UNCHANGED <<disk, exit, results, at, queue, remote, world>>

(* ... and replaces it when the entry still is the one delivered. *)
Ack(s) ==
  LET e == First(queue[s]) IN
  /\ Goto(s, "ack", "deliver")
  /\ Matches(snap[s], e)
  /\ disk' = Acknowledged(snap[s], e.project)
  /\ queue' = [queue EXCEPT ![s] = @ \ {First(@)}]
  /\ Forget(s)
  /\ UNCHANGED <<exit, results, at, remote, world>>

AckStale(s) ==
  /\ pc[s] = "ack" /\ ~Matches(snap[s], First(queue[s]))
  /\ End(s, 3)
  /\ UNCHANGED <<disk, remote, world>>

AllDelivered(s) ==
  /\ Goto(s, "deliver", "output")
  /\ queue[s] = {}
  /\ UNCHANGED <<disk, exit, local, remote, world>>

Output(s) ==
  /\ pc[s] = "output"
  /\ End(s, ExitCode(results[s]))
  /\ UNCHANGED <<disk, remote, world>>

(* A file operation or the output fails: every one of them returns an      *)
(* internal_error and leaves the file as it was.                           *)
StepFails(s) ==
  /\ ~steady
  /\ pc[s] \notin {"idle", "deliver"}
  /\ End(s, 3)
  /\ UNCHANGED <<disk, remote, world>>

(* The process is killed: no exit code. *)
Crash(s) ==
  /\ ~steady
  /\ pc[s] # "idle"
  /\ End(s, NoExit)
  /\ UNCHANGED <<disk, remote, world>>

-----------------------------------------------------------------------------
(* The environment *)

(* The file is gone: deleted with every writer stopped, as the             *)
(* documentation of renamed projects says, or evicted from the cache that  *)
(* carries it from one GitHub run to the next.                             *)
LoseState ==
  /\ losses < MaxLosses
  /\ \A s \in Slots : pc[s] = "idle"
  /\ disk # EmptyDocument
  /\ disk' = EmptyDocument
  /\ losses' = losses + 1
  /\ UNCHANGED <<pc, exit, local, remote, steady>>

Settle == ~steady /\ steady' = TRUE /\ UNCHANGED <<disk, pc, exit, local, remote, losses>>

Step(s) ==
  \/ Start(s) \/ RecordHistory(s) \/ WriteMetrics(s)
  \/ ReadState(s) \/ WriteState(s) \/ RefuseState(s)
  \/ Deliver(s) \/ DeliveryFails(s)
  \/ ReadForAck(s) \/ Ack(s) \/ AckStale(s)
  \/ AllDelivered(s) \/ Output(s)

Fault(s) == PreflightFails(s) \/ StepFails(s) \/ Crash(s)

Next == (\E s \in Slots : Step(s) \/ Fault(s)) \/ LoseState \/ Settle

Spec == Init /\ [][Next]_vars

(* The scheduler keeps starting runs of all projects, whatever runs with   *)
(* --project come between, and a live process keeps going; a receiver      *)
(* offered an alert of a project again and again takes it.                 *)
StartAll(s) == Start(s) /\ DOMAIN results'[s] = Projects
DeliverTo(s, p) == Deliver(s) /\ First(queue[s]).project = p

Fairness ==
  \A s \in Slots :
    /\ WF_vars(Step(s)) /\ SF_vars(StartAll(s))
    /\ \A p \in Projects : SF_vars(DeliverTo(s, p))

FairSpec == Spec /\ Fairness

-----------------------------------------------------------------------------
(* Properties *)

TypeOK ==
  /\ disk \in Document
  /\ pc \in [Slots -> Labels]
  /\ \A s \in Slots :
       /\ results[s] \in Results \union {NoResults}
       /\ at[s] \in Times \union {NoTime}
       /\ snap[s] \in Document
       /\ queue[s] \subseteq Event
       /\ exit[s] \in {NoExit, 0, 1, 2, 3}
  /\ accepted \subseteq Projects \X (1..MaxEpisode)
  /\ shown \subseteq Projects
  /\ steady \in BOOLEAN /\ losses \in 0..MaxLosses

(* No silent loss, whatever overlaps: an outage is only recorded as        *)
(* notified when the receiver accepted an event with its very episode, in  *)
(* the file and in every copy a run is about to write back.                *)
NotifiedWasAccepted ==
  \A d \in {disk} \union {snap[s] : s \in Slots} : \A p \in Projects :
    d[p].notified => <<p, d[p].episode>> \in accepted

(* No outage slips past the threshold: a project whose recorded streak     *)
(* reached it is owed an alert or has had it, through failed deliveries,   *)
(* crashes, refused writes and lost updates.                               *)
ThresholdIsOwed ==
  \A p \in Projects :
    disk[p].failures >= Threshold => disk[p].pending \/ disk[p].notified

(* One writer: state is persisted before it is sent.  Every event a run    *)
(* has still to deliver or to mark is on disk, pending, field by field, so *)
(* a crash at any point leaves it to a later run and no acknowledgement    *)
(* finds its event stale.                                                  *)
QueuedIsPending ==
  \A s \in Slots : \A e \in queue[s] : Matches(disk, e)

(* One writer: exit codes 0 and 1 mean the run was recorded as reported    *)
(* and owes no alert to any project it checked; 0 that all are healthy.    *)
ExitCodeIsTruthful ==
  \A s \in Slots : pc[s] = "idle" /\ exit[s] \in {0, 1} =>
    \A p \in DOMAIN results[s] :
      /\ disk[p].last = results[s][p] /\ ~disk[p].pending
      /\ exit[s] = 0 => disk[p].last = Healthy

(* One writer: the read and the write of Advance and of MarkDelivered act  *)
(* as one step, so the file under run commands is the atomic object of     *)
(* NotificationState.                                                      *)
AtomicState == FileSpec

(* The receiver's deduplication key is good: an outage recorded as         *)
(* notified has been shown by a receiver that drops repeated keys, not     *)
(* taken for a repetition of an earlier one.                               *)
NotifiedWasShown == \A p \in Projects : disk[p].notified => p \in shown

(* Once faults stop, a project that is observed failing for ever is        *)
(* eventually told about and stays so.                                     *)
EventuallyTold ==
  \A p \in Projects :
    <>[](steady /\ disk[p].last \in FailStatus) => <>[](disk[p].notified)

=============================================================================
