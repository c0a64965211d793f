------------------------------- MODULE History -------------------------------
(***************************************************************************)
(* The local status history (internal/history/history.go): Append reads    *)
(* the file, adds the run, keeps the newest up to a limit and up to a size *)
(* and replaces the file through WriteAtomic.  Two schedulers may use one  *)
(* file, every run may ask for another limit, processes are killed, the    *)
(* power fails and the wall clock steps back.                              *)
(*                                                                         *)
(* A stored run is its number, its encoded size, and whether its finish is *)
(* before its start.                                                       *)
(***************************************************************************)
EXTENDS AtomicFile, SequencesExt

CONSTANTS
  Limits,        \* values given as the limit, legal or not
  MaxRuns,       \* 1000
  Sizes,         \* encoded sizes of one run
  MaxFileBytes,  \* 1 MiB
  MaxStarted,    \* bound: runs started
  MaxPowerLosses \* bound

ASSUME HistoryAssumption ==
  /\ Limits \subseteq Int /\ MaxRuns \in Nat
  /\ Sizes \subseteq Nat \ {0} /\ MaxFileBytes \in Nat
  /\ MaxStarted \in Nat /\ MaxPowerLosses \in Nat
  /\ Cardinality(Paths) = 1

VARIABLES
  stage,     \* per process: "idle", "read", "append", "writing"
  run,       \* per process, the run it appends
  limit,     \* per process
  snapshot,  \* per process, the runs it read
  started,   \* runs started so far
  log,       \* the runs ever put into the file, in order
  raced,     \* some process replaced runs it had not read
  losses     \* power losses so far

process == <<stage, run, limit, snapshot, started>>
vars == <<fileVars, process, log, raced, losses>>

Path == CHOOSE path \in Paths : TRUE

Run == [id : 1..MaxStarted, size : Sizes, backward : BOOLEAN]
NoRun == [id |-> 0, size |-> 0, backward |-> FALSE]

Bytes(runs) == FoldSeq(LAMBDA r, n : r.size + n, 0, runs)

Init ==
  /\ FilesInit({})
  /\ stage = [w \in Writers |-> "idle"] /\ run = [w \in Writers |-> NoRun]
  /\ limit = [w \in Writers |-> 0] /\ snapshot = [w \in Writers |-> NoData]
  /\ started = 0 /\ log = << >> /\ raced = FALSE /\ losses = 0

-----------------------------------------------------------------------------
(* What a document may hold *)

(* validateHistoryContent: as many runs as the version allows, none that   *)
(* ends before it starts.                                                  *)
Valid(runs) == Len(runs) <= MaxRuns /\ \A i \in 1..Len(runs) : ~runs[i].backward

(* The newest n runs. *)
Newest(runs, n) == SubSeq(runs, Len(runs) - n + 1, Len(runs))

Smaller(a, b) == IF a < b THEN a ELSE b

(* As many of the newest runs as the limit and the size admit; none when   *)
(* the last alone is too large.                                            *)
Fits(runs, n) == n = 0 \/ Bytes(Newest(runs, n)) <= MaxFileBytes

BoundedOldest(runs, lim) == SubSeq(runs, 1, Smaller(lim, Len(runs)))
Bounded(runs, lim) ==
  LET most == Smaller(lim, Len(runs)) IN
  Newest(runs, CHOOSE n \in 0..most :
                 Fits(runs, n) /\ \A m \in (n + 1)..most : ~Fits(runs, m))

(* read refuses whatever is not a complete, valid document of legal size. *)
Readable(node) ==
  \/ node = Absent
  \/ /\ node.kind = "file" /\ ~node.torn
     /\ Bytes(node.data) <= MaxFileBytes /\ Valid(node.data)

-----------------------------------------------------------------------------
(* Append *)

End(w) ==
  /\ stage' = [stage EXCEPT ![w] = "idle"] /\ run' = [run EXCEPT ![w] = NoRun]
  /\ limit' = [limit EXCEPT ![w] = 0] /\ snapshot' = [snapshot EXCEPT ![w] = NoData]

LegalLimitOffByOne(lim) == lim \in 1..(MaxRuns + 1)
LegalLimit(lim) == lim \in 1..MaxRuns

(* A command has its results and calls Append, which first checks the      *)
(* limit.                                                                  *)
Start(w) ==
  /\ stage[w] = "idle" /\ started < MaxStarted
  /\ started' = started + 1
  /\ \/ /\ \E lim \in Limits : LegalLimit(lim) /\ limit' = [limit EXCEPT ![w] = lim]
        /\ \E size \in Sizes, backward \in BOOLEAN : run' = [run EXCEPT
             ![w] = [id |-> started + 1, size |-> size, backward |-> backward]]
        /\ stage' = [stage EXCEPT ![w] = "read"]
        /\ UNCHANGED snapshot
     \/ (\E lim \in Limits : ~LegalLimit(lim)) /\ End(w)
  /\ UNCHANGED <<fileVars, log, raced, losses>>

Read(w) ==
  /\ stage[w] = "read"
  /\ \/ /\ Readable(files[Path])
        /\ snapshot' = [snapshot EXCEPT ![w] = files[Path].data]
        /\ stage' = [stage EXCEPT ![w] = "append"]
        /\ UNCHANGED <<run, limit>>
     \/ End(w)
  /\ UNCHANGED <<fileVars, started, log, raced, losses>>

EncodedFirst(w) == Bounded(<<run[w]>> \o snapshot[w], limit[w])
Encoded(w) == Bounded(Append(snapshot[w], run[w]), limit[w])

(* The encoded document is validated as a reader would before it is        *)
(* written; a run that cannot be stored is an error.                       *)
EncodeUnchecked(w) ==
  /\ stage[w] = "append"
  /\ Encoded(w) # << >>
  /\ WriteAtomic(w, Path, Encoded(w), TRUE)
  /\ stage' = [stage EXCEPT ![w] = "writing"]
  /\ UNCHANGED <<run, limit, snapshot, started, log, raced, losses>>
Encode(w) ==
  /\ stage[w] = "append"
  /\ \/ /\ Encoded(w) # << >> /\ Valid(Encoded(w))
        /\ WriteAtomic(w, Path, Encoded(w), TRUE)
        /\ stage' = [stage EXCEPT ![w] = "writing"]
        /\ UNCHANGED <<run, limit, snapshot>>
     \/ /\ Encoded(w) = << >> \/ ~Valid(Encoded(w))
        /\ End(w) /\ UNCHANGED fileVars
  /\ UNCHANGED <<started, log, raced, losses>>

Writing(w) ==
  /\ stage[w] = "writing"
  /\ Progress(w)
  /\ IF call[w].step = "commit" /\ call'[w].outcome = "written"
       THEN /\ log' = Append(log, run[w])
            /\ raced' = (raced \/ files[Path].data # snapshot[w])
       ELSE UNCHANGED <<log, raced>>
  /\ UNCHANGED <<process, losses>>

(* Append returns, with or without an error. *)
Finish(w) ==
  /\ stage[w] = "writing" /\ call[w].step = "done"
  /\ call' = [call EXCEPT ![w] = NoCall]
  /\ End(w)
  /\ UNCHANGED <<storage, temp, started, log, raced, losses>>

Kill(w) ==
  /\ stage[w] # "idle"
  /\ Killed(w) /\ End(w)
  /\ UNCHANGED <<started, log, raced, losses>>

LosePower ==
  /\ losses < MaxPowerLosses /\ losses' = losses + 1
  /\ PowerLoss
  /\ stage' = [w \in Writers |-> "idle"] /\ run' = [w \in Writers |-> NoRun]
  /\ limit' = [w \in Writers |-> 0] /\ snapshot' = [w \in Writers |-> NoData]
  /\ UNCHANGED <<started, log, raced>>

Sync == WriteBack(Path) /\ UNCHANGED <<process, log, raced, losses>>

Over ==
  /\ started = MaxStarted /\ \A w \in Writers : stage[w] = "idle"
  /\ UNCHANGED vars

Next ==
  \/ \E w \in Writers :
       \/ Start(w) \/ Read(w) \/ Encode(w) \/ Writing(w) \/ Finish(w) \/ Kill(w)
  \/ LosePower \/ Sync \/ Over

Spec == Init /\ [][Next]_vars

-----------------------------------------------------------------------------
(* Properties *)

TypeOK ==
  /\ FilesTypeOK
  /\ stage \in [Writers -> {"idle", "read", "append", "writing"}]
  /\ run \in [Writers -> Run \union {NoRun}]
  /\ limit \in [Writers -> 0..MaxRuns]
  /\ \A w \in Writers : \A i \in 1..Len(snapshot[w]) : snapshot[w][i] \in Run
  /\ started \in 0..MaxStarted /\ Len(log) <= started
  /\ raced \in BOOLEAN /\ losses \in 0..MaxPowerLosses

(* No self-lockout: whatever runs, kills, power losses and clock steps     *)
(* came before, the next Append can read the file.                         *)
AlwaysReadable == Readable(files[Path]) /\ Readable(durable[Path])

(* Retention drops from the old end only: but for a race of two writers or *)
(* a power loss, the file holds the newest runs of all ever stored, with   *)
(* no gap, and the last one always.                                        *)
KeepsTheNewest ==
  ~raced /\ losses = 0 =>
    /\ files[Path].data = Newest(log, Len(files[Path].data))
    /\ log # << >> => files[Path].data # << >>

(* Not even a race invents, repeats or reorders runs: the file is always a *)
(* subsequence of what was stored.                                         *)
NeverInvents ==
  \A i, j \in 1..Len(files[Path].data) :
    i <= j => \E k, l \in 1..Len(log) :
      /\ i < j => k < l
      /\ log[k] = files[Path].data[i] /\ log[l] = files[Path].data[j]

=============================================================================
