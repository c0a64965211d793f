------------------------------ MODULE AtomicFile ------------------------------
(***************************************************************************)
(* fileutil.WriteAtomic as every writer of this program uses it: check the *)
(* target, fill a temporary file beside it, sync it, and rename it over    *)
(* the target or, without force, link it to a name that must be free.      *)
(*                                                                         *)
(* Each system call is a step.  Between two of them another process, or an *)
(* editor, may change the target; the process may be killed; the power may *)
(* fail.  The directory is never synced: until the kernel writes it back,  *)
(* a power loss may bring back the entry it held before.                   *)
(*                                                                         *)
(* The operators here leave the variables of their callers alone;          *)
(* GenerateFiles and History are the callers.                              *)
(***************************************************************************)
EXTENDS Integers, FiniteSets, Sequences

CONSTANTS
  Writers,  \* processes
  Paths     \* files they write

VARIABLES
  files,    \* per path, what the directory shows
  durable,  \* per path, what it shows after a power loss
  temp,     \* per writer, its temporary file
  call      \* per writer, its call of WriteAtomic

storage == <<files, durable>>
fileVars == <<storage, temp, call>>

NoData == << >>
Node(kind, data, synced) ==
  [kind |-> kind, data |-> data, synced |-> synced, torn |-> FALSE]
Absent  == Node("absent", NoData, TRUE)
Foreign == {Absent, Node("symlink", NoData, TRUE), Node("directory", NoData, TRUE),
            Node("file", NoData, TRUE)}

NoCall == [step |-> "idle", path |-> "", data |-> NoData, force |-> FALSE,
           outcome |-> "none"]

Outcomes == {"none", "written", "refused", "error"}
CallSteps == {"idle", "check", "create", "write", "sync", "commit", "remove", "done"}

(* Files at the paths of there, nothing elsewhere. *)
FilesInit(there) ==
  /\ files = [p \in Paths |-> IF p \in there THEN Node("file", NoData, TRUE) ELSE Absent]
  /\ durable = files
  /\ temp = [w \in Writers |-> Absent]
  /\ call = [w \in Writers |-> NoCall]

Step(w, from, to) ==
  call[w].step = from /\ call' = [call EXCEPT ![w].step = to]

Return(w, from, step, outcome) ==
  /\ call[w].step = from
  /\ call' = [call EXCEPT ![w].step = step, ![w].outcome = outcome]

(* What CheckTarget refuses: a symlink or another special file, and        *)
(* without force any file.                                                 *)
Refused(node, force) ==
  node.kind \in {"symlink", "directory"} \/ (node.kind = "file" /\ ~force)

-----------------------------------------------------------------------------
(* WriteAtomic *)

WriteAtomic(w, path, data, force) ==
  /\ call[w].step = "idle"
  /\ call' = [call EXCEPT ![w] = [step |-> "check", path |-> path, data |-> data,
                                  force |-> force, outcome |-> "none"]]
  /\ UNCHANGED <<storage, temp>>

CheckTarget(w) ==
  /\ IF Refused(files[call[w].path], call[w].force)
       THEN Return(w, "check", "done", "refused") ELSE Step(w, "check", "create")
  /\ UNCHANGED <<storage, temp>>

CreateTemp(w) ==
  /\ Step(w, "create", "write")
  /\ temp' = [temp EXCEPT ![w] = Node("file", NoData, FALSE)]
  /\ UNCHANGED storage

WriteTemp(w) ==
  /\ Step(w, "write", "sync")
  /\ temp' = [temp EXCEPT ![w].data = call[w].data]
  /\ UNCHANGED storage

SyncTempNot(w) ==
  /\ Step(w, "sync", "commit")
  /\ UNCHANGED <<storage, temp>>
SyncTemp(w) ==
  /\ Step(w, "sync", "commit")
  /\ temp' = [temp EXCEPT ![w].synced = TRUE]
  /\ UNCHANGED storage

(* rename replaces a file or a symlink, never a directory. *)
Rename(w) ==
  LET path == call[w].path IN
  /\ call[w].force
  /\ IF files[path].kind = "directory"
       THEN Return(w, "commit", "remove", "error") /\ UNCHANGED <<files, temp>>
       ELSE /\ Return(w, "commit", "remove", "written")
            /\ files' = [files EXCEPT ![path] = temp[w]]
            /\ temp' = [temp EXCEPT ![w] = Absent]
  /\ UNCHANGED durable

(* link fails when the name is taken, by whatever it is. *)
LinkOver(w) ==
  LET path == call[w].path IN
  /\ ~call[w].force
  /\ Return(w, "commit", "remove", "written")
  /\ files' = [files EXCEPT ![path] = temp[w]]
  /\ UNCHANGED <<durable, temp>>
Link(w) ==
  LET path == call[w].path IN
  /\ ~call[w].force
  /\ IF files[path] = Absent
       THEN /\ Return(w, "commit", "remove", "written")
            /\ files' = [files EXCEPT ![path] = temp[w]]
       ELSE Return(w, "commit", "remove", "refused") /\ UNCHANGED files
  /\ UNCHANGED <<durable, temp>>

(* Any of the system calls fails. *)
CallFails(w) ==
  /\ \/ call[w].step \in {"check", "create"} /\ Return(w, call[w].step, "done", "error")
     \/ /\ call[w].step \in {"write", "sync", "commit"}
        /\ Return(w, call[w].step, "remove", "error")
  /\ UNCHANGED <<storage, temp>>

(* The deferred removal of the temporary name. *)
RemoveTemp(w) ==
  /\ Step(w, "remove", "done")
  /\ temp' = [temp EXCEPT ![w] = Absent]
  /\ UNCHANGED storage

Progress(w) ==
  \/ CheckTarget(w) \/ CreateTemp(w) \/ WriteTemp(w) \/ SyncTemp(w)
  \/ Rename(w) \/ Link(w) \/ CallFails(w) \/ RemoveTemp(w)

-----------------------------------------------------------------------------
(* The environment.  A dead process leaves its temporary file behind under *)
(* a name nobody uses again.                                               *)

Dies(w) ==
  /\ call' = [call EXCEPT ![w] = NoCall]
  /\ temp' = [temp EXCEPT ![w] = Absent]

Killed(w) == Dies(w) /\ UNCHANGED storage

WriteBack(path) ==
  /\ durable[path] # files[path]
  /\ durable' = [durable EXCEPT ![path] = files[path]]
  /\ UNCHANGED <<files, temp, call>>

(* Every process dies, directory entries are old or new, and a content     *)
(* that was not synced is torn.                                            *)
AfterPowerLoss(node) == [node EXCEPT !.torn = ~node.synced]
PowerLoss ==
  /\ call' = [w \in Writers |-> NoCall]
  /\ temp' = [w \in Writers |-> Absent]
  /\ files' \in {f \in [Paths -> {AfterPowerLoss(files[p]) : p \in Paths}
                          \union {AfterPowerLoss(durable[p]) : p \in Paths}] :
                   \A p \in Paths : \/ f[p] = AfterPowerLoss(files[p])
                                    \/ f[p] = AfterPowerLoss(durable[p])}
  /\ durable' = files'

(* Somebody else puts something at a path, or removes what is there. *)
Interfere(path) ==
  /\ \E node \in Foreign : node # files[path] /\ files' = [files EXCEPT ![path] = node]
  /\ UNCHANGED <<durable, temp, call>>

-----------------------------------------------------------------------------
FilesTypeOK ==
  /\ DOMAIN files = Paths /\ DOMAIN durable = Paths
  /\ \A p \in Paths : files[p].kind \in {"absent", "symlink", "directory", "file"}
  /\ \A w \in Writers :
       /\ call[w].step \in CallSteps /\ call[w].outcome \in Outcomes
       /\ call[w].path \in Paths \union {""}
       /\ temp[w].kind \in {"absent", "file"}

(* A reader, now or after a power loss at any moment, sees a complete      *)
(* file: no content is shown under its name before it is synced.           *)
NeverTorn ==
  \A p \in Paths : /\ ~files[p].torn /\ files[p].synced
                   /\ ~durable[p].torn /\ durable[p].synced

=============================================================================
