---------------------------- MODULE GenerateFiles ----------------------------
(***************************************************************************)
(* The commands that write files, by their kind:                           *)
(*   "init"     configuration, migration and workflow                      *)
(*   "install"  systemd's service and timer, or a Worker project           *)
(*   "launchd"  one LaunchAgent                                            *)
(*   "single"   install github, migration --output: one file               *)
(*   "run"      history, metrics and notification state, each once here    *)
(* init and install check all targets before they write the first.  All    *)
(* but init and single make sure that their targets are different files    *)
(* and none is the configuration or the environment file they read.        *)
(*                                                                         *)
(* A target is a name, by its index; the names of a command differ.  Where *)
(* a name leads is another matter: through a linked directory, or where    *)
(* the file system ignores case or the form of letters, two names can lead *)
(* to one path.  A layout says where the names lead and how they spell the *)
(* path once links are resolved: as it is stored ("plain"), in another     *)
(* case ("case"), or in another form of its letters ("form").  It also     *)
(* says which files were there before, and whether the program was built   *)
(* for macOS or Windows, where it folds case when it compares names.       *)
(***************************************************************************)
EXTENDS AtomicFile

CONSTANTS
  Targets,          \* how many files a command writes that writes several
  Protected,        \* the paths of the configuration and the environment file
  Layouts,          \* where the names lead, and how they are spelled
  Casts,            \* which commands run side by side
  MaxInterferences  \* bound: what others do at the target paths

Kinds == {"init", "install", "launchd", "single", "run"}
Spellings == {"plain", "case", "form"}

ASSUME GenerateAssumption ==
  /\ Targets \in Nat \ {0} /\ Protected \subseteq Paths
  /\ Layouts \subseteq [place : [1..Targets -> Paths], spelling : [1..Targets -> Spellings],
                        earlier : SUBSET Paths, foldsCase : BOOLEAN]
  /\ Casts \subseteq [Writers -> Kinds]
  /\ MaxInterferences \in Nat

VARIABLES
  kind,           \* per command, what it is
  layout,
  stage,          \* per command: "idle", "preflight", "next", "writing", "ended", "dead"
  force,          \* per command, --force
  index,          \* per command, the target it is at
  reported,       \* per command, the targets it printed as created; run prints none
  exit,           \* per command, its exit code; 0 also for a run that reports failures
  installed,      \* per command, the targets it put in place
  interferences

setting == <<kind, layout>>
commandVars == <<setting, stage, force, index, reported, exit>>
vars == <<fileVars, commandVars, installed, interferences>>

Files(c)  == IF kind[c] \in {"launchd", "single"} THEN {1} ELSE 1..Targets
Target(c) == layout.place[index[c]]
DataOf(c) == <<c, index[c]>>

Init ==
  /\ kind \in Casts /\ layout \in Layouts
  /\ FilesInit(Protected \union layout.earlier)
  /\ stage = [c \in Writers |-> "idle"]
  /\ force \in {f \in [Writers -> BOOLEAN] : \A c \in Writers : kind[c] = "run" => f[c]}
  /\ index = [c \in Writers |-> 1]
  /\ reported = [c \in Writers |-> {}] /\ installed = [c \in Writers |-> {}]
  /\ exit = [c \in Writers |-> 0]
  /\ interferences = 0

End(c, code) ==
  /\ stage' = [stage EXCEPT ![c] = "ended"]
  /\ exit' = [exit EXCEPT ![c] = code]

(* targetIdentitiesCollide of two names that lead to path p, by their      *)
(* spellings: equal once links are resolved, one file by os.SameFile if    *)
(* there is one, or equal but for case where case is folded.  Two names of *)
(* a file that is not there yet pass when they differ otherwise.  Names    *)
(* that lead apart are refused when they only differ in case; Begin may    *)
(* refuse anything.                                                        *)
Recognised(p, s, t) ==
  \/ s = t
  \/ files[p].kind \in {"file", "directory"}
  \/ layout.foldsCase /\ {s, t} \subseteq {"plain", "case"}

(* The comparisons of a command.  The files of a Worker project are not    *)
(* compared with one another: their names are the generator's, and their   *)
(* directories are created or checked to be no links.                      *)
CollidesByName(c) == FALSE
Collides(c) ==
  /\ kind[c] \notin {"init", "single"}
  /\ \E i \in Files(c) :
       \/ \E j \in Files(c) \ {i} :
            /\ layout.place[i] = layout.place[j]
            /\ Recognised(layout.place[i], layout.spelling[i], layout.spelling[j])
       \/ /\ layout.place[i] \in Protected
          /\ Recognised(layout.place[i], layout.spelling[i], "plain")

(* Everything is rendered, or checked, and the paths are compared; any of  *)
(* it may be refused.                                                      *)
Begin(c) ==
  /\ stage[c] = "idle"
  /\ \/ \E code \in {2, 3} : End(c, code)
     \/ /\ ~Collides(c)
        /\ stage' = [stage EXCEPT ![c] =
             IF kind[c] \in {"init", "install"} THEN "preflight" ELSE "next"]
        /\ UNCHANGED exit
  /\ UNCHANGED <<fileVars, setting, force, index, reported, installed, interferences>>

(* CheckTarget of one target: a collision is an invalid invocation, and a  *)
(* target that cannot be inspected an error.                               *)
PreflightPastEnd(c) ==
  /\ stage[c] = "preflight" /\ ~Refused(files[Target(c)], force[c])
  /\ index' = [index EXCEPT ![c] = @ + 1]
  /\ stage' = [stage EXCEPT ![c] = IF index[c] <= Targets THEN @ ELSE "next"]
  /\ UNCHANGED <<fileVars, setting, force, reported, exit, installed, interferences>>
Preflight(c) ==
  /\ stage[c] = "preflight"
  /\ \/ /\ Refused(files[Target(c)], force[c])
        /\ End(c, 2) /\ UNCHANGED index
     \/ End(c, 3) /\ UNCHANGED index
     \/ /\ ~Refused(files[Target(c)], force[c])
        /\ IF index[c] < Targets
             THEN index' = [index EXCEPT ![c] = @ + 1] /\ UNCHANGED stage
             ELSE /\ index' = [index EXCEPT ![c] = 1]
                  /\ stage' = [stage EXCEPT ![c] = "next"]
        /\ UNCHANGED exit
  /\ UNCHANGED <<fileVars, setting, force, reported, installed, interferences>>

WriteNext(c) ==
  /\ stage[c] = "next"
  /\ WriteAtomic(c, Target(c), DataOf(c), force[c])
  /\ stage' = [stage EXCEPT ![c] = "writing"]
  /\ UNCHANGED <<setting, force, index, reported, exit, installed, interferences>>

Writing(c) ==
  /\ stage[c] = "writing"
  /\ Progress(c)
  /\ installed' = IF call'[c].outcome = "written"
       THEN [installed EXCEPT ![c] = @ \union {index[c]}] ELSE installed
  /\ UNCHANGED <<commandVars, interferences>>

(* "Created", and the target's name; executeChecks prints nothing of the   *)
(* files it keeps.                                                         *)
Prints(c) ==
  reported' = IF kind[c] = "run" THEN reported
              ELSE [reported EXCEPT ![c] = @ \union {index[c]}]

(* What is printed, and the next target; or the error, which run takes for *)
(* an internal one.  After the last one init prints what to do next, and   *)
(* run its results, which may fail.                                        *)
ReportAll(c) ==
  /\ stage[c] = "writing" /\ call[c].step = "done"
  /\ call' = [call EXCEPT ![c] = NoCall]
  /\ reported' = [reported EXCEPT ![c] = Files(c)]
  /\ End(c, 0)
  /\ UNCHANGED <<storage, temp, setting, force, index, installed, interferences>>
Report(c) ==
  /\ stage[c] = "writing" /\ call[c].step = "done"
  /\ call' = [call EXCEPT ![c] = NoCall]
  /\ \/ /\ call[c].outcome = "written"
        /\ Prints(c)
        /\ IF index[c] + 1 \in Files(c)
             THEN /\ index' = [index EXCEPT ![c] = @ + 1]
                  /\ stage' = [stage EXCEPT ![c] = "next"] /\ UNCHANGED exit
             ELSE /\ \E code \in IF kind[c] \in {"init", "run"} THEN {0, 3} ELSE {0} :
                       End(c, code)
                  /\ UNCHANGED index
     \/ /\ call[c].outcome = "refused"
        /\ End(c, IF kind[c] = "run" THEN 3 ELSE 2)
        /\ UNCHANGED <<reported, index>>
     \/ call[c].outcome = "error" /\ End(c, 3) /\ UNCHANGED <<reported, index>>
  /\ UNCHANGED <<storage, temp, setting, force, installed, interferences>>

Kill(c) ==
  /\ stage[c] \in {"preflight", "next", "writing"}
  /\ Killed(c)
  /\ stage' = [stage EXCEPT ![c] = "dead"]
  /\ UNCHANGED <<setting, force, index, reported, exit, installed, interferences>>

LosePower ==
  /\ PowerLoss
  /\ interferences < MaxInterferences /\ interferences' = interferences + 1
  /\ stage' = [c \in Writers |-> IF stage[c] \in {"idle", "ended"} THEN stage[c] ELSE "dead"]
  /\ UNCHANGED <<setting, force, index, reported, exit, installed>>

Meddle ==
  /\ interferences < MaxInterferences /\ interferences' = interferences + 1
  /\ \E p \in Paths : Interfere(p)
  /\ UNCHANGED <<commandVars, installed>>

Sync ==
  /\ \E p \in Paths : WriteBack(p)
  /\ UNCHANGED <<commandVars, installed, interferences>>

Over == (\A c \in Writers : stage[c] \in {"ended", "dead"}) /\ UNCHANGED vars

Next ==
  \/ \E c \in Writers :
       Begin(c) \/ Preflight(c) \/ WriteNext(c) \/ Writing(c) \/ Report(c) \/ Kill(c)
  \/ LosePower \/ Meddle \/ Sync \/ Over

Spec == Init /\ [][Next]_vars

-----------------------------------------------------------------------------
(* Properties *)

TypeOK ==
  /\ FilesTypeOK
  /\ kind \in Casts /\ layout \in Layouts
  /\ stage \in [Writers -> {"idle", "preflight", "next", "writing", "ended", "dead"}]
  /\ force \in [Writers -> BOOLEAN] /\ index \in [Writers -> 1..Targets]
  /\ reported \in [Writers -> SUBSET (1..Targets)]
  /\ installed \in [Writers -> SUBSET (1..Targets)]
  /\ exit \in [Writers -> {0, 2, 3}]
  /\ interferences \in 0..MaxInterferences

(* Without --force nothing that exists is ever replaced, not even what     *)
(* appears between the check and the installation.                         *)
ReplacesOnlyWithForce ==
  [][\A c \in Writers : \A i \in Files(c) :
       (i \in installed'[c] \ installed[c] /\ ~force[c]) => files[layout.place[i]] = Absent]_vars

(* Commands that race for the same targets without --force never leave a   *)
(* mixture: what is there comes from one of them.                          *)
NeverMixed ==
  interferences = 0 /\ (\A c \in Writers : ~force[c]) =>
    \A p, q \in Paths :
      files[p].data # NoData /\ files[q].data # NoData => files[p].data[1] = files[q].data[1]

(* A command that ends, in whatever way, has printed as created exactly    *)
(* the files it put in place, so that recovery is explicit; run, which     *)
(* keeps files of its own, prints none.  One that succeeds has put all of  *)
(* its files in place.                                                     *)
ReportsWhatItInstalled ==
  \A c \in Writers : stage[c] = "ended" =>
    /\ kind[c] # "run" => reported[c] = installed[c]
    /\ exit[c] = 0 => installed[c] = Files(c)

(* Names of two targets that lead to one path where nothing is yet, and    *)
(* that the code takes for different ones: spelled differently, and not    *)
(* only in case where it folds case.                                       *)
FreshAliases(c) ==
  \E i, j \in Files(c) :
    /\ i # j /\ layout.place[i] = layout.place[j]
    /\ layout.place[i] \notin Protected \union layout.earlier
    /\ layout.spelling[i] # layout.spelling[j]
    /\ layout.foldsCase => "form" \in {layout.spelling[i], layout.spelling[j]}

(* A command knows its files apart when it compares its names, and none of *)
(* them are fresh aliases.  init compares the text of its names only, so   *)
(* that init --force may put its second file in the place of its first.    *)
TellsApart(c) == kind[c] \notin {"init", "single"} /\ ~FreshAliases(c)

(* After a command that succeeds, undisturbed, every name leads to the     *)
(* file written for it and what the command read is as it was, wherever    *)
(* links and spellings make the names lead: with --force because it told   *)
(* its files apart, and without because nothing is replaced.               *)
Undisturbed(c) == interferences = 0 /\ \A d \in Writers \ {c} : installed[d] = {}
EachInItsPlace ==
  \A c \in Writers :
    /\ stage[c] = "ended" /\ exit[c] = 0 /\ Undisturbed(c)
    /\ force[c] => TellsApart(c)
    =>
    /\ \A i \in Files(c) : files[layout.place[i]].data = <<c, i>>
    /\ \A p \in Protected : files[p] = Node("file", NoData, TRUE)

=============================================================================
