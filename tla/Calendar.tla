------------------------------- MODULE Calendar -------------------------------
(***************************************************************************)
(* The schedule of the configuration, a five-field cron expression, as the *)
(* generators of internal/scheduler hand it to schedulers with a calendar  *)
(* language of their own: launchd's dictionaries, systemd's OnCalendar     *)
(* lines (both from launchdCalendarEntries) and Cloudflare's cron dialect. *)
(* The clock then jumps from instant to instant and each scheduler starts  *)
(* the program when what was generated matches.                            *)
(*                                                                         *)
(* A field of an expression is a set of terms, a schedule maps each field  *)
(* to what the parser makes of it: the values selected and the star bit,   *)
(* and an instant maps each field to the value the clock shows.            *)
(***************************************************************************)
EXTENDS Integers, FiniteSets

Fields == {"minute", "hour", "day", "month", "weekday"}

CONSTANTS
  ClockRange,   \* the values a clock shows in each field
  Expressions,  \* cron expressions of configurations that were accepted
  MaxEntries    \* maxLaunchdCalendarEntries, 512

(* low-high/step; "any" says that low-high was written "*" or "?". *)
Term(f) == [low : ClockRange[f], high : ClockRange[f], step : Nat \ {0}, any : BOOLEAN]
Legal(t, f) ==
  t.low <= t.high /\ (t.any => \A v \in ClockRange[f] : t.low <= v /\ v <= t.high)
ASSUME CalendarAssumption ==
  /\ ClockRange \in [Fields -> SUBSET Nat]
  /\ \A f \in Fields : IsFiniteSet(ClockRange[f])
  /\ ClockRange["weekday"] \subseteq 0..6
  /\ MaxEntries \in Nat
  /\ \A e \in Expressions : \A f \in Fields :
       e[f] # {} /\ \A t \in e[f] : t \in Term(f) /\ Legal(t, f)

VARIABLES
  expression,  \* scheduler.cron
  plist,       \* launchd: the calendar dictionaries, {} when none were generated
  timer,       \* systemd: the OnCalendar lines
  trigger,     \* Cloudflare: the cron trigger, or none
  now          \* the scheduler's clock

vars == <<expression, plist, timer, trigger, now>>

(* One value for each field. *)
Choices(values) ==
  [minute : values["minute"], hour : values["hour"], day : values["day"],
   month : values["month"], weekday : values["weekday"]]

Instant == Choices(ClockRange)

-----------------------------------------------------------------------------
(* cron.ParseStandard and what a cron expression means *)

(* A star with a step loses the star bit; a range that spells out every    *)
(* value never has it.                                                     *)
Parsed(e) ==
  [f \in Fields |->
    [bits |-> {v \in ClockRange[f] : \E t \in e[f] :
                 t.low <= v /\ v <= t.high /\ (t.step = 1 \/ (v - t.low) % t.step = 0)},
     star |-> \E t \in e[f] : t.any /\ t.step = 1]]

(* POSIX: a day is due when it suits every field, but for the two day      *)
(* fields, of which one is enough when both are restricted.                *)
Due(e, i) ==
  LET s == Parsed(e)
      suits(f) == i[f] \in s[f].bits
  IN /\ suits("minute") /\ suits("hour") /\ suits("month")
     /\ IF s["day"].star \/ s["weekday"].star
          THEN suits("day") /\ suits("weekday")
          ELSE suits("day") \/ suits("weekday")

-----------------------------------------------------------------------------
(* launchdCalendarEntries *)

Any == -1

(* -1 stands for the whole field and is left out of the dictionary. *)
SelectedAndAny(s) ==
  [f \in Fields |-> IF s[f].star THEN s[f].bits \union {Any} ELSE s[f].bits]
Selected(s) == [f \in Fields |-> IF s[f].star THEN {Any} ELSE s[f].bits]

(* Both day fields are restricted.  What counts is the star, as it does in *)
(* Due: 1-31 selects every day and is a restriction all the same.          *)
DaysAmbiguousByValue(s) ==
  s["day"].bits # ClockRange["day"] /\ s["weekday"].bits # ClockRange["weekday"]
DaysAmbiguous(s) == ~s["day"].star /\ ~s["weekday"].star

(* The product of the selected values.  selectedBits lists each value of a *)
(* field once, in order, so no element of the product is there twice and a *)
(* set shows all there is.                                                 *)
Entries(s) == Choices(Selected(s))

RepresentableAtAnySize(s) == ~DaysAmbiguous(s)
Representable(s) ==
  /\ ~DaysAmbiguous(s)
  /\ Cardinality(Entries(s)) \in 1..MaxEntries

(* A dictionary fires when every key it has agrees with the clock. *)
Agrees(entry, i) == \A f \in Fields : entry[f] = Any \/ entry[f] = i[f]
LaunchdFires(entries, i) == \E entry \in entries : Agrees(entry, i)

-----------------------------------------------------------------------------
(* systemdCalendar and the weekday names *)

Names == <<"SUN", "MON", "TUE", "WED", "THU", "FRI", "SAT">>
DayNamed == [SUN |-> 0, MON |-> 1, TUE |-> 2, WED |-> 3, THU |-> 4, FRI |-> 5, SAT |-> 6]

(* Weekday prefix when there is one, "*" in the place of a field left out. *)
SystemdCalendar(entry) ==
  [date |-> [f \in Fields \ {"weekday"} |-> entry[f]],
   weekdays |-> IF entry["weekday"] = Any THEN {} ELSE {Names[entry["weekday"] + 1]}]

SystemdFires(lines, i) == \E line \in lines :
  /\ \A f \in Fields \ {"weekday"} : line.date[f] = Any \/ line.date[f] = i[f]
  /\ line.weekdays = {} \/ \E name \in line.weekdays : DayNamed[name] = i["weekday"]

-----------------------------------------------------------------------------
(* cloudflareCron: "*" or the list of values, weekdays as names because    *)
(* Cloudflare counts them from 1.                                          *)

NumericField(s, f) == IF s[f].star THEN {Any} ELSE s[f].bits
WeekdayField(s) ==
  IF s["weekday"].star THEN {} ELSE {Names[d + 1] : d \in s["weekday"].bits}

CloudflareCron(s) ==
  [date |-> [f \in Fields \ {"weekday"} |-> NumericField(s, f)],
   weekdays |-> WeekdayField(s)]

CloudflareFires(crons, i) == \E c \in crons :
  /\ \A f \in Fields \ {"weekday"} : c.date[f] = {Any} \/ i[f] \in c.date[f]
  /\ c.weekdays = {} \/ \E name \in c.weekdays : DayNamed[name] = i["weekday"]

-----------------------------------------------------------------------------
Init ==
  /\ expression \in Expressions
  /\ plist = {} /\ timer = {} /\ trigger = {}
  /\ now \in Instant

(* The commands that generate them; an expression that cannot be           *)
(* represented generates nothing.                                          *)
InstallLaunchd ==
  /\ Representable(Parsed(expression))
  /\ plist' = Entries(Parsed(expression))
  /\ UNCHANGED <<expression, timer, trigger, now>>

InstallSystemd ==
  /\ Representable(Parsed(expression))
  /\ timer' = {SystemdCalendar(entry) : entry \in Entries(Parsed(expression))}
  /\ UNCHANGED <<expression, plist, trigger, now>>

InstallCloudflare ==
  /\ ~DaysAmbiguous(Parsed(expression))
  /\ trigger' = {CloudflareCron(Parsed(expression))}
  /\ UNCHANGED <<expression, plist, timer, now>>

Tick == now' \in Instant /\ UNCHANGED <<expression, plist, timer, trigger>>

Next == InstallLaunchd \/ InstallSystemd \/ InstallCloudflare \/ Tick

Spec == Init /\ [][Next]_vars

-----------------------------------------------------------------------------
(* Properties *)

TypeOK ==
  /\ expression \in Expressions /\ now \in Instant
  /\ Cardinality(plist) <= MaxEntries /\ Cardinality(timer) <= MaxEntries
  /\ Cardinality(trigger) <= 1
  /\ \A entry \in plist : \A f \in Fields : entry[f] \in ClockRange[f] \union {Any}

(* What was generated starts the program at exactly the instants of the    *)
(* cron expression, on every scheduler.                                    *)
FiresExactly ==
  /\ plist # {} => (LaunchdFires(plist, now) <=> Due(expression, now))
  /\ timer # {} => (SystemdFires(timer, now) <=> Due(expression, now))
  /\ trigger # {} => (CloudflareFires(trigger, now) <=> Due(expression, now))

(* No instant is named twice, so that a scheduler that starts a run per    *)
(* matching entry starts one, and state files keep their single writer.    *)
StartsOnce == \A a, b \in plist : Agrees(a, now) /\ Agrees(b, now) => a = b

=============================================================================
