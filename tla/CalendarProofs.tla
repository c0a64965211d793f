---------------------------- MODULE CalendarProofs ----------------------------
(***************************************************************************)
(* Proofs about Calendar: whatever the ranges of the fields and whatever   *)
(* the expressions, what the generators accept fires exactly when the cron *)
(* expression is due, and once.                                            *)
(***************************************************************************)
EXTENDS Calendar, FiniteSetTheorems, TLAPS

(* What is generated, if anything, is what the generators make of the      *)
(* configured expression, which they can represent.                        *)
CalendarInv ==
  LET s == Parsed(expression) IN
  /\ expression \in Expressions /\ now \in Instant
  /\ plist # {} => plist = Entries(s) /\ Representable(s)
  /\ timer # {} => timer = {SystemdCalendar(entry) : entry \in Entries(s)} /\ Representable(s)
  /\ trigger # {} => trigger = {CloudflareCron(s)} /\ ~DaysAmbiguous(s)

(* The instant suits every field of the schedule. *)
SuitsAll(e, i) == \A f \in Fields : i[f] \in Parsed(e)[f].bits

-----------------------------------------------------------------------------
(* The parser *)

LEMMA StarIsWhole ==
  ASSUME NEW e \in Expressions, NEW f \in Fields, Parsed(e)[f].star
  PROVE  Parsed(e)[f].bits = ClockRange[f]
<1>1. PICK t \in e[f] : t.any /\ t.step = 1
  BY DEF Parsed
<1>2. \A v \in ClockRange[f] : t.low <= v /\ v <= t.high
  BY <1>1, CalendarAssumption DEF Legal
<1> QED
  BY <1>1, <1>2 DEF Parsed

LEMMA ParsedBits ==
  ASSUME NEW e, NEW f \in Fields
  PROVE  /\ Parsed(e)[f].bits \subseteq ClockRange[f]
         /\ Any \notin ClockRange[f]
<1>1. ClockRange[f] \subseteq Nat
  BY CalendarAssumption
<1> QED
  BY <1>1 DEF Parsed, Any

(* A term selects at least its lower end. *)
LEMMA SelectsSome ==
  ASSUME NEW e \in Expressions, NEW f \in Fields
  PROVE  Parsed(e)[f].bits # {}
<1>1. PICK t \in e[f] : t \in Term(f) /\ Legal(t, f)
  BY CalendarAssumption
<1>2. /\ t.low \in ClockRange[f] /\ t.low \in Nat
      /\ t.step \in Nat \ {0} /\ t.high \in Nat /\ t.low <= t.high
  BY <1>1, CalendarAssumption DEF Term, Legal
<1>3. t.low <= t.low /\ (t.low - t.low) % t.step = 0
  BY <1>2
<1>4. t.low \in Parsed(e)[f].bits
  BY <1>2, <1>3 DEF Parsed
<1> QED
  BY <1>4

LEMMA DueSuitsAll ==
  ASSUME NEW e \in Expressions, NEW i \in Instant, ~DaysAmbiguous(Parsed(e))
  PROVE  Due(e, i) <=> SuitsAll(e, i)
BY DEF Due, SuitsAll, DaysAmbiguous, Fields

(* Under a star any value the clock shows suits. *)
LEMMA StarSuits ==
  ASSUME NEW e \in Expressions, NEW i \in Instant, NEW f \in Fields, Parsed(e)[f].star
  PROVE  i[f] \in Parsed(e)[f].bits
<1>1. i[f] \in ClockRange[f]
  BY DEF Instant, Choices, Fields
<1> QED
  BY <1>1, StarIsWhole

-----------------------------------------------------------------------------
(* The calendar entries *)

LEMMA EntryValues ==
  ASSUME NEW e \in Expressions, NEW entry \in Entries(Parsed(e)), NEW f \in Fields
  PROVE  /\ Parsed(e)[f].star => entry[f] = Any
         /\ ~Parsed(e)[f].star => entry[f] \in Parsed(e)[f].bits /\ entry[f] # Any
<1>1. entry[f] \in Selected(Parsed(e))[f]
  BY DEF Entries, Choices, Fields
<1>2. Selected(Parsed(e))[f] = IF Parsed(e)[f].star THEN {Any} ELSE Parsed(e)[f].bits
  BY DEF Selected
<1> QED
  BY <1>1, <1>2, ParsedBits

(* Each entry agrees with the instant in every field exactly when the      *)
(* entry shows the instant's value wherever it has one.                    *)
LEMMA AgreesSuits ==
  ASSUME NEW e \in Expressions, NEW entry \in Entries(Parsed(e)), NEW i \in Instant,
         Agrees(entry, i)
  PROVE  SuitsAll(e, i)
<1> SUFFICES ASSUME NEW f \in Fields PROVE i[f] \in Parsed(e)[f].bits
  BY DEF SuitsAll
<1>1. CASE Parsed(e)[f].star
  BY <1>1, StarSuits
<1>2. CASE ~Parsed(e)[f].star
  BY <1>2, EntryValues DEF Agrees
<1> QED
  BY <1>1, <1>2

(* The entry an instant belongs to. *)
EntryOf(e, i) ==
  [minute  |-> IF Parsed(e)["minute"].star THEN Any ELSE i["minute"],
   hour    |-> IF Parsed(e)["hour"].star THEN Any ELSE i["hour"],
   day     |-> IF Parsed(e)["day"].star THEN Any ELSE i["day"],
   month   |-> IF Parsed(e)["month"].star THEN Any ELSE i["month"],
   weekday |-> IF Parsed(e)["weekday"].star THEN Any ELSE i["weekday"]]

LEMMA EntryOfAgrees ==
  ASSUME NEW e \in Expressions, NEW i \in Instant, SuitsAll(e, i)
  PROVE  EntryOf(e, i) \in Entries(Parsed(e)) /\ Agrees(EntryOf(e, i), i)
<1>1. \A f \in Fields : EntryOf(e, i)[f] = IF Parsed(e)[f].star THEN Any ELSE i[f]
  BY DEF EntryOf, Fields
<1>2. \A f \in Fields : EntryOf(e, i)[f] \in Selected(Parsed(e))[f]
  BY <1>1 DEF Selected, SuitsAll
<1>3. EntryOf(e, i) \in Choices(Selected(Parsed(e)))
  BY <1>2 DEF Choices, EntryOf, Fields
<1> QED
  BY <1>1, <1>3 DEF Entries, Agrees

LEMMA LaunchdExact ==
  ASSUME NEW e \in Expressions, NEW i \in Instant, ~DaysAmbiguous(Parsed(e))
  PROVE  LaunchdFires(Entries(Parsed(e)), i) <=> Due(e, i)
<1>1. LaunchdFires(Entries(Parsed(e)), i) => SuitsAll(e, i)
  BY AgreesSuits DEF LaunchdFires
<1>2. SuitsAll(e, i) => LaunchdFires(Entries(Parsed(e)), i)
  BY EntryOfAgrees DEF LaunchdFires
<1> QED
  BY <1>1, <1>2, DueSuitsAll

LEMMA OneEntry ==
  ASSUME NEW e \in Expressions, NEW i \in Instant,
         NEW a \in Entries(Parsed(e)), NEW b \in Entries(Parsed(e)),
         Agrees(a, i), Agrees(b, i)
  PROVE  a = b
<1>1. \A f \in Fields : a[f] = b[f]
  <2> SUFFICES ASSUME NEW f \in Fields PROVE a[f] = b[f]
    OBVIOUS
  <2>1. CASE Parsed(e)[f].star
    BY <2>1, EntryValues
  <2>2. CASE ~Parsed(e)[f].star
    BY <2>2, EntryValues DEF Agrees
  <2> QED
    BY <2>1, <2>2
<1> QED
  BY <1>1 DEF Entries, Choices, Fields

-----------------------------------------------------------------------------
(* The bound on the entries *)

LEMMA FiniteSelection ==
  ASSUME NEW e, NEW f \in Fields
  PROVE  IsFiniteSet(Selected(Parsed(e))[f])
<1>1. IsFiniteSet(Parsed(e)[f].bits)
  BY ParsedBits, CalendarAssumption, FS_Subset
<1>2. IsFiniteSet({Any})
  BY FS_Singleton
<1> QED
  BY <1>1, <1>2 DEF Selected

(* The entries are the product of five finite selections. *)
LEMMA FiniteEntries ==
  ASSUME NEW e
  PROVE  IsFiniteSet(Entries(Parsed(e)))
<1> DEFINE v == Selected(Parsed(e))
           P == (v["minute"] \X v["hour"]) \X ((v["day"] \X v["month"]) \X v["weekday"])
           E == Entries(Parsed(e))
           h == [x \in P |-> [minute |-> x[1][1], hour |-> x[1][2], day |-> x[2][1][1],
                              month |-> x[2][1][2], weekday |-> x[2][2]]]
<1>1. IsFiniteSet(P)
  <2>1. \A f \in Fields : IsFiniteSet(v[f])
    BY FiniteSelection
  <2> HIDE DEF v
  <2>2. IsFiniteSet(v["minute"] \X v["hour"]) /\ IsFiniteSet(v["day"] \X v["month"])
    BY <2>1, FS_Product DEF Fields
  <2>3. IsFiniteSet((v["day"] \X v["month"]) \X v["weekday"])
    BY <2>1, <2>2, FS_Product DEF Fields
  <2> QED
    BY <2>2, <2>3, FS_Product
<1>2. E = Choices(v)
  BY DEF Entries
<1> HIDE DEF v, E
<1>3. h \in [P -> E]
  BY <1>2 DEF Choices
<1>4. \A a \in E : \E x \in P : h[x] = a
  <2> SUFFICES ASSUME NEW a \in E PROVE \E x \in P : h[x] = a
    OBVIOUS
  <2> DEFINE x == <<<<a.minute, a.hour>>, <<<<a.day, a.month>>, a.weekday>>>>
  <2>1. a \in [minute : v["minute"], hour : v["hour"], day : v["day"],
               month : v["month"], weekday : v["weekday"]]
    BY <1>2 DEF Choices
  <2>2. x \in P
    BY <2>1
  <2>3. h[x] = a
    BY <2>1, <2>2
  <2> QED
    BY <2>2, <2>3
<1>5. h \in Surjection(P, E)
  BY <1>3, <1>4 DEF Surjection
<1> QED
  BY <1>1, <1>5, FS_Surjection DEF E

(* Rendering entries makes no more of them. *)
LEMMA Renderings ==
  ASSUME NEW S, IsFiniteSet(S)
  PROVE  Cardinality({SystemdCalendar(entry) : entry \in S}) <= Cardinality(S)
<1> DEFINE T == {SystemdCalendar(entry) : entry \in S}
           h == [entry \in S |-> SystemdCalendar(entry)]
<1>1. h \in Surjection(S, T)
  BY DEF Surjection
<1> QED
  BY <1>1, FS_Surjection

-----------------------------------------------------------------------------
(* The renderings with names for weekdays *)

LEMMA NamesInvert ==
  \A d \in 0..6 : DayNamed[Names[d + 1]] = d
<1> SUFFICES ASSUME NEW d \in 0..6 PROVE DayNamed[Names[d + 1]] = d
  OBVIOUS
<1>1. d = 0 \/ d = 1 \/ d = 2 \/ d = 3 \/ d = 4 \/ d = 5 \/ d = 6
  OBVIOUS
<1> QED
  BY <1>1 DEF DayNamed, Names

LEMMA WeekdayBits ==
  ASSUME NEW e
  PROVE  Parsed(e)["weekday"].bits \subseteq 0..6
BY ParsedBits, CalendarAssumption DEF Fields

LEMMA SystemdLine ==
  ASSUME NEW e \in Expressions, NEW entry \in Entries(Parsed(e)), NEW i \in Instant
  PROVE  SystemdFires({SystemdCalendar(entry)}, i) <=> Agrees(entry, i)
<1>1. \A f \in Fields \ {"weekday"} : SystemdCalendar(entry).date[f] = entry[f]
  BY DEF SystemdCalendar
<1>2. CASE entry["weekday"] = Any
  <2>1. SystemdCalendar(entry).weekdays = {}
    BY <1>2 DEF SystemdCalendar
  <2> QED
    BY <1>1, <1>2, <2>1 DEF SystemdFires, Agrees, Fields
<1>3. CASE entry["weekday"] # Any
  <2>1. entry["weekday"] \in 0..6
    BY <1>3, EntryValues, WeekdayBits DEF Fields
  <2>2. SystemdCalendar(entry).weekdays = {Names[entry["weekday"] + 1]}
    BY <1>3 DEF SystemdCalendar
  <2>3. DayNamed[Names[entry["weekday"] + 1]] = entry["weekday"]
    BY <2>1, NamesInvert
  <2> QED
    BY <1>1, <1>3, <2>2, <2>3 DEF SystemdFires, Agrees, Fields
<1> QED
  BY <1>2, <1>3

LEMMA SystemdExact ==
  ASSUME NEW e \in Expressions, NEW i \in Instant, ~DaysAmbiguous(Parsed(e))
  PROVE  SystemdFires({SystemdCalendar(entry) : entry \in Entries(Parsed(e))}, i)
         <=> Due(e, i)
<1>1. SystemdFires({SystemdCalendar(entry) : entry \in Entries(Parsed(e))}, i)
        <=> \E entry \in Entries(Parsed(e)) : SystemdFires({SystemdCalendar(entry)}, i)
  BY DEF SystemdFires
<1>2. @ <=> LaunchdFires(Entries(Parsed(e)), i)
  BY SystemdLine DEF LaunchdFires
<1> QED
  BY <1>1, <1>2, LaunchdExact

LEMMA CloudflareExact ==
  ASSUME NEW e \in Expressions, NEW i \in Instant, ~DaysAmbiguous(Parsed(e))
  PROVE  CloudflareFires({CloudflareCron(Parsed(e))}, i) <=> Due(e, i)
<1> DEFINE c == CloudflareCron(Parsed(e))
<1>1. \A f \in Fields \ {"weekday"} :
        (c.date[f] = {Any} \/ i[f] \in c.date[f]) <=> i[f] \in Parsed(e)[f].bits
  <2> SUFFICES ASSUME NEW f \in Fields \ {"weekday"}
               PROVE  (c.date[f] = {Any} \/ i[f] \in c.date[f]) <=> i[f] \in Parsed(e)[f].bits
    OBVIOUS
  <2>1. c.date[f] = IF Parsed(e)[f].star THEN {Any} ELSE Parsed(e)[f].bits
    BY DEF CloudflareCron, NumericField
  <2>2. CASE Parsed(e)[f].star
    BY <2>1, <2>2, StarSuits
  <2>3. CASE ~Parsed(e)[f].star
    BY <2>1, <2>3, ParsedBits
  <2> QED
    BY <2>2, <2>3
<1>2. c.weekdays = IF Parsed(e)["weekday"].star THEN {}
                   ELSE {Names[d + 1] : d \in Parsed(e)["weekday"].bits}
  BY DEF CloudflareCron, WeekdayField
<1>3. (c.weekdays = {} \/ \E name \in c.weekdays : DayNamed[name] = i["weekday"])
        <=> i["weekday"] \in Parsed(e)["weekday"].bits
  <2>1. CASE Parsed(e)["weekday"].star
    BY <1>2, <2>1, StarSuits DEF Fields
  <2>2. CASE ~Parsed(e)["weekday"].star
    <3>1. c.weekdays = {Names[d + 1] : d \in Parsed(e)["weekday"].bits} /\ c.weekdays # {}
      BY <1>2, <2>2, SelectsSome DEF Fields
    <3>2. \A d \in Parsed(e)["weekday"].bits : DayNamed[Names[d + 1]] = d
      BY WeekdayBits, NamesInvert
    <3> QED
      BY <3>1, <3>2
  <2> QED
    BY <2>1, <2>2
<1>4. CloudflareFires({c}, i) <=>
        /\ \A f \in Fields \ {"weekday"} : c.date[f] = {Any} \/ i[f] \in c.date[f]
        /\ c.weekdays = {} \/ \E name \in c.weekdays : DayNamed[name] = i["weekday"]
  BY DEF CloudflareFires
<1>5. CloudflareFires({c}, i) <=> SuitsAll(e, i)
  <2> HIDE DEF c
  <2> QED
    BY <1>1, <1>3, <1>4 DEF SuitsAll, Fields
<1> QED
  BY <1>5, DueSuitsAll

-----------------------------------------------------------------------------
(* The specification *)

LEMMA CalendarInductive == Spec => []CalendarInv
<1>1. Init => CalendarInv
  BY DEF Init, CalendarInv
<1>2. CalendarInv /\ [Next]_vars => CalendarInv'
  <2> SUFFICES ASSUME CalendarInv, [Next]_vars PROVE CalendarInv'
    OBVIOUS
  <2> USE DEF CalendarInv
  <2>1. CASE InstallLaunchd
    BY <2>1 DEF InstallLaunchd
  <2>2. CASE InstallSystemd
    BY <2>2 DEF InstallSystemd
  <2>3. CASE InstallCloudflare
    BY <2>3 DEF InstallCloudflare
  <2>4. CASE Tick
    BY <2>4 DEF Tick
  <2>5. CASE UNCHANGED vars
    BY <2>5 DEF vars
  <2> QED
    BY <2>1, <2>2, <2>3, <2>4, <2>5 DEF Next
<1> QED
  BY <1>1, <1>2, PTL DEF Spec

(* Every schedule the launchd, systemd and Cloudflare generators accept    *)
(* starts the program at exactly the instants of the cron expression, for  *)
(* every calendar and every expression the parser accepts.                 *)
THEOREM SchedulesAreExact == Spec => []FiresExactly
<1>1. CalendarInv => FiresExactly
  BY LaunchdExact, SystemdExact, CloudflareExact
     DEF CalendarInv, FiresExactly, Representable
<1> QED
  BY <1>1, CalendarInductive, PTL

(* The calendar entries never overlap, so a scheduler that counts matching *)
(* entries starts one run per instant.                                     *)
THEOREM EntriesAreDisjoint == Spec => []StartsOnce
<1>1. CalendarInv => StartsOnce
  BY OneEntry DEF CalendarInv, StartsOnce
<1> QED
  BY <1>1, CalendarInductive, PTL

(* What is generated is an entry for launchd or a line for systemd at most *)
(* MaxEntries times, never cut short to fit, and one trigger; and every    *)
(* value of an entry is one the clock shows, or left out.                  *)
THEOREM CalendarTypeCorrect == Spec => []TypeOK
<1>1. CalendarInv => TypeOK
  <2> SUFFICES ASSUME CalendarInv PROVE TypeOK
    OBVIOUS
  <2> DEFINE s == Parsed(expression)
  <2>1. expression \in Expressions /\ now \in Instant
    BY DEF CalendarInv
  <2>2. Cardinality({}) = 0 /\ MaxEntries \in Nat
    BY FS_EmptySet, CalendarAssumption
  <2>3. IsFiniteSet(Entries(s))
    BY FiniteEntries
  <2>4. Cardinality(plist) <= MaxEntries
    BY <2>2 DEF CalendarInv, Representable
  <2>5. Cardinality(timer) <= MaxEntries
    <3>1. CASE timer = {}
      BY <2>2, <3>1
    <3>2. CASE timer # {}
      <4>1. /\ timer = {SystemdCalendar(entry) : entry \in Entries(s)}
            /\ Cardinality(Entries(s)) \in 1..MaxEntries
        BY <3>2 DEF CalendarInv, Representable
      <4>2. IsFiniteSet(timer)
        <5> DEFINE h == [entry \in Entries(s) |-> SystemdCalendar(entry)]
        <5>1. h \in Surjection(Entries(s), timer)
          BY <4>1 DEF Surjection
        <5> QED
          BY <5>1, <2>3, FS_Surjection
      <4>3. Cardinality(timer) \in Nat
        BY <4>2, FS_CardinalityType
      <4>4. Cardinality(timer) <= Cardinality(Entries(s))
        BY <2>3, <4>1, Renderings
      <4> QED
        BY <2>2, <4>1, <4>3, <4>4
    <3> QED
      BY <3>1, <3>2
  <2>6. Cardinality(trigger) <= 1
    <3>1. trigger = {} \/ trigger = {CloudflareCron(s)}
      BY DEF CalendarInv
    <3> HIDE DEF s
    <3>2. Cardinality({CloudflareCron(s)}) = 1
      BY FS_Singleton
    <3> QED
      BY <3>1, <3>2, <2>2
  <2>7. \A entry \in plist : \A f \in Fields : entry[f] \in ClockRange[f] \union {Any}
    BY <2>1, EntryValues, ParsedBits DEF CalendarInv
  <2> QED
    BY <2>1, <2>4, <2>5, <2>6, <2>7 DEF TypeOK
<1> QED
  BY <1>1, CalendarInductive, PTL

=============================================================================
