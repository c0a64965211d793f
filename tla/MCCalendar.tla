------------------------------ MODULE MCCalendar ------------------------------
(* A calendar of two minutes, hours, days and months, and three weekdays.  *)
EXTENDS Calendar

MCRange ==
  [minute |-> 0..1, hour |-> 0..1, day |-> 1..2, month |-> 1..2, weekday |-> 0..2]

Single(v)         == [low |-> v, high |-> v, step |-> 1, any |-> FALSE]
Interval(a, b)    == [low |-> a, high |-> b, step |-> 1, any |-> FALSE]
Star(a, b)        == [low |-> a, high |-> b, step |-> 1, any |-> TRUE]
Stepped(a, b, n)  == [low |-> a, high |-> b, step |-> n, any |-> TRUE]

(* Per field "*", a single value, "*/2", the full range spelled out, and a *)
(* star in a list.                                                         *)
MCExpressions ==
  {[minute |-> mi, hour |-> h, day |-> d, month |-> mo, weekday |-> w] :
     mi \in {{Star(0, 1)}, {Single(1)}, {Interval(0, 1)}},
     h  \in {{Star(0, 1)}, {Stepped(0, 1, 2)}},
     d  \in {{Star(1, 2)}, {Stepped(1, 2, 2)}, {Interval(1, 2)}},
     mo \in {{Star(1, 2)}, {Single(2)}, {Single(1), Star(1, 2)}},
     w  \in {{Star(0, 2)}, {Single(1)}, {Interval(0, 2)}, {Stepped(0, 2, 2)}}}

=============================================================================
