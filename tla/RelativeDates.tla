--------------------------- MODULE RelativeDates ---------------------------
(***************************************************************************)
(* resolve_relative_date: the window of time that a phrase such as "last   *)
(* quarter" stands for, given the injected clock.                          *)
(*                                                                         *)
(* An instant counts half days: a midnight is an even number, and every    *)
(* moment within a day is the odd number after it.  A clock reading is a   *)
(* record of its year, month and day; what it says of hours and minutes is *)
(* only that they are not midnight.  A question is its sequence of words.  *)
(***************************************************************************)
EXTENDS Integers, Sequences, SequencesExt, TLC

-----------------------------------------------------------------------------
(* The standard library's datetime: proleptic Gregorian day numbers. *)

IsLeap(year) == year % 4 = 0 /\ (year % 100 # 0 \/ year % 400 = 0)

DaysInMonth(year, month) ==
    CASE month = 2 -> IF IsLeap(year) THEN 29 ELSE 28
      [] month \in {4, 6, 9, 11} -> 30
      [] OTHER -> 31

DaysBeforeYear(year) ==
    365 * (year - 1) + (year - 1) \div 4 - (year - 1) \div 100 + (year - 1) \div 400

DaysBeforeMonth(year, month) ==
    <<0, 31, 59, 90, 120, 151, 181, 212, 243, 273, 304, 334>>[month]
        + (IF month > 2 /\ IsLeap(year) THEN 1 ELSE 0)

Ordinal(year, month, day) == DaysBeforeYear(year) + DaysBeforeMonth(year, month) + day

(* datetime(year, month, day), datetime.weekday() with Monday 0, timedelta *)
Midnight(year, month, day) == 2 * Ordinal(year, month, day)

Weekday(now) == (Ordinal(now.year, now.month, now.day) + 6) % 7

DaysOf(n) == 2 * n

Instant(now) == Midnight(now.year, now.month, now.day) + 1

-----------------------------------------------------------------------------
(* The calendar arithmetic of dates.py *)

Window(start, end) == [start |-> start, end |-> end]

NoWindow == [start |-> 0, end |-> 0]       \* None

MonthStart(now) == Midnight(now.year, now.month, 1)

(* Faulty: the turn of the year is forgotten. *)
AddMonthSameYear(year, month, delta) == <<year, ((month - 1 + delta) % 12) + 1>>

AddMonth(year, month, delta) ==
    LET index == year * 12 + (month - 1) + delta
    IN  <<index \div 12, (index % 12) + 1>>

QuarterOf(month) == (month - 1) \div 3

QuarterStart(now) == Midnight(now.year, QuarterOf(now.month) * 3 + 1, 1)

MonthsBefore(year, month, n) ==
    LET then == AddMonth(year, month, -n) IN Midnight(then[1], then[2], 1)

Today(now) == Midnight(now.year, now.month, now.day)

ThisWeek(now) == Today(now) - DaysOf(Weekday(now))

(* The patterns in the order in which they are tried. *)
Priority ==
    <<"last_n_days", "last_quarter", "this_quarter", "last_month", "this_month",
      "last_year", "this_year", "last_week", "yesterday", "today">>

Phrases == ToSet(Priority)

Spellings ==
    [last_quarter |-> {<<"last", "quarter">>}, this_quarter |-> {<<"this", "quarter">>},
     last_month |-> {<<"last", "month">>}, this_month |-> {<<"this", "month">>},
     last_year |-> {<<"last", "year">>}, last_week |-> {<<"last", "week">>},
     this_year |-> {<<"this", "year">>, <<"year", "to", "date">>, <<"ytd">>},
     yesterday |-> {<<"yesterday">>}, today |-> {<<"today">>}]

(* int() of the numbers the questions mention *)
Number == [n \in {"7", "30", "90"} |->
              CASE n = "7" -> 7 [] n = "30" -> 30 [] n = "90" -> 90]

DayCounts(q) == {n \in DOMAIN Number :
                    \E how \in {"last", "past", "previous"}, days \in {"day", "days"} :
                        <<how, n, days>> \in SubSeqs(q)}

Found(q) == {p \in DOMAIN Spellings : Spellings[p] \cap SubSeqs(q) # {}}
                \cup {p \in {"last_n_days"} : DayCounts(q) # {}}

Meaning(phrase, q, now) ==
    CASE phrase = "last_n_days" ->
            Window(Instant(now) - DaysOf(Number[CHOOSE n \in DayCounts(q) : TRUE]),
                   Instant(now))
      [] phrase = "last_quarter" ->
            Window(MonthsBefore(now.year, QuarterOf(now.month) * 3 + 1, 3),
                   QuarterStart(now))
      [] phrase = "this_quarter" -> Window(QuarterStart(now), Instant(now))
      [] phrase = "last_month" ->
            Window(MonthsBefore(now.year, now.month, 1), MonthStart(now))
      [] phrase = "this_month" -> Window(MonthStart(now), Instant(now))
      [] phrase = "last_year" ->
            Window(Midnight(now.year - 1, 1, 1), Midnight(now.year, 1, 1))
      [] phrase = "this_year" -> Window(Midnight(now.year, 1, 1), Instant(now))
      [] phrase = "last_week" -> Window(ThisWeek(now) - DaysOf(7), ThisWeek(now))
      [] phrase = "yesterday" -> Window(Today(now) - DaysOf(1), Today(now))
      [] phrase = "today" -> Window(Today(now), Today(now) + DaysOf(1))

(* The phrase tried first decides, not the one that comes first in q.      *)
ResolveRelativeDate(q, now) ==
    LET first == SelectInSeq(Priority, LAMBDA p : p \in Found(q))
    IN  IF first = 0 THEN NoWindow ELSE Meaning(Priority[first], q, now)
=============================================================================
