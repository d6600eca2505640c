---------------------------- MODULE WorkCalendar ----------------------------
(***************************************************************************)
(* The Polish working-day calendar of internal/workcal/pl.go, and the      *)
(* working-hours norm that jira_worklog.go computes from it.               *)
(*                                                                         *)
(* A date is the number of days since 1 March of the year 0; the names of  *)
(* holidays are left out.  Hours are in hundredths, the precision of       *)
(* hoursOf and roundHours, so that no value is rounded twice.              *)
(***************************************************************************)
EXTENDS Integers, FiniteSets, Sequences, SequencesExt

-----------------------------------------------------------------------------
(* Go's time package: the proleptic Gregorian calendar.                    *)

\* A year begins in March here, which puts the leap day at its end.
MarchYear(y, m) == IF m <= 2 THEN y - 1 ELSE y

Date(y, m, d) ==
    LET yy == MarchYear(y, m)
    IN  365 * yy + (yy \div 4) - (yy \div 100) + (yy \div 400)
          + ((153 * ((m + 9) % 12) + 2) \div 5) + d - 1

\* The year of a date: the last one that has begun.
Year(n) ==
    LET guess == (n * 400) \div 146097
    IN  CHOOSE y \in (guess - 1)..(guess + 2) : Date(y, 1, 1) <= n /\ n < Date(y + 1, 1, 1)

Month(n) ==
    CHOOSE m \in 1..12 :
        /\ Date(Year(n), m, 1) <= n
        /\ m < 12 => n < Date(Year(n), m + 1, 1)

\* 0 is Sunday.
Weekday(n) == (n + 3) % 7

Saturday == 6
Sunday   == 0

-----------------------------------------------------------------------------

\* Mutant: the algorithm without its last correction, which few years need.
EasterUncorrected(year) ==
    LET a == year % 19
        b == year \div 100
        c == year % 100
        g == (b - ((b + 8) \div 25) + 1) \div 3
        h == (19 * a + b - (b \div 4) - g + 15) % 30
        l == (32 + 2 * (b % 4) + 2 * (c \div 4) - h - (c % 4)) % 7
        n == h + l + 114
    IN  Date(year, n \div 31, (n % 31) + 1)

Easter(year) ==
    LET a == year % 19
        b == year \div 100
        c == year % 100
        g == (b - ((b + 8) \div 25) + 1) \div 3
        h == (19 * a + b - (b \div 4) - g + 15) % 30
        l == (32 + 2 * (b % 4) + 2 * (c \div 4) - h - (c % 4)) % 7
        m == (a + 11 * h + 22 * l) \div 451
        n == h + l - 7 * m + 114
    IN  Date(year, n \div 31, (n % 31) + 1)

\* The public holidays of a year, as the list is written down.
PolishHolidays(year) ==
    LET e == Easter(year) IN
    << Date(year, 1, 1), Date(year, 1, 6), e, e + 1,
       Date(year, 5, 1), Date(year, 5, 3), e + 49, e + 60,
       Date(year, 8, 15), Date(year, 11, 1), Date(year, 11, 11) >>
    \o (IF year >= 2025 THEN << Date(year, 12, 24) >> ELSE << >>)
    \o << Date(year, 12, 25), Date(year, 12, 26) >>

IsHoliday(n) == n \in ToSet(PolishHolidays(Year(n)))

IsWorkingDay(n) == Weekday(n) \notin {Saturday, Sunday} /\ ~IsHoliday(n)

WorkingDays(from, to) == Cardinality({n \in from..to : IsWorkingDay(n)})

HolidaysBetween(from, to) ==
    SelectSeq(FlattenSeq([i \in 1..(Year(to) - Year(from) + 1) |->
                              PolishHolidays(Year(from) + i - 1)]),
              LAMBDA n : n \in from..to)

-----------------------------------------------------------------------------
(* periodRange and norm of jira_worklog.go.                                *)

PeriodRange(period, n) ==
    CASE period = "week"  -> LET from == n - ((Weekday(n) + 6) % 7) IN [from |-> from, to |-> from + 6]
      [] period = "month" -> [from |-> Date(Year(n), Month(n), 1),
                              to   |-> Date(Year(n) + (Month(n) \div 12), (Month(n) % 12) + 1, 1) - 1]
      [] OTHER            -> [from |-> n, to |-> n]

HoursPerDay == 800

\* hoursOf: seconds to hundredths of an hour, halves up.
HoursOf(seconds) == (seconds + 18) \div 36

AtLeastZero(n) == IF n > 0 THEN n ELSE 0

Norm(range, asOf, seconds) ==
    LET full   == WorkingDays(range.from, range.to) * HoursPerDay
        end    == IF asOf < range.to THEN asOf ELSE range.to
        toDate == IF asOf >= range.from THEN WorkingDays(range.from, end) * HoursPerDay ELSE 0
        logged == HoursOf(seconds)
    IN  [range    |-> range,
         norm     |-> full,
         toDate   |-> toDate,
         logged   |-> logged,
         left     |-> AtLeastZero(full - logged),
         overtime |-> AtLeastZero(logged - full),
         balance  |-> logged - toDate,
         holidays |-> HolidaysBetween(range.from, range.to)]

-----------------------------------------------------------------------------
(* What the calendar should be: Easter as the computus defines it, by the  *)
(* golden number, the epact and the first Sunday after the full moon.      *)

PaschalFullMoon(year) ==
    LET golden  == (year % 19) + 1
        century == (year \div 100) + 1
        solar   == (3 * century) \div 4 - 12
        lunar   == (8 * century + 5) \div 25 - 5
        epact0  == (11 * golden + 20 + lunar - solar) % 30
        epact   == IF epact0 = 24 \/ (epact0 = 25 /\ golden > 11) THEN epact0 + 1 ELSE epact0
        march   == 44 - epact
    IN  Date(year, 3, 1) + (IF march < 21 THEN march + 30 ELSE march) - 1

EasterSunday(year) ==
    LET moon == PaschalFullMoon(year)
    IN  CHOOSE n \in (moon + 1)..(moon + 7) : Weekday(n) = Sunday

\* The holidays of a year are listed in date order, none twice, all in that
\* year, and Easter, its Monday, Pentecost and Corpus Christi fall where the
\* first Sunday after the paschal full moon puts them.
ListedRight(year) ==
    LET hs == PolishHolidays(year)
        e  == EasterSunday(year)
    IN  /\ \A i \in 1..(Len(hs) - 1) : hs[i] < hs[i + 1]
        /\ \A n \in ToSet(hs) : Year(n) = year
        /\ {e, e + 1, e + 49, e + 60} \subseteq ToSet(hs)
=============================================================================
