----------------------------- MODULE MCWorklog -----------------------------
(***************************************************************************)
(* WorklogReport for TLC.  The dates are Easter Monday of 2025, a holiday, *)
(* and the day after it, in a week that is short for Easter; the times are *)
(* 4 hours, and 9 hours and 100 seconds, more than a day's norm.           *)
(***************************************************************************)
EXTENDS WorklogReport

EasterMonday == Date(2025, 4, 21)
Tuesday      == Date(2025, 4, 22)
MCDay  == {EasterMonday, Tuesday}
MCTime == {14400, 32500}

Entry1 == [issue |-> "k1", author |-> Me, day |-> Tuesday, time |-> 14400, bill |-> 14400, text |-> "a"]
Entry2 == [issue |-> "k2", author |-> Me, day |-> EasterMonday, time |-> 14400, bill |-> 0, text |-> "a"]
Entry3 == [issue |-> "k1", author |-> Other, day |-> Tuesday, time |-> 14400, bill |-> 14400, text |-> "b"]

MCInitTempo == [i \in Id |-> CASE i = 1 -> Entry2 [] i = 2 -> Entry3 [] i = 3 -> Entry1 [] OTHER -> Nil]
MCInitActs  == [a \in Activity |-> IF a = "support" THEN "k2" ELSE Nil]

Asks(op) == [NoWant EXCEPT !.op = op]

MCWant ==
    { [Asks("add") EXCEPT !.key = "k1", !.time = 32500, !.day = Tuesday, !.text = "b"],
      [Asks("add") EXCEPT !.act = "support", !.time = 14400, !.day = Tuesday, !.text = "a"],
      [Asks("add") EXCEPT !.act = "review", !.time = 14400, !.day = Tuesday, !.text = "a"],
      [Asks("add") EXCEPT !.key = "k1", !.act = "review", !.time = 14400, !.day = Tuesday, !.text = "a"],
      [Asks("update") EXCEPT !.key = "k1", !.id = 3, !.time = 32500],
      [Asks("update") EXCEPT !.key = "k1", !.id = 3],
      [Asks("update") EXCEPT !.key = "k1", !.id = 2, !.text = "a"],
      [Asks("delete") EXCEPT !.key = "k1", !.id = 3],
      [Asks("delete") EXCEPT !.key = "k1"],
      [Asks("activity_set") EXCEPT !.act = "review", !.key = "k1"],
      [Asks("activity_remove") EXCEPT !.act = "review"] }

MCQuery == { [kind |-> "report", period |-> "day", asOf |-> Tuesday],
             [kind |-> "issue", key |-> "k1"] }

MCHolidayYears == 1940..2090
=============================================================================
