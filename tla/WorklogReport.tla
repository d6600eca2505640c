--------------------------- MODULE WorklogReport ---------------------------
(***************************************************************************)
(* The jira-worklog connector's reports, internal/server/jira_worklog.go,  *)
(* beside the writes of module Worklog: report lists the caller's worklogs *)
(* of a day, week or month against the norm, and issueTime everybody's on  *)
(* one issue.                                                              *)
(*                                                                         *)
(* A listing is read page by page at an offset; between two pages Tempo    *)
(* goes on.  Tempo lists worklogs by their number, a new one last.         *)
(* Looking up the issues of the worklogs in Jira does not depend on the    *)
(* order it is done in and is one step.                                    *)
(***************************************************************************)
EXTENDS Worklog, WorkCalendar, Folds

CONSTANTS
    Query,      \* bound: what reports are asked for
    PageSize,   \* worklogTempoPage
    MaxIssues,  \* worklogMaxIssues
    HolidayYears    \* bound: the years a report may be about

QueryType == [kind : {"report"}, period : {"day", "week", "month"}, asOf : Day]
                 \cup [kind : {"issue"}, key : Key]

ASSUME ReportAssumption ==
    /\ Day \subseteq Nat
    /\ IsFiniteSet(Id) /\ IsFiniteSet(Day) /\ IsFiniteSet(Key)
    /\ Query \subseteq QueryType
    /\ PageSize \in Nat \ {0}
    /\ MaxIssues \in Nat
    /\ HolidayYears \subseteq 1583..2999
    /\ \A d \in Day : Year(d) \in HolidayYears

VARIABLES
    report,     \* the report being made
    first,      \* history: the worklogs when its first page was read
    touched,    \* history: worklogs that were changed before its last page
    moved       \* history: whether one of them has "left" or "joined" what is read

vars == <<worklogVars, report, first, touched, moved>>

IdleReport == [pc |-> "idle", query |-> Nil, span |-> Nil, read |-> << >>, answer |-> Nil]

\* A worklog with its number, as a page has it.
Listed == [id : Id, entry : Entry]

ReportTypeOK ==
    /\ WorklogTypeOK
    /\ DOMAIN report = DOMAIN IdleReport
    /\ report.pc \in {"idle", "list", "search", "ok", "failed"}
    /\ report.pc # "idle" => report.query \in Query
    /\ report.read \in Seq(Listed)
    /\ first \in [Id -> Entry \cup {Nil}]
    /\ touched \subseteq Id
    /\ moved \subseteq {"left", "joined"}

Init ==
    /\ WorklogInit
    /\ report = IdleReport
    /\ first = tempo
    /\ touched = {} /\ moved = {}

-----------------------------------------------------------------------------

\* The dates that are asked of Tempo: the period, and the week and the month
\* that are reported with it.
Span(q) ==
    LET rs == {PeriodRange(p, q.asOf) : p \in {q.period, "week", "month"}}
    IN  [from |-> Min({s.from : s \in rs}), to |-> Max({s.to : s \in rs})]

InRange(d, range) == range.from <= d /\ d <= range.to

\* Tempo's listing of an account's worklogs or of an issue's.
Lists(e) ==
    LET q == report.query IN
    /\ e # Nil
    /\ IF q.kind = "issue" THEN e.issue = q.key ELSE e.author = Me /\ InRange(e.day, report.span)

\* The n-th smallest of a set of numbers.
Nth(S, n) == CHOOSE i \in S : Cardinality({j \in S : j <= i}) = n

ListedIds == {i \in Id : Lists(tempo[i])}

Listing ==
    LET id(n) == Nth(ListedIds, n)
    IN  [n \in 1..Cardinality(ListedIds) |-> [id |-> id(n), entry |-> tempo[id(n)]]]

\* issueTime is refused unless the issue is in scope.
Begin(q) ==
    /\ Event
    /\ q.kind = "issue" => q.key \in Scoped
    /\ report' = [IdleReport EXCEPT !.pc = "list", !.query = q,
                                     !.span = IF q.kind = "issue" THEN Nil ELSE Span(q)]
    /\ first' = tempo
    /\ touched' = {} /\ moved' = {}
    /\ UNCHANGED <<outside, call, files>>

\* Mutant: every page begins one worklog too far.
PageOffByOne ==
    LET all == Listing
        offset == Len(report.read) + 1
        page == SubSeq(all, offset + 1, Min({offset + PageSize, Len(all)}))
    IN
    /\ report.pc = "list"
    /\ report' = [report EXCEPT !.read = @ \o page,
                                !.pc = IF offset + PageSize < Len(all) THEN "list" ELSE "search"]
    /\ first' = IF report.read = << >> THEN tempo ELSE first
    /\ UNCHANGED <<worklogVars, touched, moved>>

\* tempoWorklogs: the page at the offset, which ends the reading when it is
\* empty or there is no next one.
Page ==
    LET all == Listing
        offset == Len(report.read)
        page == SubSeq(all, offset + 1, Min({offset + PageSize, Len(all)}))
    IN
    /\ report.pc = "list"
    /\ report' = [report EXCEPT !.read = @ \o page,
                                !.pc = IF offset + PageSize < Len(all) THEN "list" ELSE "search"]
    /\ first' = IF report.read = << >> THEN tempo ELSE first
    /\ UNCHANGED <<worklogVars, touched, moved>>

Seconds(es) == FoldFunction(+, 0, [n \in DOMAIN es |-> es[n].entry.time])

\* What stands at some places of a listing, in its order.
Select(es, at) == [n \in 1..Cardinality(at) |-> es[Nth(at, n)]]

\* scopedIssues: the worklogs whose issue is in the workspace's projects.
InScope(es) == Select(es, {n \in DOMAIN es : es[n].entry.issue \in Scoped})

\* What report sums: the days of the period, its issues, and the norms of the
\* period, the week and the month.
Sums(q, es) ==
    LET of(range)   == Select(es, {n \in DOMAIN es : InRange(es[n].entry.day, range)})
        norm(p)     == Norm(PeriodRange(p, q.asOf), q.asOf, Seconds(of(PeriodRange(p, q.asOf))))
        inPeriod    == of(PeriodRange(q.period, q.asOf))
    IN  [entries |-> es,
         byDay   |-> [d \in Day |-> Seconds(Select(inPeriod, {n \in DOMAIN inPeriod : inPeriod[n].entry.day = d}))],
         byIssue |-> [k \in Key |-> Seconds(Select(inPeriod, {n \in DOMAIN inPeriod : inPeriod[n].entry.issue = k}))],
         period  |-> norm(q.period),
         week    |-> norm("week"),
         month   |-> norm("month")]

\* What issueTime sums.
IssueSums(es) ==
    LET by(a) == HoursOf(Seconds(Select(es, {n \in DOMAIN es : es[n].entry.author = a})))
    IN  [entries  |-> es,
         logged   |-> HoursOf(Seconds(es)),
         mine     |-> by(Me),
         byAuthor |-> [a \in Account |-> by(a)]]

Issues(es) == {es[n].entry.issue : n \in DOMAIN es}

Search ==
    /\ report.pc = "search"
    /\ LET q == report.query IN
       report' =
           IF q.kind = "issue" THEN [report EXCEPT !.pc = "ok", !.answer = IssueSums(report.read)]
           ELSE IF Cardinality(Issues(report.read)) > MaxIssues THEN [report EXCEPT !.pc = "failed"]
           ELSE [report EXCEPT !.pc = "ok", !.answer = Sums(q, InScope(report.read))]
    /\ UNCHANGED <<worklogVars, first, touched, moved>>

\* One of the calls fails.
ReportFails ==
    /\ report.pc \in {"list", "search"}
    /\ report' = [report EXCEPT !.pc = "failed"]
    /\ UNCHANGED <<worklogVars, first, touched, moved>>

\* Between the first and the last page.
Reading == report.pc = "list" /\ report.read # << >>

\* The worklog's place is before one that has been read.
Passed(i) == \E n \in DOMAIN report.read : i <= report.read[n].id

\* Everything else goes on.  It is marked when a worklog leaves the part of the
\* listing that has been read, and when one that was there already joins it.
Meanwhile ==
    /\ WorklogNext
    /\ touched' = IF Reading THEN touched \cup {i \in Id : tempo'[i] # tempo[i]} ELSE touched
    /\ LET left   == \E i \in Id : Passed(i) /\ Lists(tempo[i]) /\ ~Lists(tempo'[i])
           joined == \E i \in Id : Passed(i) /\ tempo[i] # Nil /\ ~Lists(tempo[i]) /\ Lists(tempo'[i])
       IN  moved' = IF ~Reading THEN moved
                    ELSE moved \cup (IF left THEN {"left"} ELSE {}) \cup (IF joined THEN {"joined"} ELSE {})
    /\ UNCHANGED <<report, first>>

ReportNext ==
    \/ report.pc \in {"idle", "ok", "failed"} /\ \E q \in Query : Begin(q)
    \/ Page \/ Search \/ ReportFails

Next == ReportNext \/ Meanwhile

Spec == Init /\ [][Next]_vars /\ WorklogFairness

-----------------------------------------------------------------------------

\* A report has only worklogs that its listing was asked for, the caller's in
\* its dates and in scope, or those of its issue.  However many pages it takes,
\* and whatever is added meanwhile, it has every one that nobody touched between
\* the first and the last page, as it is, and none twice.  Only a worklog that
\* leaves the part already read moves the others up, and hides one; and only one
\* that joins it, moved there by a change of its date or issue, moves them down,
\* and shows one twice.
ReportComplete ==
    report.pc = "ok" =>
        LET es == report.answer.entries IN
        /\ \A n \in DOMAIN es : Lists(es[n].entry) /\ es[n].entry.issue \in Scoped
        /\ "left" \notin moved => \A i \in Id \ touched :
              Lists(first[i]) /\ first[i].issue \in Scoped
                 => \E n \in DOMAIN es : es[n] = [id |-> i, entry |-> first[i]]
        /\ "joined" \notin moved => \A m, n \in DOMAIN es : es[m].id = es[n].id => m = n

CalendarRight == \A y \in HolidayYears : ListedRight(y)

\* The days from Monday to Friday that are no holidays; Easter and its Monday are
\* where the computus puts them.
Feasts(y) == ToSet(PolishHolidays(y)) \cup {EasterSunday(y), EasterSunday(y) + 1}

Weekdays(range) == {d \in range.from..range.to : Weekday(d) \in 1..5 /\ d \notin Feasts(Year(d))}

NormRight(n, asOf) ==
    /\ n.norm + n.overtime = n.logged + n.left
    /\ n.left = 0 \/ n.overtime = 0
    /\ n.norm = 800 * Cardinality(Weekdays(n.range))
    /\ InRange(asOf, n.range)
    /\ n.toDate = 800 * Cardinality({d \in Weekdays(n.range) : d <= asOf})

\* What a report says of the hours agrees with itself and with the calendar:
\* days and issues have the same sum, what is left and overtime are the two
\* sides of the difference to the norm, never both, and the norm is that of the
\* days from Monday to Friday that are no holidays.  These are, in every year, in
\* those too that the algorithm corrects, the ones that the computus gives.
SumsAgree ==
    [][report.pc = "search" /\ report.query.kind = "report" /\ report'.pc = "ok" =>
        LET a == report'.answer IN
        /\ FoldFunction(+, 0, a.byDay) = FoldFunction(+, 0, a.byIssue)
        /\ HoursOf(FoldFunction(+, 0, a.byDay)) = a.period.logged
        /\ \A n \in {a.period, a.week, a.month} : NormRight(n, report.query.asOf)
        /\ a.week.range.to = a.week.range.from + 6 /\ Weekday(a.week.range.from) = 1
        /\ CalendarRight]_vars

-----------------------------------------------------------------------------
(* What makes ReportComplete inductive.  The listing that is read has as   *)
(* many worklogs up to the last one read as were read, so that the next    *)
(* page begins right after it.                                             *)

PassedIds == {i \in ListedIds : Passed(i)}

Upto(i) == {j \in ListedIds : j <= i}

Has(i) == \E n \in DOMAIN report.read : report.read[n] = [id |-> i, entry |-> first[i]]

\* Between two pages.
PlaceKept ==
    report.pc = "list" =>
        /\ \A n \in DOMAIN report.read : report.read[n].id \in used
        /\ report.read = << >> => touched = {} /\ moved = {}
        /\ Reading => \A i \in Id \ touched : tempo[i] = first[i]
        /\ "joined" \notin moved => Cardinality(PassedIds) <= Len(report.read)
        /\ "left" \notin moved =>
              /\ Len(report.read) <= Cardinality(PassedIds)
              /\ Reading => \A i \in Id \ touched :
                    Lists(first[i]) => Has(i) \/ Len(report.read) < Cardinality(Upto(i))

\* What has been read.
PagesRight ==
    report.pc \in {"list", "search", "ok"} =>
        /\ report.query.kind = "issue" => report.query.key \in Scoped
        /\ \A n \in DOMAIN report.read : Lists(report.read[n].entry)
        /\ "joined" \notin moved =>
              \A m, n \in DOMAIN report.read : m < n => report.read[m].id < report.read[n].id

\* All of it has been read.
AllRead ==
    /\ report.pc \in {"search", "ok"} /\ "left" \notin moved =>
          \A i \in Id \ touched : Lists(first[i]) => Has(i)
    /\ report.pc = "ok" =>
          report.answer.entries = IF report.query.kind = "issue" THEN report.read ELSE InScope(report.read)

ReportInv == ReportTypeOK /\ PlaceKept /\ PagesRight /\ AllRead
=============================================================================
