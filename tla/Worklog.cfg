\* Any three of: calls, reports in pages of one, changes made in Tempo, crashes.
SPECIFICATION Spec
CONSTANTS
    Request = {1, 2}
    Id = {1, 2, 3, 4, 5}
    Key = {"k1", "k2"}
    Scoped = {"k1"}
    Activity = {"review", "support"}
    Text = {"a", "b"}
    Me = "me"
    Other = "other"
    MaxEvent = 3
    PageSize = 1
    MaxIssues = 2
    Nil = Nil
    Torn = Torn
    Day <- MCDay
    Time <- MCTime
    Want <- MCWant
    Query <- MCQuery
    InitTempo <- MCInitTempo
    InitActs <- MCInitActs
    HolidayYears <- MCHolidayYears
INVARIANTS   ReportComplete
PROPERTIES  WritesOwnScoped MapChangesByOne AllAnswered
CHECK_DEADLOCK FALSE
