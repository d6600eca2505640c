\* Two goroutines that serve operations and status checks, two refreshes.
SPECIFICATION OAuthSpec
CONSTANTS
    Proc = {p1, p2}
    MaxGrant = 3
    Key <- MCKey
    Secret <- MCSecret
    Short <- MCSecret
    Blank = Blank
    NoSecret = NoSecret
    TTL = 1
SYMMETRY Symmetry
INVARIANTS LiveRefreshAccountedFor
PROPERTIES AccessNeverRollsBack DeadTokenOnlyByRace
