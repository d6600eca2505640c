\* Two goroutines, one refresh, every step fair.
SPECIFICATION OAuthFairSpec
CONSTANTS
    Proc = {p1, p2}
    MaxGrant = 2
    Key <- MCKey
    Secret <- MCSecret
    Short <- MCSecret
    Blank = Blank
    NoSecret = NoSecret
    TTL = 1
PROPERTIES RefreshEnds
