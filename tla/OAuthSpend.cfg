\* Two handlers that meet the same expired access token.
SPECIFICATION OAuthSpec
CONSTANTS
    Proc = {p1, p2}
    MaxGrant = 3
    Key <- MCKey
    Secret <- MCSecret
    Short <- MCSecret
    Blank = Blank
    NoSecret = NoSecret
    TTL = 1
INVARIANTS RefreshSpentOnce
