\* Two goroutines on one key; one secret is too short to be tainted.
SPECIFICATION FairSpec
CONSTANTS
    Proc = {p1, p2}
    Key = {k1}
    Secret = {s1, s2, s3}
    Short = {s3}
    Blank = Blank
    NoSecret = NoSecret
    TTL = 2
INVARIANTS StaleOnlyByRace
PROPERTIES ExposedOnlyWhilePending StaleExpires
