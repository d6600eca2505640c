\* One workspace, the loop and one handler.
SPECIFICATION FairSpec
CONSTANTS
    Workspace = {w1}
    Handler = {h1}
    Loop = loop
    Nil = Nil
INVARIANTS MarksExact
PROPERTIES ResultsConverge NotifiedConverges
