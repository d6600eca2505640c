\* Every request once under each config, and a few records of the audit log.
SPECIFICATION MCSpec
CONSTANTS
    Request <- MCRequest
    Later <- MCLater
    Ops <- MCOps
    Config <- MCConfig
    Body <- MCBody
    Mail <- MCMail
    SlackFile <- MCSlackFile
    PgTables <- Names
    MaxRows = 2
    FieldName = {"a", "b"}
    Scalar = {"x", "y", "z", "q"}
    MaxNesting = 3
    Original <- MCOriginal
    FieldList <- MCFieldList
    JqlQuery <- MCJqlQuery
    Statement <- MCStatement
    Entry <- MCEntry
    Reference <- MCReference
    MaxWalkDepth = 3
    Catalog = {"pg_x"}
    Cap = 1
    MaxRecord = 1
    LastDay = 1
    MaxLog = 3
    MaxRestart = 1
    Writer = {f1, f2}
    Sent <- MCSent
    MaxItems = 2
    Nil = Nil
INVARIANTS FilesFilled     TodoKept JqlClosed  ShapeExact
 
\* The bounds are used up in the end.
CHECK_DEADLOCK FALSE
