\* One request, one reload, two configs that disagree.
SPECIFICATION Spec
CONSTANTS
    Request = {r1}
    Reload = {l1}
    t1 = t1
    t2 = t2
    w1 = w1
    w2 = w2
    viewer = viewer
    editor = editor
    get = get
    put = put
    old = old
    jira = jira
    slack = slack
    Token <- MCToken
    Workspace <- MCWorkspace
    Role <- MCRole
    Op <- MCOp
    Site <- MCSite
    Config <- RegrantConfigs
    Registry <- OneRegistry
    Broken = Broken
    Nil = Nil
INVARIANTS ListedPieceByPiece
PROPERTIES ImplementsAuthorization
