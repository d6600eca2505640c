\* Two reloads that overlap, one config without an admin token.
SPECIFICATION FairSpec
CONSTANTS
    Request = {}
    Reload = {l1, l2}
    t1 = t1
    t2 = t2
    w1 = w1
    w2 = w2
    viewer = viewer
    editor = editor
    get = get
    put = put
    old = old
    jira = jira
    slack = slack
    Token <- MCToken
    Workspace <- MCWorkspace
    Role <- MCRole
    Op <- MCOp
    Site <- MCSite
    Config <- LockConfigs
    Registry <- TwoRegistries
    Broken = Broken
    Nil = Nil
PROPERTIES ReloadsConverge
