\* Any two requests, at once or one after the other.
SPECIFICATION Spec
CONSTANTS
    Handler = {h1, h2}
    Role = {"dev"}
    Agent = {"bot", "new"}
    AdminLabel = "admin"
    MaxRequest = 2
    Nil = Nil
    SiteOf <- MCSiteOf
    FirstConfig <- MCFirstConfig
    FirstOps = {"s1.a"}
    FirstKeys <- MCFirstKeys
    FirstMade <- MCFirstMade
    Edit <- MCEdit
    Order <- MCOrder
SYMMETRY MCSymmetry
INVARIANTS  GrantsBacked  
PROPERTIES PublishedIsSource
CHECK_DEADLOCK FALSE
