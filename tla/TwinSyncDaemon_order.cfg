SPECIFICATION Safety
CONSTANTS
    Producers = {p1, p2}
    p1 = p1
    p2 = p2
    Stamps = {1, 2}
    Keys = {}
    MaxQueue = 2
    Policy = "block"
    Coalesce = TRUE
    MaxSubmissions = 2
    Allowed = {}
PROPERTIES
    SyncsToTheNewest
