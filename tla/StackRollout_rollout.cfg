CONSTANTS
    web = web
    api = api
    p1 = p1
    p2 = p2
    db = db
    v0 = v0
    v1 = v1
    v2 = v2
    NoImage = v0
    Images = {v0, v1, v2}
    Backings = {db}
    Services = {web, api}
    Processes = {p1}
    Specs <- Pair
    MaxRevision = 2
    MaxDeletes = 0
    MaxFaults = 1
SPECIFICATION Spec
INVARIANTS TypeOK ReleaseGate BackingGate StatusTrue NothingForgotten
CHECK_DEADLOCK FALSE
