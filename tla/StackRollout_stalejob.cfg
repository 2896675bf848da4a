CONSTANTS
    web = web
    api = api
    p1 = p1
    p2 = p2
    db = db
    v0 = v0
    v1 = v1
    v2 = v2
    NoImage = v0
    Images = {v0, v1, v2}
    Backings = {db}
    Services = {web}
    Processes = {p1}
    Specs <- Migrating
    MaxRevision = 2
    MaxDeletes = 1
    MaxFaults = 0
SPECIFICATION Spec
INVARIANTS ReleaseGate
CHECK_DEADLOCK FALSE
