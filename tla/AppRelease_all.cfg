SPECIFICATION FairSpec
CONSTANTS
    a = a
    other = other
    NoApp = NoApp
    Apps = {a}
    Others = {other}
    Limits <- Odd
    Tier = "dev"
    Replicas <- Two
    Allocatable <- Node
    MaxReleases = 2
    MaxUid = 2
    MaxEdits = 1
    MaxFaults = 1
CHECK_DEADLOCK FALSE
INVARIANTS TypeOK Overcommitted NothingForgotten
PROPERTIES NeverBack Settles
