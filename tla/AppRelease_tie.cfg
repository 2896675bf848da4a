SPECIFICATION Spec
CONSTANTS
    a = a
    other = other
    NoApp = NoApp
    Apps = {a}
    Others = {}
    Limits <- Odd
    Replicas <- Two
    Tier = "dev"
    Allocatable <- Node
    MaxReleases = 2
    MaxUid = 1
    MaxEdits = 0
    MaxFaults = 0
CHECK_DEADLOCK FALSE
PROPERTIES NeverEarlier
