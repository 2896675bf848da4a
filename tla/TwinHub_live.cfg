SPECIFICATION FairSpec
CONSTANTS
    Clients = {c1}
    c1 = c1
    MaxVersion = 1
    MaxFails = 1
PROPERTIES EventuallyCurrent HeartbeatHeals HubNeverStalls
