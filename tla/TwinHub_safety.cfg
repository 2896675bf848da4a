SPECIFICATION Spec
CONSTANTS
    Clients = {c1, c2}
    c1 = c1
    c2 = c2
    MaxVersion = 1
    MaxFails = 1
SYMMETRY ClientSymmetry
INVARIANTS TypeOK NoPanic NoLostUpdate
PROPERTIES ImplementsStream
