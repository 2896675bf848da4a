SPECIFICATION FairSpec
CONSTANTS
    main = main
    preview = preview
    NoStack = NoStack
    Stacks = {main, preview}
    Origins <- OfMain
    Born = {"yes"}
    MaxUid = 3
    MaxEdits = 1
    MaxFaults = 1
CHECK_DEADLOCK FALSE
INVARIANTS TypeOK CloneIsSeededOnce SourceReadable OwnArchive NothingForgotten
PROPERTY Settles
