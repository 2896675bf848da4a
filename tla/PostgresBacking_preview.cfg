SPECIFICATION Spec
CONSTANTS
    main = main
    preview = preview
    NoStack = NoStack
    Stacks = {main, preview}
    Origins <- OfMain
    Born = {"yes"}
    MaxUid = 2
    MaxEdits = 1
    MaxFaults = 0
CHECK_DEADLOCK FALSE
INVARIANT CloneDoesNotArchive
