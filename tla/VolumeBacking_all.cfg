SPECIFICATION FairSpec
CONSTANTS
    main = main
    preview = preview
    NoStack = NoStack
    Stacks = {main, preview}
    Parent <- OfMain
    Backups = {main, preview}
    MaxUid = 2
    Editable = {main, preview}
    MaxEdits = 1
    MaxFaults = 1
CHECK_DEADLOCK FALSE
INVARIANTS TypeOK PreviewIsSeeded RestoreFirst NothingForgotten
PROPERTY Settles
