SPECIFICATION Spec
CONSTANTS
    watcher = watcher
    worker = worker
    staged = staged
    boundary = boundary
    Writers = {watcher, worker}
    TagsOf <- MCTagsOf
    Leftover <- MCLeftover
    Odd <- MCOdd
    MaxId = 2
INVARIANTS
    TypeOK
    NoOverwrite
    AtMostOnce
    FinalIsWhole
PROPERTIES
    ImplementsSeedMailbox
CHECK_DEADLOCK FALSE
