SPECIFICATION FairSpec
CONSTANTS
    watcher = watcher
    worker = worker
    staged = staged
    boundary = boundary
    Writers = {watcher, worker}
    TagsOf <- MCTagsOf
    Leftover <- MCLeftover
    Odd <- MCOdd
    MaxId = 1
PROPERTIES
    InTimeIsImported
CHECK_DEADLOCK FALSE
