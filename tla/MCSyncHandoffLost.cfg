SPECIFICATION Spec
CONSTANTS
    watcher = watcher
    worker = worker
    staged = staged
    boundary = boundary
    Writers = {watcher, worker}
    TagsOf <- MCTagsOf
    Leftover = {}
    Odd <- MCOdd
    MaxId = 2
INVARIANTS
    StillImportable
CHECK_DEADLOCK FALSE
