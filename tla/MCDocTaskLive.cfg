SPECIFICATION FairSpec
CONSTANTS
    w1 = w1
    w2 = w2
    r1 = r1
    r2 = r2
    d1 = d1
    NoOne = NoOne
    Deleter = Deleter
    NoDoc = NoDoc
    Docs <- MCDocs
    Workers <- MCWorkers
    Requests <- MCOneRequest
    Chapters <- MCChapters
    MaxTask = 2
    MaxEvents = 1
PROPERTIES ThreadEnds TaskSettles
CHECK_DEADLOCK FALSE
