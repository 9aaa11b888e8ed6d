SPECIFICATION Spec
CONSTANTS
    c1 = c1
    c2 = c2
    i1 = i1
    i2 = i2
    b1 = b1
    b2 = b2
    r1 = r1
    r2 = r2
    NoOne = NoOne
    NoCourse = NoCourse
    Courses <- MCOneCourse
    Items <- MCOneItem
    Builders <- MCOneBuilder
    Requests <- MCOneRequest
    MaxTask = 2
    MaxRun = 3
    MaxEvents = 2
INVARIANTS RebuildReplaces
CHECK_DEADLOCK FALSE
