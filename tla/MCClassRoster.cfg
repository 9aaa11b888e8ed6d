SPECIFICATION Spec
CONSTANTS
    r1 = r1
    r2 = r2
    Students <- MCStudents
    Classes <- MCOneClass
    Requests <- MCRequests
    MaxEvents = 3
    MaxCount = 3
SYMMETRY Symmetry
INVARIANTS TypeOK CountExact
CHECK_DEADLOCK FALSE
