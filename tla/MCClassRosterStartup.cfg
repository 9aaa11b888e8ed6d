SPECIFICATION Spec
CONSTANTS
    r1 = r1
    r2 = r2
    Students <- MCStudents
    Classes <- MCOneClass
    Requests <- MCRequests
    MaxEvents = 3
    MaxCount = 3
PROPERTIES StartupCountExact
CHECK_DEADLOCK FALSE
