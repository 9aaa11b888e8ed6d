SPECIFICATION RagSpec
CONSTANTS
    p1 = p1
    e1 = e1
    k1 = k1
    k2 = k2
    a1 = a1
    r1 = r1
    r2 = r2
    NoKey = NoKey
    Absent = Absent
    Blank = Blank
    Builtin = Builtin
    Providers <- MCProviders
    Endpoints <- MCEndpoints
    EndpointOf <- MCEndpointOf
    Keys <- MCKeys
    Admins <- MCAdmins
    Readers <- MCReaders
INVARIANT KeyTakesEffect
CHECK_DEADLOCK FALSE
