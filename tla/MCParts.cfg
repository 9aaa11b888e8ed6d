SPECIFICATION PartsSpec
CONSTANTS
    h1 = h1
    h2 = h2
    x1 = x1
    x2 = x2
    p1 = p1
    e1 = e1
    k1 = k1
    k2 = k2
    a1 = a1
    a2 = a2
    r1 = r1
    m1 = m1
    m2 = m2
    t1 = t1
    kp1 = kp1
    u1 = u1
    MaxMounts = 2
    MaxSessions = 2
    MaxSession = 3
    MaxAsks = 2
    MaxClock = 6
    Chapters <- MCChapters
    NoChapter = NoChapter
    Problems <- MCProblems
    Paper <- MCPaper
    MaxPicks = 2
    MaxVisits = 1
    NoKey = NoKey
    Absent = Absent
    Blank = Blank
    Builtin = Builtin
    Providers <- MCProviders
    Endpoints <- MCEndpoints
    EndpointOf <- MCEndpointOf
    Keys <- MCKeys
    Admins <- MCAdmins
    Readers <- MCReaders
    Makers <- MCMakers
    MaxGen = 1
    Texts <- MCTexts
    Points <- MCPoints
    MaxBatch = 1
    Quota = 1
    MaxBank = 2
    Size = 2
    MaxOverlap = 3
    MaxUnits = 4
    Types <- MCTypes
    Wordings <- MCWordings
    NoText = NoText
    Rounds = 3
    ReserveFloor = 1
    ReserveCap = 2
    MaxPool = 3
    MaxWant = 1
SYMMETRY Symmetry
INVARIANTS PartsTypeOK OneActive AnswersComeHome
INVARIANTS GradesAreRecorded CompletedWasGraded SubmittedIsCompleted
INVARIANTS MemoryIsTable ClientsFresh
INVARIANTS ChunksCover BudgetKept PaperDistinct ShortIsExhausted
PROPERTIES HistoryKept KeyKept TextsAreNew EveryPointCovered GenerationIsTaskLife
CHECK_DEADLOCK FALSE
