\* One run under its own key, one attempt of it broken off.
CONSTANTS
    Parts = {"rules"}
    Executors = {w1, w2}
    NoExecutor = NoExecutor
    Actions = 2
    Waits = {}
    Stops = {}
    RunKeyed = TRUE
    RunFaults = 1
    RunOverruns = 0
    MaxCalls = 3
    MaxNews = 1
    Route = 3
    WaitSteps = {2}
    Offset <- RemindThenTerm
    TimerFaults = 1
    NoMoment = NoMoment
    Processes = {p1, p2}
    Edits = {e1, e2, e3}
    RowExists = TRUE
    DocumentFaults = 1
    Callers = {c1, c2, c3}
    UploadFaults = 2
    Documents = {d1, d2}
    Registrars = {t1, t2, t3}
    MaxNumber = 3
    NoDocument = NoDocument
    NoRegistrar = NoRegistrar
    Definition <- NestedRoute
    StartKey = "fits"
    RoundsBound = 2
    MovesBound = 40
    Objects = {o1, o2, o3}
    NoObject = NoObject
    Members = {u1}
    GrantInputs <- PlainAndTimed
    RoleLevels = {1, 2}
    RoleGives <- OneRoleOff
    EntriesBound = 1
SPECIFICATION ServicesSpec
\* A run that has ended takes no more steps.
CHECK_DEADLOCK FALSE
PROPERTIES KeyIsForOthers
