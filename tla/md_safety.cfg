SPECIFICATION ScenarioSpec
CONSTANTS
    a1 = a1  a2 = a2  r1 = r1  r2 = r2  r3 = r3  r4 = r4  r5 = r5  r6 = r6
    AppIds = {a1, a2}
    PlatformIds = {r1, r2, r3, r4, r5, r6}
    NoId = NoId
    Requests <- AllRequests
    ArgPassing = {"matched", "shifted"}
    HandlerCalls <- AllHandlers
    ActionCodes = {202}
    ReportedStates = {2}
    MaxInbox = 2
INVARIANTS
    TypeOK
    ClientIffManaged
    NullClientOnlyUnmanaged
    UnparsedAnswersWhole
    AnswersOwnRequest
    FirmwareUpdateEarned
PROPERTIES
    AckedFirmwareState
    Service
SYMMETRY AppSymmetry
CHECK_DEADLOCK FALSE
