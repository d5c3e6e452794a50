SPECIFICATION Spec
CONSTANTS
    a1 = a1  a2 = a2  r1 = r1  r2 = r2  r3 = r3  r4 = r4  r5 = r5  r6 = r6
    AppIds = {a1}
    PlatformIds = {r1, r2, r3, r4, r5, r6}
    NoId = NoId
    Requests <- CancelRequests
    ArgPassing = {"shifted"}
    HandlerCalls <- NoHandlers
    ActionCodes = {202}
    ReportedStates = {2}
    MaxInbox = 1
INVARIANT WellFormedProcessed
CHECK_DEADLOCK FALSE
