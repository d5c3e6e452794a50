SPECIFICATION Spec
CONSTANTS
    NULL = NULL
    Tokens <- AnyToken
    Files <- SampleFiles
    Arguments <- SampleArguments
    LineSize = 6
    MaxCalls = 2
INVARIANTS TypeOK QuickstartAgrees NoClearText AsWritten CrashOnlyMalformed LostOnly
CHECK_DEADLOCK FALSE
