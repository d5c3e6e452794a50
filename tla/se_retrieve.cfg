SPECIFICATION Spec
CONSTANTS
    Elements <- SampleElements
    Garbage <- SampleGarbage
    KeyLengths = {31, 32}
    MaxFiles = 2
INVARIANTS TypeOK ElementReleased AllRetrieved CertificateLength ReferenceOnly
PROPERTY Promise
CHECK_DEADLOCK FALSE
