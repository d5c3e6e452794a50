SPECIFICATION Spec
CONSTANTS
    c1 = c1 c2 = c2 f1 = f1 f2 = f2 uid = uid t1 = t1
    Clients = {c1,c2}
    Configuration <- TwoDevices
    UID = uid
    NoId = NoId
    NoPath = NoPath
    Dangling = Dangling
    Names <- FileNames
    DefaultDir <- Default
    Directories <- Above
    Provisioned <- Host
    Table = {"device_cert"}
    Topics = {t1}
    MAX_SUBSCRIPTION = 2
    Threaded = FALSE
    MaxLives = 2
    MaxHandles = 2
INVARIANTS TypeOK OneIdentity SessionHasConfig CertificateWhereStored
PROPERTY NoSessionStolen
CHECK_DEADLOCK FALSE
