SPECIFICATION SampleSpec
CONSTANTS
    c1 = c1 c2 = c2 c3 = c3 id1 = id1
    Clients = {c1,c2,c3}
    Configuration <- SampleConfiguration
    UID = uid
    NoId = NoId
    NoPath = NoPath
    Dangling = Dangling
    Names <- SampleNames
    DefaultDir <- SampleDir
    Directories = {}
    Provisioned = {}
    Table = {"device_cert","gateway_cert"}
    Topics = {"command","gatewayCommand","notification","management"}
    MAX_SUBSCRIPTION = 5
    Threaded = FALSE
    MaxLives = 1
    MaxHandles = 2
INVARIANT CommandsReceived
