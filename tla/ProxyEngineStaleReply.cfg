CONSTANTS
    NumClients <- MCOneClient
    WireIdSpace <- MCTwoWireIds
    OrigIds <- MCOrigIds
    RpcTimeouts <- MCRpcTimeouts
    ReconnectTimeout <- MCReconnectTimeout
    CancelHorizon <- MCCancelHorizon
    InboundCap <- MCInboundCap
    OutboundCap <- MCOutboundCap
    DevRxCap <- MCDevRxCap
    MaxRequests <- MCThreeRequests
    TimeLimit <- MCTimeLimit
    AnswerKinds <- MCAnswerKinds
    TargetDiffers <- MCTargetDiffers
    Target <- MCTarget
    DeviceRates <- MCDeviceRates
    ReplyLens <- MCReplyLens
    NonRpcKinds <- MCNonRpcKinds
    Sessions <- MCSessions
    ForwardFlags <- MCForwardFlags
    StatusSinks <- MCNoStatus
    DebugBuild <- MCRelease

SPECIFICATION Spec

INVARIANT ReplyMatchesRequest
