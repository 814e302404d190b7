CONSTANTS
    NumClients <- MCOneClient
    WireIdSpace <- MCWireIdSpace
    OrigIds <- MCOrigIds
    RpcTimeouts <- MCBothTimeouts
    ReconnectTimeout <- MCReconnectTimeout
    CancelHorizon <- MCCancelHorizon
    InboundCap <- MCInboundCap
    OutboundCap <- MCOutboundCap
    DevRxCap <- MCDevRxCap
    MaxRequests <- MCOneRequest
    TimeLimit <- MCTimeLimit
    AnswerKinds <- MCBothKinds
    TargetDiffers <- MCTargetDiffers
    Target <- MCTarget
    DeviceRates <- MCDeviceRates
    ReplyLens <- MCReplyLens
    NonRpcKinds <- MCFanOutKinds
    Sessions <- MCSessions
    ForwardFlags <- MCBothFlags
    StatusSinks <- MCNoStatus
    DebugBuild <- MCRelease

SPECIFICATION Spec

PROPERTY RpcServiceRefined
