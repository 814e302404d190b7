CONSTANTS
    NumClients <- MCNumClients
    WireIdSpace <- MCWireIdSpace
    OrigIds <- MCOrigIds
    RpcTimeouts <- MCRpcTimeouts
    ReconnectTimeout <- MCReconnectTimeout
    CancelHorizon <- MCCancelHorizon
    InboundCap <- MCInboundCap
    OutboundCap <- MCOutboundCap
    DevRxCap <- MCDevRxCap
    MaxRequests <- MCMaxRequests
    TimeLimit <- MCTimeLimit
    AnswerKinds <- MCAnswerKinds
    TargetDiffers <- MCTargetDiffers
    Target <- MCTarget
    DeviceRates <- MCDeviceRates
    ReplyLens <- MCReplyLens
    NonRpcKinds <- MCNonRpcKinds
    Sessions <- MCSessions
    ForwardFlags <- MCForwardFlags
    StatusSinks <- MCNoStatus
    DebugBuild <- MCRelease

SPECIFICATION Spec

INVARIANT NoPanic
