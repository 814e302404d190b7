CONSTANTS
    NumClients <- MCOneClient
    WireIdSpace <- MCWireIdSpace
    OrigIds <- MCOrigIds
    RpcTimeouts <- MCRpcTimeouts
    ReconnectTimeout <- MCReconnectTimeout
    CancelHorizon <- MCCancelHorizon
    InboundCap <- MCInboundCap
    OutboundCap <- MCOutboundCap
    DevRxCap <- MCDevRxCap
    MaxRequests <- MCOneRequest
    TimeLimit <- MCTimeLimit
    AnswerKinds <- MCAnswerKinds
    TargetDiffers <- MCTargetDiffers
    Target <- MCTarget
    DeviceRates <- MCDeviceRates
    ReplyLens <- MCReplyLens
    NonRpcKinds <- MCFanOutKinds
    Sessions <- MCSessions
    ForwardFlags <- MCBothFlags
    StatusSinks <- MCStatusSinks
    DebugBuild <- MCRelease

SPECIFICATION Spec

INVARIANT NoEventPanic
