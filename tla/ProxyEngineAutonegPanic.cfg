CONSTANTS
    NumClients <- MCNoClients
    WireIdSpace <- MCWireIdSpace
    OrigIds <- MCOrigIds
    RpcTimeouts <- MCRpcTimeouts
    ReconnectTimeout <- MCReconnectTimeout
    CancelHorizon <- MCCancelHorizon
    InboundCap <- MCInboundCap
    OutboundCap <- MCOutboundCap
    DevRxCap <- MCDevRxCap
    MaxRequests <- MCOneRequest
    TimeLimit <- MCTimeLimit
    AnswerKinds <- MCBothKinds
    TargetDiffers <- MCNegotiate
    Target <- MCTarget
    DeviceRates <- MCNearRates
    ReplyLens <- MCReplyLens
    NonRpcKinds <- MCHeartbeats
    Sessions <- MCTwoSessions
    ForwardFlags <- MCForwardFlags
    StatusSinks <- MCNoStatus
    DebugBuild <- MCRelease

SPECIFICATION Spec

INVARIANT NoAutonegUnwrapPanic
