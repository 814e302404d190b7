--------------------------- MODULE MCProxyEngine ---------------------------
(* Model-checking instance of ProxyEngine: two users and a single wire id, *)
(* so that every second request collides with an outstanding one or reuses *)
(* an id freed by a reply or a timeout, and channels of one packet so that *)
(* full channels are reached.                                              *)
EXTENDS ProxyEngine

MCNumClients == 2
MCWireIdSpace == 1
MCOrigIds == {1}
MCRpcTimeouts == {1}
MCReconnectTimeout == 1
\* reconnect_timeout None: device_timeout is the instant of the loss.
MCNoReconnectTimeout == 0
MCCancelHorizon == 3
MCInboundCap == 1
MCOutboundCap == 1
MCDevRxCap == 1
MCMaxRequests == 2
MCTimeLimit == 1
MCAnswerKinds == {"reply"}
\* A port without rate negotiation: the FSM stays in DoNothing, the device
\* sends no heartbeats, and every reply is four bytes long.
MCTargetDiffers == FALSE
MCTarget == 250
MCDeviceRates == {0}
MCReplyLens == {4}
MCNonRpcKinds == {}
MCSessions == {1}
MCForwardFlags == {FALSE}

\* A single user, with both timeouts and both answer kinds, for liveness.
MCOneClient == 1
MCBothTimeouts == {1, 2}
MCBothKinds == {"reply", "error"}
\* Two wire ids and three requests: the ids wrap around as in the u16 code.
MCTwoWireIds == 2
MCThreeRequests == 3

\* Rate negotiation: a target of 250 (units of 1000 bps); the device reports
\* 249 (within 1.5 %) or 200 (incompatible), sends Session heartbeats, and
\* may restart into a second session.
MCNegotiate == TRUE
MCNearRates == {200, 249}
MCHeartbeats == {"hb"}
MCTwoSessions == {1, 2}
\* Replies of zero or four bytes.
MCShortReplies == {0, 4}
MCOneRequest == 1
\* No users: the rate handshake alone.
MCNoClients == 0
\* Heartbeats and stream data fanned out to users that subscribe to them
\* (forward_data, forward_nonrpc) or not.
MCFanOutKinds == {"hb", "data"}
MCBothFlags == {FALSE, TRUE}
\* Port::new without a status channel, or with either.
MCNoStatus == {"none"}
MCStatusSinks == {"none", "open"}
\* A release build, where u16 addition wraps, or a debug build.
MCRelease == FALSE
MCDebug == TRUE
=============================================================================
