---------------------------- MODULE ProxyEngine ----------------------------
(***************************************************************************)
(* The proxy thread of src/src/tio/proxy.rs (Proxy::run and the methods it *)
(* calls), together with the threads it talks to through crossbeam         *)
(* channels: the users of Port::port(), and the transport that delivers    *)
(* device packets.  The proxy thread is a program-counter machine whose    *)
(* steps are the pieces of one main-loop iteration: the top of the loop    *)
(* (timeout sweep, reconnect, client drop), the select, and one packet of  *)
(* the drain loop of the selected queue.  Other threads interleave between *)
(* these steps.  The rate autonegotiation of the root device runs at the   *)
(* top of the loop, with its two internal RPCs in the same remap table.    *)
(* Every step that calls send_event may panic once the status channel's    *)
(* Receiver is dropped, and in a debug build the step that moves           *)
(* next_rpc_id off its last value panics with an overflow.                 *)
(*                                                                         *)
(* Data is abstracted: a packet is a record of its payload kind, RPC id    *)
(* and ghost fields; every client has the root scope and every packet the *)
(* root route (DeviceRoute lives outside src/); time is a small integer    *)
(* clock.  Ghost                                                           *)
(* state: every client request carries a serial number sn, kept by the     *)
(* device and copied into every response, so that properties can tell      *)
(* which request a response answers.                                       *)
(***************************************************************************)
EXTENDS Integers, Sequences, SequencesExt, FiniteSets, TLC, ClientRecord

CONSTANTS
    NumClients,       \* number of Port::port() calls the users make
    WireIdSpace,      \* size of the wire-id space; 2^16 for the u16 next_rpc_id
    OrigIds,          \* RPC ids the users choose for their own requests
    RpcTimeouts,      \* rpc_timeout values a user registers with (clock ticks)
    ReconnectTimeout, \* reconnect_timeout in ticks; 0 models None
    CancelHorizon,    \* the 1000 s of cancel_active_rpcs, in ticks
    InboundCap,       \* bound of a client's inbound channel (32 in the code)
    OutboundCap,      \* bound of a client's outbound channel (256 in the code)
    DevRxCap,         \* bound of the transport's receive channel
    MaxRequests,      \* bound on the number of requests all users send
    AnswerKinds,      \* payloads the device answers with: a subset of {"reply", "error"}
    TimeLimit,        \* users stop sending, and the clock stops once no deadline is pending
    \* --- the rate autonegotiation of the root device
    TargetDiffers,    \* the port has rate_info and target_bps # default_bps
    Target,           \* target_bps
    DeviceRates,      \* rates the device may report for dev.port.rate.near
    ReplyLens,        \* lengths in bytes of the reply payloads the device sends
    NonRpcKinds,      \* non-RPC traffic the device emits: a subset of {"hb", "data", "text"}
    Sessions,         \* session numbers the root device reports; a restart changes it
    ForwardFlags,     \* values users pick for forward_data and forward_nonrpc
    StatusSinks,      \* the status_queue given to Port::new: a subset of {"none", "open"}
    DebugBuild        \* integer overflow panics (a debug build) instead of wrapping

ASSUME /\ NumClients \in Nat
       /\ WireIdSpace \in Nat \ {0}
       /\ RpcTimeouts \subseteq Nat \ {0} /\ RpcTimeouts # {}
       /\ CancelHorizon > Max(RpcTimeouts)
       /\ ReconnectTimeout \in Nat
       /\ AnswerKinds \subseteq {"reply", "error"}
       /\ {InboundCap, OutboundCap, DevRxCap, MaxRequests, TimeLimit} \subseteq Nat \ {0}
       /\ TargetDiffers \in BOOLEAN /\ Target \in Nat \ {0} /\ DeviceRates \subseteq Nat
       /\ ReplyLens \subseteq Nat /\ ReplyLens # {} /\ DeviceRates # {}
       /\ NonRpcKinds \subseteq {"hb", "data", "text"}
       /\ Sessions \subseteq Nat \ {0} /\ Sessions # {}
       /\ ForwardFlags \subseteq BOOLEAN /\ ForwardFlags # {}
       /\ StatusSinks \subseteq {"none", "open"} /\ StatusSinks # {}
       /\ DebugBuild \in BOOLEAN /\ (DebugBuild => WireIdSpace > 1)

ClientIds == 1..NumClients
WireIds   == 0..(WireIdSpace - 1)
Serials   == 1..MaxRequests
\* Users send requests only while now <= SendHorizon.
SendHorizon == TimeLimit
Stopped == {"exited", "panicked"}
\* Internal RPCs time out after 1 s; the RateChanged watchdog fires after
\* more than 1000 ms without data.  One clock tick is one second.
InternalTimeout == 1
NoDataTimeout   == 1
RateStates == {"DoNothing", "WaitingForSession", "QueryDeviceRate", "WaitingDeviceRate",
               "SetDeviceRate", "WaitingNewRate", "RateChanged", "GaveUp"}
\* The unwrap that panicked the proxy thread.
Faults == {"none", "send", "reply_len", "internal_send", "set_rate", "event", "overflow"}

VARIABLES
    proxy,        \* "init" before run(), "running", "exited" (break/return) or "panicked"
    pc,            \* where the proxy thread is in the main loop
    cur,           \* the client whose inbound queue is being drained
    \* --- the Proxy struct and run()'s locals
    clients,       \* proxy.clients: client id -> [timeout |-> rpc_timeout]
    nextClientId,  \* proxy.next_client_id
    toDrop,        \* run()'s clients_to_drop
    nextRpcId,     \* proxy.next_rpc_id
    rpcMap,        \* proxy.rpc_map: wire id -> RpcMapEntry
    rpcTimeouts,   \* proxy.rpc_timeouts: deadline -> set of wire ids
    device,        \* proxy.device.is_some()
    deviceTimeout, \* run()'s device_timeout
    rate,          \* device.rate_change_state
    lastRx,        \* device.last_rx
    lastSession,   \* device.last_session
    portRate,      \* the line rate of device.tio_port: "default" or "target" (set_rate)
    why,           \* which unwrap panicked the thread, "none" while it has not
    now,           \* Instant::now()
    \* --- channels and the threads at their other ends
    newq,          \* the new-client channel: queued ProxyClient records
    portOpen,      \* the Port (sender of the new-client channel) is alive
    registered,    \* number of Port::port() calls that returned
    inbound,       \* client -> packets the user sent, not yet received by the proxy
    inOpen,        \* client -> the user still holds its Sender
    outbound,      \* client -> packets the proxy sent, not yet received by the user
    outOpen,       \* client -> the user still holds its Receiver
    status,        \* the status channel: "none", "open", or "dropped" (its Receiver is gone)
    devRx,         \* the transport's receive channel
    linkOpen,      \* the transport still holds the sender of devRx
    devPending,    \* requests the device received and has not answered
    devRate,       \* the line rate the root device runs at
    devSession,    \* the session number the root device reports in heartbeats
    emitted,       \* the device has sent its non-RPC packet of the current second
    \* --- ghost state
    sent,          \* number of requests the users have sent
    reqOf,         \* serial -> [client, id] of the request
    respCount      \* serial -> number of responses the proxy produced for it

rateVars   == <<rate, lastRx, lastSession, portRate, why>>
proxyVars  == <<proxy, pc, cur, clients, nextClientId, toDrop, nextRpcId,
                rpcMap, rpcTimeouts, device, deviceTimeout, rateVars>>
userVars   == <<newq, portOpen, registered, inbound, inOpen, outbound, outOpen, status>>
deviceVars == <<devRx, linkOpen, devPending, devRate, devSession, emitted>>
ghostVars  == <<sent, reqOf, respCount>>
vars == <<proxyVars, userVars, deviceVars, ghostVars, now>>

-----------------------------------------------------------------------------
(* Packets *)

Codes == {"None", "Timeout", "Undefined", "OutOfMemory", "Device"}
\* A packet other than an RpcRequest that a user sends the device.
Raw == [type |-> "raw", id |-> 0, sn |-> 0]
Request  == [type : {"req"}, id : OrigIds, sn : Serials] \cup {Raw}
\* What a user receives: RPC responses, and fanned-out non-RPC packets (sn 0).
Response == [type : {"reply", "error"}, code : Codes, id : OrigIds \cup WireIds,
             sn : Serials, src : Serials \cup {0}]
            \cup [type : {"hb", "data"}, code : {"None"}, id : {0}, sn : {0}, src : {0}]
\* What the transport delivers: a packet, or a RecvError (a Text or other
\* protocol error, or a fatal one).  Internal requests carry sn 0.
DevItem  == [type : {"reply", "error", "hb", "data", "text", "garbled", "fatal"},
             id : WireIds \cup {0}, sn : Serials \cup {0}, len : Nat, val : Nat]
DevMsg(t, w, s, l, v) == [type |-> t, id |-> w, sn |-> s, len |-> l, val |-> v]
\* An RpcMapEntry; internal RPCs (client 0) carry sn 0.
Entry    == [id : OrigIds \cup WireIds, client : 0..NumClients, deadline : Nat,
             sn : Serials \cup {0}]

\* util::PacketBuilder::rpc_error for entry e: the original id, the stored route.
ErrorFor(e, code) == [type |-> "error", code |-> code, id |-> e.id, sn |-> e.sn, src |-> e.sn]

\* ProxyClient::send: try_send succeeds iff the user's Receiver is alive and
\* the bounded channel has room (RPC payloads always pass the filter, and the
\* root scope admits every route).  Every call site unwraps the result.
TrySendOk(c, q, n) == outOpen[c] /\ Len(q) + n <= OutboundCap

-----------------------------------------------------------------------------
(* The rate autonegotiation state machine *)

\* try_setup_device: autonegotiation starts only when the port has rate_info
\* and its target differs from the default.
InitialRate == IF TargetDiffers THEN "WaitingForSession" ELSE "DoNothing"

\* ProxyDevice::has_static_rate and needs_autonegotiation.
HasStaticRate == rate = "DoNothing"

\* Mutant: RateChanged is left out of the states that need upkeep.
NeedsAutonegotiationNoWatchdog == rate \notin {"DoNothing", "GaveUp", "RateChanged"}

NeedsAutonegotiation == rate \notin {"DoNothing", "GaveUp"}

\* internal_rpc_reply: |target - value| / value > 0.015 means incompatible
\* (computed in f64; exact on the rates the model uses).
Compatible(v) == v # 0 /\ 1000 * (IF Target >= v THEN Target - v ELSE v - Target) <= 15 * v

\* ProxyDevice::try_recv's last_rx: any packet, or a Text protocol error,
\* refreshes it; other receive errors leave it.  Only with a dynamic rate.
LastRxAfter(it) == IF HasStaticRate \/ it.type \in {"garbled", "fatal"} THEN lastRx ELSE now

-----------------------------------------------------------------------------
(* The remap table *)

\* Wire ids in deadline buckets strictly before until (the loop breaks at until).
DueIds(tmo, until) == UNION {tmo[d] : d \in {x \in DOMAIN tmo : x < until}}

\* Mutant: the deadline index is never updated.
AddToBucketLost(tmo, d, w) == tmo

\* rpc_timeouts insertion of wire id w under deadline d.
AddToBucket(tmo, d, w) ==
    IF d \in DOMAIN tmo THEN [tmo EXCEPT ![d] = @ \cup {w}] ELSE (d :> {w}) @@ tmo

\* Mutant: an emptied bucket is left in the index.
RemoveFromBucketNoPrune(tmo, d, w) == [tmo EXCEPT ![d] = @ \ {w}]

\* rpc_restore's removal of w from bucket d, pruning the bucket if it emptied.
RemoveFromBucket(tmo, d, w) ==
    LET left == [x \in DOMAIN tmo |-> IF x = d THEN tmo[x] \ {w} ELSE tmo[x]]
    IN Restrict(left, {x \in DOMAIN left : x # d \/ left[x] # {}})

\* Mutant: rpc_restore looks the entry up without removing it.
RpcRestoreKeep(w) == UNCHANGED <<rpcMap, rpcTimeouts>>

\* rpc_restore(w) on a wire id in rpc_map: the entry leaves the map and its
\* deadline bucket.
RpcRestore(w) ==
    /\ rpcMap' = Restrict(rpcMap, DOMAIN rpcMap \ {w})
    /\ rpcTimeouts' = RemoveFromBucket(rpcTimeouts, rpcMap[w].deadline, w)

\* Mutant: the original id is overwritten by the wire id before the entry is stored.
NewEntryRewritten(req, w, c) ==
    [id |-> w, client |-> c, deadline |-> now + clients[c].timeout, sn |-> req.sn]

\* The RpcMapEntry forward_to_device stores for request req of client c
\* under wire id w: the original id and the deadline now + rpc_timeout.
NewEntry(req, w, c) ==
    [id |-> req.id, client |-> c, deadline |-> now + clients[c].timeout, sn |-> req.sn]

\* Mutant: next_rpc_id grows past the u16 range.
NextWireIdNoWrap(w) == w + 1

\* next_rpc_id += 1 on a u16 without overflow checks: it wraps.
NextWireId(w) == (w + 1) % WireIdSpace

\* Mutant: cancel_active_rpcs only cancels what is already due.
CancelUntilNow == now

\* cancel_active_rpcs: dispatch everything due before now + 1000 s.
CancelUntil == now + CancelHorizon

\* dispatch_rpc_timeouts(until, code) applied to st = [map, tmo, out, fail, cnt]:
\* every due entry is removed, an error goes to its client if the client is
\* still registered, and the due buckets are removed.  fail records that one
\* of the unwraps failed (the thread panics): a send, or the removal from
\* rpc_map of a bucket id without an entry.
Dispatch(st, until, code) ==
    LET due  == DueIds(st.tmo, until) \cap DOMAIN st.map
        errs(c) == {ErrorFor(st.map[w], code) : w \in {x \in due : st.map[x].client = c}}
        to   == {c \in DOMAIN clients : errs(c) # {}}
    IN [map  |-> Restrict(st.map, DOMAIN st.map \ due),
        tmo  |-> Restrict(st.tmo, {d \in DOMAIN st.tmo : d >= until}),
        out  |-> [c \in ClientIds |-> IF c \in to THEN st.out[c] \o SetToSeq(errs(c))
                                                  ELSE st.out[c]],
        fail |-> \/ st.fail
                 \/ ~(DueIds(st.tmo, until) \subseteq DOMAIN st.map)
                 \/ \E c \in to : ~TrySendOk(c, st.out[c], Cardinality(errs(c))),
        cnt  |-> [s \in Serials |-> st.cnt[s] + IF \E w \in due : st.map[w].sn = s THEN 1 ELSE 0]]

-----------------------------------------------------------------------------
(* autonegotiation(): one upkeep step of the rate FSM, run at the top of  *)
(* the loop after the timeout sweep.                                        *)

\* send_internal_rpc(pkt) = forward_to_device(pkt, 0) on the swept table st:
\* the wire id is taken, an id still in use is OutOfMemory, the entry gets
\* the 1 s internal deadline, and the port send may fail (the entry is then
\* removed).  ok is FALSE when forward_to_device returns Err.
InternalSend(st, name) ==
    LET w    == nextRpcId
        e    == [id |-> 0, client |-> 0, deadline |-> now + InternalTimeout, sn |-> 0]
        fail == [map |-> st.map, tmo |-> st.tmo, next |-> NextWireId(w),
                 pend |-> devPending, ok |-> FALSE]
        ok   == [fail EXCEPT !.map = (w :> e) @@ st.map,
                             !.tmo = AddToBucket(st.tmo, e.deadline, w),
                             !.pend = IF linkOpen /\ portRate = devRate
                                      THEN devPending \cup {[id |-> w, sn |-> 0, rpc |-> name]}
                                      ELSE devPending,
                             !.ok = TRUE]
    IN IF w \in DOMAIN st.map THEN {fail} ELSE {ok, fail}

\* Mutant: the watchdog leaves the port at the target rate.
RevertedPortKept == portRate

\* The rate the watchdog's set_rate(default_bps) leaves the port at.
RevertedPort == "default"

\* The outcomes of autonegotiation() on the swept table st, as records of
\* the remap table, the device's pending requests, the FSM state, the port
\* rate and the unwrap that failed.  QueryDeviceRate sends
\* dev.port.rate.near; SetDeviceRate sends dev.port.rate only once rpc_map is
\* empty (else AutoRateWait); RateChanged reverts to the default rate after
\* more than NoDataTimeout without data.  Both sends and the revert unwrap.
Autonegotiation(st) ==
    LET keep == [map |-> st.map, tmo |-> st.tmo, next |-> nextRpcId, pend |-> devPending,
                 rate |-> rate, port |-> portRate, why |-> "none"]
        Sent(o, r) == [keep EXCEPT !.map = o.map, !.tmo = o.tmo, !.next = o.next,
                                   !.pend = o.pend, !.rate = IF o.ok THEN r ELSE rate,
                                   !.why = IF o.ok THEN "none" ELSE "internal_send"]
    IN CASE rate = "QueryDeviceRate" ->
              {Sent(o, "WaitingDeviceRate") : o \in InternalSend(st, "near")}
         [] rate = "SetDeviceRate" /\ DOMAIN st.map = {} ->
              {Sent(o, "WaitingNewRate") : o \in InternalSend(st, "rate")}
         [] rate = "RateChanged" /\ now - lastRx > NoDataTimeout ->
              {[keep EXCEPT !.rate = "GaveUp", !.port = RevertedPort],    \* NoData, SetRate
               [keep EXCEPT !.why = "set_rate"]}
         [] OTHER -> {keep}

\* internal_rpc_reply for reply it (a client-0 entry restored): the first
\* four bytes are read as the value (a shorter reply panics); in
\* WaitingDeviceRate an incompatible value gives up, a compatible one moves
\* to SetDeviceRate; in WaitingNewRate the port is set to the target rate,
\* and a failing set_rate gives up; other states ignore the reply.  The
\* outcomes are records [rate, port, why].
InternalRpcReply(it) ==
    LET keep == [rate |-> rate, port |-> portRate, why |-> "none"]
    IN CASE it.len < 4 -> {[keep EXCEPT !.why = "reply_len"]}
         [] rate = "WaitingDeviceRate" ->
              {[keep EXCEPT !.rate = IF Compatible(it.val) THEN "SetDeviceRate" ELSE "GaveUp"]}
         [] rate = "WaitingNewRate" ->
              {[keep EXCEPT !.rate = "RateChanged", !.port = "target"],
               [keep EXCEPT !.rate = "GaveUp"]}                       \* AutoRateGaveUp
         [] OTHER -> {keep}

-----------------------------------------------------------------------------
(* The proxy thread *)

Init ==
    /\ proxy = "init" /\ pc = "top" /\ cur = 0
    /\ clients = <<>> /\ nextClientId = 1 /\ toDrop = {}
    /\ nextRpcId = 0 /\ rpcMap = <<>> /\ rpcTimeouts = <<>>
    /\ device = FALSE /\ deviceTimeout = 0 /\ now = 0
    /\ rate = "DoNothing" /\ lastRx = 0 /\ lastSession = 0 /\ portRate = "default"
    /\ why = "none"
    /\ newq = <<>> /\ portOpen = TRUE /\ registered = 0
    /\ inbound = [c \in ClientIds |-> <<>>] /\ inOpen = [c \in ClientIds |-> FALSE]
    /\ outbound = [c \in ClientIds |-> <<>>] /\ outOpen = [c \in ClientIds |-> FALSE]
    /\ devRx = <<>> /\ linkOpen = FALSE /\ devPending = {}
    /\ devRate = "default" /\ devSession \in Sessions /\ emitted = FALSE
    /\ sent = 0 /\ reqOf = [s \in Serials |-> [client |-> 0, id |-> 0]]
    /\ respCount = [s \in Serials |-> 0]
    /\ status \in StatusSinks

\* try_setup_device: a fresh transport (AbstractPort::new with a new rx
\* channel, at the default rate; the device keeps its own rate) and a fresh
\* ProxyDevice.  last_rx is only ever read with a dynamic rate, so with a
\* static one the model does not record it.
OpenLink ==
    /\ devRx' = <<>> /\ linkOpen' = TRUE /\ devPending' = {}
    /\ UNCHANGED <<devRate, devSession, emitted>>
    /\ rate' = InitialRate /\ lastSession' = 0 /\ portRate' = "default"
    /\ lastRx' = IF InitialRate = "DoNothing" THEN lastRx ELSE now

\* run(): the first try_setup_device; FailedToConnect returns.
Start ==
    /\ proxy = "init"
    /\ \/ /\ proxy' = "running" /\ device' = TRUE /\ deviceTimeout' = now /\ OpenLink
       \/ /\ proxy' = "exited" /\ UNCHANGED <<device, deviceTimeout, deviceVars, rate, lastRx,
                                              lastSession, portRate>>
    /\ UNCHANGED <<pc, cur, clients, nextClientId, toDrop, nextRpcId, rpcMap, rpcTimeouts,
                   why, userVars, ghostVars, now>>

\* Top of 'mainloop: process_rpc_timeouts, then with no device
\* cancel_active_rpcs and try_setup_device (FailedToReconnect breaks once
\* device_timeout has passed), then with a device autonegotiation() when it
\* needs it, then the drop of clients_to_drop.
LoopTop ==
    /\ proxy = "running" /\ pc = "top"
    /\ LET s0 == [map |-> rpcMap, tmo |-> rpcTimeouts, out |-> outbound,
                  fail |-> FALSE, cnt |-> respCount]
           s1 == Dispatch(s0, now, "Timeout")
           s2 == IF device THEN s1 ELSE Dispatch(s1, CancelUntil, "Undefined")
       IN \/ /\ s2.fail
             /\ proxy' = "panicked" /\ why' = "send"
             /\ UNCHANGED <<pc, clients, toDrop, nextRpcId, rpcMap, rpcTimeouts, outbound,
                            respCount, device, deviceVars, rate, lastRx, lastSession, portRate>>
          \/ /\ ~s2.fail
             /\ outbound' = s2.out /\ respCount' = s2.cnt
             /\ \/ /\ device /\ NeedsAutonegotiation
                   /\ \E r \in Autonegotiation(s2) :
                        /\ rpcMap' = r.map /\ rpcTimeouts' = r.tmo /\ nextRpcId' = r.next
                        /\ devPending' = r.pend /\ rate' = r.rate /\ portRate' = r.port
                        /\ why' = r.why
                        /\ proxy' = IF r.why = "none" THEN proxy ELSE "panicked"
                   /\ UNCHANGED <<device, devRx, linkOpen, devRate, devSession, emitted,
                                  lastRx, lastSession>>
                \/ /\ device /\ ~NeedsAutonegotiation
                   /\ rpcMap' = s2.map /\ rpcTimeouts' = s2.tmo
                   /\ proxy' = proxy /\ UNCHANGED <<device, deviceVars, nextRpcId, rateVars>>
                \/ /\ ~device                          \* SensorReconnected
                   /\ rpcMap' = s2.map /\ rpcTimeouts' = s2.tmo
                   /\ proxy' = proxy /\ device' = TRUE /\ OpenLink
                   /\ UNCHANGED <<nextRpcId, why>>
                \/ /\ ~device /\ now <= deviceTimeout   \* retry on a later iteration
                   /\ rpcMap' = s2.map /\ rpcTimeouts' = s2.tmo
                   /\ proxy' = proxy /\ UNCHANGED <<device, deviceVars, nextRpcId, rateVars>>
                \/ /\ ~device /\ now > deviceTimeout    \* FailedToReconnect
                   /\ rpcMap' = s2.map /\ rpcTimeouts' = s2.tmo
                   /\ proxy' = "exited" /\ UNCHANGED <<device, deviceVars, nextRpcId, rateVars>>
             /\ clients' = Restrict(clients, DOMAIN clients \ toDrop)
             /\ toDrop' = {}
             /\ pc' = "wait"
    /\ UNCHANGED <<cur, nextClientId, deviceTimeout, newq, portOpen, registered,
                   inbound, inOpen, outOpen, sent, reqOf, now, status>>

\* The queues the select of one iteration reports ready.
ClientReady(c) == c \in DOMAIN clients /\ (inbound[c] # <<>> \/ ~inOpen[c])
NewClientReady == newq # <<>> \/ ~portOpen
DeviceReady == device /\ (devRx # <<>> \/ ~linkOpen)

SelectClient ==
    /\ proxy = "running" /\ pc = "wait"
    /\ \E c \in DOMAIN clients : ClientReady(c) /\ pc' = "client" /\ cur' = c
    /\ UNCHANGED <<proxy, clients, nextClientId, toDrop, nextRpcId, rpcMap, rpcTimeouts,
                   device, deviceTimeout, rateVars, userVars, deviceVars, ghostVars, now>>

SelectNewClient ==
    /\ proxy = "running" /\ pc = "wait" /\ NewClientReady
    /\ pc' = "new"
    /\ UNCHANGED <<proxy, cur, clients, nextClientId, toDrop, nextRpcId, rpcMap, rpcTimeouts,
                   device, deviceTimeout, rateVars, userVars, deviceVars, ghostVars, now>>

SelectDevice ==
    /\ proxy = "running" /\ pc = "wait" /\ DeviceReady
    /\ pc' = "device"
    /\ UNCHANGED <<proxy, cur, clients, nextClientId, toDrop, nextRpcId, rpcMap, rpcTimeouts,
                   device, deviceTimeout, rateVars, userVars, deviceVars, ghostVars, now>>

\* ready_timeout returns Err: continue 'mainloop.
SelectTimeout ==
    /\ proxy = "running" /\ pc = "wait"
    /\ ~\E c \in DOMAIN clients : ClientReady(c)
    /\ ~NewClientReady /\ ~DeviceReady
    /\ pc' = "top"
    /\ UNCHANGED <<proxy, cur, clients, nextClientId, toDrop, nextRpcId, rpcMap, rpcTimeouts,
                   device, deviceTimeout, rateVars, userVars, deviceVars, ghostVars, now>>

\* Client drain, one packet: ProxyClient::recv, then forward_to_device for an
\* RpcRequest.  The wire id is taken and next_rpc_id incremented first; a
\* wire id still in rpc_map gives OutOfMemory; otherwise the entry is
\* inserted, and on a successful port send also its deadline bucket, else it
\* is removed again and Undefined goes back.  The error goes back through
\* an unwrapped ProxyClient::send.
ForwardRequest ==
    /\ proxy = "running" /\ pc = "client" /\ inbound[cur] # <<>>
    /\ Head(inbound[cur]).type = "req"
    /\ LET req == Head(inbound[cur])
           w   == nextRpcId
           e   == NewEntry(req, w, cur)
           \* the error forward_to_device returns, and its delivery
           Bounce(code) ==
               IF TrySendOk(cur, outbound[cur], 1)
               THEN /\ outbound' = [outbound EXCEPT ![cur] = Append(@, ErrorFor(e, code))]
                    /\ respCount' = [respCount EXCEPT ![req.sn] = @ + 1]
                    /\ proxy' = proxy /\ why' = why
               ELSE /\ proxy' = "panicked" /\ why' = "send" /\ UNCHANGED <<outbound, respCount>>
       IN /\ inbound' = [inbound EXCEPT ![cur] = Tail(@)]
          /\ nextRpcId' = NextWireId(w)
          /\ \/ /\ w \in DOMAIN rpcMap
                /\ Bounce("OutOfMemory")
                /\ UNCHANGED <<rpcMap, rpcTimeouts, devPending>>
             \/ /\ w \notin DOMAIN rpcMap /\ device      \* tio_port.send is Ok
                /\ rpcMap' = (w :> e) @@ rpcMap
                /\ rpcTimeouts' = AddToBucket(rpcTimeouts, e.deadline, w)
                /\ devPending' = IF linkOpen /\ portRate = devRate
                                 THEN devPending \cup {[id |-> w, sn |-> req.sn, rpc |-> "user"]}
                                 ELSE devPending              \* lost, or garbled at the wrong rate
                /\ proxy' = proxy /\ UNCHANGED <<outbound, respCount, why>>
             \/ /\ w \notin DOMAIN rpcMap                \* no device, or send failed
                /\ Bounce("Undefined")
                /\ UNCHANGED <<rpcMap, rpcTimeouts, devPending>>
    /\ UNCHANGED <<pc, cur, clients, nextClientId, toDrop, device, deviceTimeout,
                   rate, lastRx, lastSession, portRate, newq, portOpen, registered, inOpen,
                   outOpen, devRx, linkOpen, devRate, devSession, emitted, sent, reqOf, now, status>>

\* Client drain, a packet other than an RpcRequest: forward_to_device sends
\* it if there is a device and returns Ok whatever the send gives; the
\* drain loop goes on with the next packet.
ForwardOther ==
    /\ proxy = "running" /\ pc = "client" /\ inbound[cur] # <<>>
    /\ Head(inbound[cur]).type = "raw"
    /\ inbound' = [inbound EXCEPT ![cur] = Tail(@)]
    /\ UNCHANGED <<proxyVars, newq, portOpen, registered, inOpen, outbound, outOpen,
                   deviceVars, ghostVars, now, status>>

\* Client drain ends: Empty breaks; Disconnected marks the client for drop.
ClientDrainEnd ==
    /\ proxy = "running" /\ pc = "client" /\ inbound[cur] = <<>>
    /\ toDrop' = IF inOpen[cur] THEN toDrop ELSE toDrop \cup {cur}  \* ClientTerminated
    /\ pc' = "top" /\ cur' = 0
    /\ UNCHANGED <<proxy, clients, nextClientId, nextRpcId, rpcMap, rpcTimeouts,
                   device, deviceTimeout, rateVars, userVars, deviceVars, ghostVars, now>>

\* New-client drain: register the next ProxyClient under next_client_id;
\* Empty breaks; Disconnected (the Port is gone) emits Exiting and breaks
\* 'mainloop.
AcceptClient ==
    /\ proxy = "running" /\ pc = "new" /\ newq # <<>>
    /\ clients' = (nextClientId :> Head(newq)) @@ clients
    /\ nextClientId' = nextClientId + 1
    /\ newq' = Tail(newq)
    /\ UNCHANGED <<proxy, pc, cur, toDrop, nextRpcId, rpcMap, rpcTimeouts, device,
                   deviceTimeout, rateVars, portOpen, registered, inbound, inOpen, outbound, outOpen,
                   deviceVars, ghostVars, now, status>>

NewClientDrainEnd ==
    /\ proxy = "running" /\ pc = "new" /\ newq = <<>>
    /\ IF portOpen THEN proxy' = proxy /\ pc' = "top"
                   ELSE proxy' = "exited" /\ pc' = pc
    /\ UNCHANGED <<cur, clients, nextClientId, toDrop, nextRpcId, rpcMap, rpcTimeouts,
                   device, deviceTimeout, rateVars, userVars, deviceVars, ghostVars, now>>

\* Device drain, an RpcReply or RpcError (ProxyDevice::try_recv refreshes
\* last_rx first): rpc_restore removes the entry and its bucket; the
\* packet, with the original id, goes to the originating client through an
\* unwrapped send; a client-0 entry goes to internal_rpc_reply or
\* internal_rpc_error (which gives up); an unknown wire id or a client no
\* longer registered drops it.
RestoreResponse ==
    /\ proxy = "running" /\ pc = "device" /\ devRx # <<>>
    /\ Head(devRx).type \in {"reply", "error"}
    /\ devRx' = Tail(devRx)
    /\ lastRx' = LastRxAfter(Head(devRx))
    /\ LET it  == Head(devRx)
           w   == it.id
           e   == rpcMap[w]
           rsp == [type |-> it.type, code |-> IF it.type = "reply" THEN "None" ELSE "Device",
                   id |-> e.id, sn |-> e.sn, src |-> it.sn]
       IN \/ /\ w \notin DOMAIN rpcMap
             /\ UNCHANGED <<proxy, rpcMap, rpcTimeouts, outbound, respCount, rate, portRate, why>>
          \/ /\ w \in DOMAIN rpcMap /\ e.client = 0
             /\ RpcRestore(w)
             /\ \/ /\ it.type = "reply"
                   /\ \E r \in InternalRpcReply(it) :
                        /\ rate' = r.rate /\ portRate' = r.port /\ why' = r.why
                        /\ proxy' = IF r.why = "none" THEN proxy ELSE "panicked"
                \/ /\ it.type = "error"                     \* AutoRateRpcError, GaveUp
                   /\ rate' = "GaveUp" /\ UNCHANGED <<proxy, portRate, why>>
             /\ UNCHANGED <<outbound, respCount>>
          \/ /\ w \in DOMAIN rpcMap /\ e.client # 0
             /\ RpcRestore(w)
             /\ UNCHANGED <<rate, portRate>>
             /\ \/ /\ e.client \notin DOMAIN clients
                   /\ respCount' = [respCount EXCEPT ![e.sn] = @ + 1]
                   /\ UNCHANGED <<proxy, outbound, why>>
                \/ /\ e.client \in DOMAIN clients /\ TrySendOk(e.client, outbound[e.client], 1)
                   /\ outbound' = [outbound EXCEPT ![e.client] = Append(@, rsp)]
                   /\ respCount' = [respCount EXCEPT ![e.sn] = @ + 1]
                   /\ UNCHANGED <<proxy, why>>
                \/ /\ e.client \in DOMAIN clients /\ ~TrySendOk(e.client, outbound[e.client], 1)
                   /\ proxy' = "panicked" /\ why' = "send"
                   /\ UNCHANGED <<outbound, respCount>>
    /\ UNCHANGED <<pc, cur, clients, nextClientId, toDrop, nextRpcId, device, deviceTimeout,
                   lastSession, newq, portOpen, registered, inbound, inOpen, outOpen, linkOpen,
                   devPending, devRate, devSession, emitted, sent, reqOf, now, status>>

\* Mutant: any session change restarts the handshake, whatever the state.
AfterSessionAlways(s) ==
    CASE rate = "WaitingForSession" \/ s # lastSession -> "QueryDeviceRate"
      [] OTHER                                       -> rate

\* ProxyDevice::try_recv on a root Session heartbeat, with a dynamic rate:
\* WaitingForSession moves on to QueryDeviceRate; a changed session (the
\* device restarted) restarts a GaveUp FSM; every other state ignores it.
AfterSession(s) ==
    CASE rate = "WaitingForSession"                -> "QueryDeviceRate"
      [] s # lastSession /\ rate = "GaveUp"        -> "QueryDeviceRate"
      [] OTHER                                     -> rate

\* Device drain, a heartbeat or stream data: try_recv's bookkeeping, then
\* the fan-out through ProxyClient::send to every client, each send
\* unwrapped; a send the scope or the policy filters out returns Ok.
RecvNonRpc ==
    /\ proxy = "running" /\ pc = "device" /\ devRx # <<>>
    /\ Head(devRx).type \in {"hb", "data"}
    /\ devRx' = Tail(devRx)
    /\ LET it  == Head(devRx)
           to  == {c \in DOMAIN clients : Send(clients[c], [type |-> it.type, routing |-> <<>>]) # {}}
           pkt == [type |-> it.type, code |-> "None", id |-> 0, sn |-> 0, src |-> 0]
       IN /\ lastRx' = LastRxAfter(it)
          /\ IF it.type = "hb" /\ ~HasStaticRate
             THEN rate' = AfterSession(it.val) /\ lastSession' = it.val
             ELSE UNCHANGED <<rate, lastSession>>
          /\ IF \A c \in to : TrySendOk(c, outbound[c], 1)
             THEN /\ outbound' = [c \in ClientIds |-> IF c \in to THEN Append(outbound[c], pkt)
                                                                 ELSE outbound[c]]
                  /\ UNCHANGED <<proxy, why>>
             ELSE proxy' = "panicked" /\ why' = "send" /\ outbound' = outbound
    /\ UNCHANGED <<pc, cur, clients, nextClientId, toDrop, nextRpcId, rpcMap, rpcTimeouts,
                   device, deviceTimeout, portRate, newq, portOpen, registered, inbound,
                   inOpen, outOpen, linkOpen, devPending, devRate, devSession, emitted, ghostVars, now, status>>

\* Device drain, RecvError::Protocol: ProtocolError is emitted and the drain
\* goes on; a Text error counts as received data for last_rx.
RecvProtocolError ==
    /\ proxy = "running" /\ pc = "device" /\ devRx # <<>>
    /\ Head(devRx).type \in {"text", "garbled"}
    /\ devRx' = Tail(devRx)
    /\ lastRx' = LastRxAfter(Head(devRx))
    /\ UNCHANGED <<proxy, pc, cur, clients, nextClientId, toDrop, nextRpcId, rpcMap, rpcTimeouts,
                   device, deviceTimeout, rate, lastSession, portRate, why, userVars, linkOpen,
                   devPending, devRate, devSession, emitted, ghostVars, now>>

\* Device drain, a RecvError other than Protocol: FatalError, break 'mainloop.
FatalRecv ==
    /\ proxy = "running" /\ pc = "device" /\ devRx # <<>> /\ Head(devRx).type = "fatal"
    /\ proxy' = "exited" /\ devRx' = Tail(devRx)
    /\ UNCHANGED <<pc, cur, clients, nextClientId, toDrop, nextRpcId, rpcMap, rpcTimeouts,
                   device, deviceTimeout, rateVars, userVars, linkOpen, devPending, devRate,
                   devSession, emitted, ghostVars, now>>

\* Device drain ends: Empty breaks; Disconnected drops the device and sets
\* device_timeout = now + reconnect_timeout (SensorDisconnected).
DeviceDrainEnd ==
    /\ proxy = "running" /\ pc = "device" /\ devRx = <<>>
    /\ pc' = "top"
    /\ IF linkOpen THEN UNCHANGED <<device, deviceTimeout>>
                   ELSE device' = FALSE /\ deviceTimeout' = now + ReconnectTimeout
    /\ UNCHANGED <<proxy, cur, clients, nextClientId, toDrop, nextRpcId, rpcMap, rpcTimeouts,
                   rateVars, userVars, deviceVars, ghostVars, now>>

ThreadStep ==
    \/ Start \/ LoopTop
    \/ SelectClient \/ SelectNewClient \/ SelectDevice \/ SelectTimeout
    \/ ForwardRequest \/ ForwardOther \/ ClientDrainEnd
    \/ AcceptClient \/ NewClientDrainEnd
    \/ RestoreResponse \/ RecvNonRpc \/ RecvProtocolError \/ FatalRecv \/ DeviceDrainEnd

\* The step of the thread calls send_event: the lifecycle events of run(),
\* RpcRemap (emitted before the port send, so also for a send that fails),
\* RpcRestore and RpcTimeout, ClientTerminated and NewClient, the errors of
\* the receive, and the events of autonegotiation(), which emits in every
\* SetDeviceRate iteration (AutoRateSet or AutoRateWait) and on each of its
\* transitions (NoData precedes the set_rate that may fail).  Transitions
\* that try_recv makes on heartbeats emit nothing.
Emits ==
    \/ proxy = "init"                                 \* SensorConnected, FailedToConnect
    \/ proxy' = "exited"                              \* FailedToReconnect, Exiting, FatalError
    \/ device' # device                               \* SensorReconnected, SensorDisconnected
    \/ rpcMap' # rpcMap                               \* RpcRemap, RpcRestore, RpcTimeout
    \/ /\ pc = "client" /\ inbound[cur] # <<>> /\ Head(inbound[cur]).type = "req"
       /\ nextRpcId \notin DOMAIN rpcMap
    \/ toDrop' # toDrop \/ nextClientId' # nextClientId
    \/ pc = "device" /\ devRx # <<>> /\ Head(devRx).type \in {"text", "garbled"}
    \/ pc = "top" /\ device /\ (rate' # rate \/ rate = "SetDeviceRate" \/ why' = "set_rate")

\* send_event: send(event).unwrap() on the status channel.  With its
\* Receiver dropped, the first step that emits an event panics the thread
\* at that event.
SendEventPanic ==
    /\ proxy \in {"init", "running"} /\ status = "dropped"
    /\ ENABLED (ThreadStep /\ Emits)
    /\ proxy' = "panicked" /\ why' = "event"
    /\ UNCHANGED <<pc, cur, clients, nextClientId, toDrop, nextRpcId, rpcMap, rpcTimeouts,
                   device, deviceTimeout, rate, lastRx, lastSession, portRate, userVars,
                   deviceVars, ghostVars, now>>

\* forward_to_device: next_rpc_id += 1 on a u16.  A step takes a wire id
\* exactly when it moves next_rpc_id (WireIdSpace > 1); in a debug build
\* taking the last id panics with an arithmetic overflow instead.
Overflows == DebugBuild /\ nextRpcId = WireIdSpace - 1 /\ nextRpcId' # nextRpcId

\* With the status Receiver dropped, a step that both emits an event and
\* takes the last id panics at whichever comes first in it (an event of the
\* timeout sweep precedes an internal send; RpcRemap follows the increment):
\* the model lets either panic happen.
RpcIdOverflowPanic ==
    /\ proxy = "running" /\ DebugBuild /\ nextRpcId = WireIdSpace - 1
    /\ ENABLED (ThreadStep /\ Overflows)
    /\ proxy' = "panicked" /\ why' = "overflow"
    /\ UNCHANGED <<pc, cur, clients, nextClientId, toDrop, nextRpcId, rpcMap, rpcTimeouts,
                   device, deviceTimeout, rate, lastRx, lastSession, portRate, userVars,
                   deviceVars, ghostVars, now>>

\* A step of the thread that reaches neither panic.
Proceeds == (status = "dropped" => ~Emits) /\ ~Overflows

ProxyStep ==
    \/ Start /\ Proceeds
    \/ LoopTop /\ Proceeds
    \/ SelectClient /\ Proceeds
    \/ SelectNewClient /\ Proceeds
    \/ SelectDevice /\ Proceeds
    \/ SelectTimeout /\ Proceeds
    \/ ForwardRequest /\ Proceeds
    \/ ClientDrainEnd /\ Proceeds
    \/ AcceptClient /\ Proceeds
    \/ NewClientDrainEnd /\ Proceeds
    \/ RestoreResponse /\ Proceeds
    \/ RecvNonRpc /\ Proceeds
    \/ RecvProtocolError /\ Proceeds
    \/ FatalRecv /\ Proceeds
    \/ DeviceDrainEnd /\ Proceeds
    \/ SendEventPanic

-----------------------------------------------------------------------------
(* The users of Port::port(), the transport and the clock.  Once the proxy  *)
(* thread has ended they can only observe closed channels, so the model    *)
(* stops there.                                                            *)

\* Port::port(): a valid rpc_timeout, the forwarding policy, channels of 32
\* and 256, the ProxyClient sent on the new-client channel (which fails once
\* the proxy thread ended).  Scopes are all the root.
Port ==
    /\ registered < NumClients /\ portOpen /\ proxy \notin Stopped
    /\ \E t \in RpcTimeouts, fd, fnr \in ForwardFlags :
         newq' = Append(newq, [timeout |-> t, scope |-> <<>>, fd |-> fd, fnr |-> fnr])
    /\ registered' = registered + 1
    /\ inOpen' = [inOpen EXCEPT ![registered + 1] = TRUE]
    /\ outOpen' = [outOpen EXCEPT ![registered + 1] = TRUE]
    /\ UNCHANGED <<proxyVars, portOpen, inbound, outbound, deviceVars, ghostVars, now, status>>

\* The user drops the Port.
DropPort ==
    /\ proxy \notin Stopped /\ portOpen /\ portOpen' = FALSE
    /\ UNCHANGED <<proxyVars, newq, registered, inbound, inOpen, outbound, outOpen,
                   deviceVars, ghostVars, now, status>>

\* A user sends an RpcRequest with an id of its choice (a blocking send).
UserSend(c) ==
    /\ c <= registered /\ inOpen[c] /\ proxy \notin Stopped
    /\ Len(inbound[c]) < InboundCap /\ sent < MaxRequests /\ now <= SendHorizon
    /\ \E r \in OrigIds :
         /\ inbound' = [inbound EXCEPT ![c] = Append(@, [type |-> "req", id |-> r, sn |-> sent + 1])]
         /\ reqOf' = [reqOf EXCEPT ![sent + 1] = [client |-> c, id |-> r]]
    /\ sent' = sent + 1
    /\ UNCHANGED <<proxyVars, newq, portOpen, registered, inOpen, outbound, outOpen,
                   deviceVars, respCount, now, status>>

\* A user sends some other packet (a command or data for the device).
UserSendRaw(c) ==
    /\ c <= registered /\ inOpen[c] /\ proxy \notin Stopped
    /\ Len(inbound[c]) < InboundCap /\ now <= SendHorizon
    /\ inbound' = [inbound EXCEPT ![c] = Append(@, Raw)]
    /\ UNCHANGED <<proxyVars, newq, portOpen, registered, inOpen, outbound, outOpen,
                   deviceVars, ghostVars, now, status>>

UserRecv(c) ==
    /\ proxy \notin Stopped /\ outOpen[c] /\ outbound[c] # <<>>
    /\ outbound' = [outbound EXCEPT ![c] = Tail(@)]
    /\ UNCHANGED <<proxyVars, newq, portOpen, registered, inbound, inOpen, outOpen,
                   deviceVars, ghostVars, now, status>>

\* The user drops its Sender, or its Receiver.
UserDropSender(c) ==
    /\ proxy \notin Stopped /\ inOpen[c] /\ inOpen' = [inOpen EXCEPT ![c] = FALSE]
    /\ UNCHANGED <<proxyVars, newq, portOpen, registered, inbound, outbound, outOpen,
                   deviceVars, ghostVars, now, status>>

UserDropReceiver(c) ==
    /\ proxy \notin Stopped /\ outOpen[c] /\ outOpen' = [outOpen EXCEPT ![c] = FALSE]
    /\ UNCHANGED <<proxyVars, newq, portOpen, registered, inbound, inOpen, outbound,
                   deviceVars, ghostVars, now, status>>

\* The line carries what the device sends only while both ends run at the
\* same rate; otherwise the transport decodes garbage (a protocol error that
\* is not Text).
OnLine(m) == IF portRate = devRate THEN m ELSE DevMsg("garbled", 0, 0, 0, 0)

\* The device answers a request it holds, in any order: user requests and
\* dev.port.rate.near with a reply (a 4-byte rate for the latter) or an
\* error; dev.port.rate with a reply, after which the device runs at the
\* target rate, or with an error.
DeviceAnswer ==
    /\ proxy \notin Stopped /\ linkOpen /\ Len(devRx) < DevRxCap
    /\ \E p \in devPending :
         /\ devPending' = devPending \ {p}
         /\ \/ /\ p.rpc = "user"
               /\ \E kind \in AnswerKinds, l \in ReplyLens, v \in DeviceRates :
                    devRx' = Append(devRx, OnLine(DevMsg(kind, p.id, p.sn, l, v)))
               /\ UNCHANGED devRate
            \/ /\ p.rpc = "near"
               /\ \E kind \in AnswerKinds, v \in DeviceRates :
                    devRx' = Append(devRx, OnLine(DevMsg(kind, p.id, 0, 4, v)))
               /\ UNCHANGED devRate
            \/ /\ p.rpc = "rate"
               /\ \E l \in ReplyLens : devRx' = Append(devRx, OnLine(DevMsg("reply", p.id, 0, l, Target)))
               /\ devRate' = "target"
            \/ /\ p.rpc = "rate" /\ "error" \in AnswerKinds   \* the device refuses the rate
               /\ devRx' = Append(devRx, OnLine(DevMsg("error", p.id, 0, 0, 0)))
               /\ UNCHANGED devRate
    /\ UNCHANGED <<proxyVars, userVars, linkOpen, devSession, emitted, ghostVars, now>>

\* The device sends a root Session heartbeat, stream data, or text: one
\* packet per second, until SendHorizon.
DeviceEmit ==
    /\ proxy \notin Stopped /\ linkOpen /\ Len(devRx) < DevRxCap /\ now <= SendHorizon
    /\ ~emitted /\ emitted' = TRUE
    /\ \E k \in NonRpcKinds :
         devRx' = Append(devRx, OnLine(DevMsg(k, 0, 0, 0, IF k = "hb" THEN devSession ELSE 0)))
    /\ UNCHANGED <<proxyVars, userVars, linkOpen, devPending, devRate, devSession, ghostVars, now>>

\* The root device restarts: a new session, the default rate, and the
\* requests it held are lost; its first Session heartbeat, at the default
\* rate, follows on an open link.  It takes the device's second.
DeviceRestart ==
    /\ proxy \notin Stopped /\ now <= SendHorizon
    /\ ~emitted /\ emitted' = TRUE
    /\ \E s \in Sessions \ {devSession} :
         /\ devSession' = s
         /\ IF linkOpen
            THEN /\ Len(devRx) < DevRxCap
                 /\ devRx' = Append(devRx, IF portRate = "default" THEN DevMsg("hb", 0, 0, 0, s)
                                                                  ELSE DevMsg("garbled", 0, 0, 0, 0))
            ELSE UNCHANGED devRx
    /\ devRate' = "default" /\ devPending' = {}
    /\ UNCHANGED <<proxyVars, userVars, linkOpen, ghostVars, now>>

\* The transport reports a fatal receive error.
DeviceFatal ==
    /\ proxy \notin Stopped /\ linkOpen /\ Len(devRx) < DevRxCap
    /\ devRx' = Append(devRx, DevMsg("fatal", 0, 0, 0, 0))
    /\ UNCHANGED <<proxyVars, userVars, linkOpen, devPending, devRate, devSession, emitted, ghostVars, now>>

\* The transport closes; what the device held is lost with it.  Like the
\* users, the transport acts within the time horizon.
LinkClose ==
    /\ proxy \notin Stopped /\ linkOpen /\ now <= SendHorizon
    /\ linkOpen' = FALSE /\ devPending' = {}
    /\ UNCHANGED <<proxyVars, userVars, devRx, devRate, devSession, emitted, ghostVars, now>>

\* Time passes while the proxy thread is blocked in ready_timeout; a step of
\* the thread itself takes no time.  The clock runs to TimeLimit, and on
\* while some deadline has not passed, the RateChanged watchdog has not
\* yet expired, or the thread is still retrying a lost device.
Tick ==
    /\ proxy = "running" /\ pc = "wait"
    /\ \/ now < TimeLimit
       \/ \E d \in DOMAIN rpcTimeouts : now <= d
       \/ device /\ rate = "RateChanged" /\ now - lastRx <= NoDataTimeout
       \/ ~device /\ now <= deviceTimeout     \* the select waits at most 1 s
    /\ now' = now + 1 /\ emitted' = FALSE
    /\ UNCHANGED <<proxyVars, userVars, devRx, linkOpen, devPending, devRate, devSession,
                   ghostVars>>

\* The proxy thread has ended; nothing of it moves again.
Ended ==
    /\ proxy \in Stopped
    /\ UNCHANGED vars

Environment ==
    \/ Port \/ DropPort
    \/ \E c \in ClientIds : UserSend(c)
    \/ \E c \in ClientIds : UserRecv(c)
    \/ \E c \in ClientIds : UserDropSender(c)
    \/ \E c \in ClientIds : UserDropReceiver(c)
    \/ DeviceAnswer \/ DeviceEmit \/ DeviceRestart \/ DeviceFatal \/ LinkClose

\* Whoever holds the Receiver of the status channel drops it.
DropStatus ==
    /\ status = "open" /\ proxy \notin Stopped /\ status' = "dropped"
    /\ UNCHANGED <<proxyVars, newq, portOpen, registered, inbound, inOpen, outbound, outOpen,
                   deviceVars, ghostVars, now>>

Next == ProxyStep \/ Environment \/ Tick \/ DropStatus \/ Ended

\* The proxy is one thread that never blocks except in the bounded select,
\* so it keeps taking steps.  Time keeps passing: Tick is enabled only while
\* the thread waits in the select, so it is strongly fair.  Users and the
\* device get no fairness: they may stop at any point.
Spec == Init /\ [][Next]_vars /\ WF_vars(ProxyStep) /\ SF_vars(Tick)

\* Users that also send packets other than RPC requests, without bound, and
\* the drain loop's handling of them.  Forwarding such a packet changes no
\* RPC state, so Spec leaves them out; they matter for progress only.
FloodStep == ForwardOther /\ Proceeds

FloodNext == Next \/ FloodStep \/ \E c \in ClientIds : UserSendRaw(c)

FloodSpec == Init /\ [][FloodNext]_vars /\ WF_vars(ProxyStep \/ FloodStep) /\ SF_vars(Tick)

\* A debug build (DebugBuild), where the increment that moves next_rpc_id
\* off its last value panics.  In a release build the step cannot happen.
DebugNext == Next \/ RpcIdOverflowPanic

DebugSpec == Init /\ [][DebugNext]_vars /\ WF_vars(ProxyStep \/ RpcIdOverflowPanic) /\ SF_vars(Tick)

-----------------------------------------------------------------------------
(* Properties *)

TypeOK ==
    /\ proxy \in {"init", "running"} \cup Stopped
    /\ pc \in {"top", "wait", "client", "new", "device"}
    /\ cur \in 0..NumClients
    /\ DOMAIN clients \subseteq ClientIds
    /\ \A c \in DOMAIN clients : clients[c] \in [timeout : RpcTimeouts, scope : {<<>>}, fd : BOOLEAN, fnr : BOOLEAN]
    /\ nextClientId \in 1..(NumClients + 1) /\ toDrop \subseteq ClientIds
    /\ nextRpcId \in WireIds
    /\ DOMAIN rpcMap \subseteq WireIds /\ \A w \in DOMAIN rpcMap : rpcMap[w] \in Entry
    /\ \A d \in DOMAIN rpcTimeouts : d \in Nat /\ rpcTimeouts[d] \subseteq WireIds
    /\ device \in BOOLEAN /\ deviceTimeout \in Nat /\ now \in Nat
    /\ rate \in RateStates /\ lastRx \in 0..now /\ lastSession \in Sessions \cup {0}
    /\ portRate \in {"default", "target"} /\ why \in Faults
    /\ newq \in Seq([timeout : RpcTimeouts, scope : {<<>>}, fd : BOOLEAN, fnr : BOOLEAN]) /\ portOpen \in BOOLEAN /\ registered \in 0..NumClients
    /\ inbound \in [ClientIds -> Seq(Request)] /\ outbound \in [ClientIds -> Seq(Response)]
    /\ inOpen \in [ClientIds -> BOOLEAN] /\ outOpen \in [ClientIds -> BOOLEAN]
    /\ devRx \in Seq(DevItem) /\ linkOpen \in BOOLEAN
    /\ devPending \subseteq [id : WireIds, sn : Serials \cup {0}, rpc : {"user", "near", "rate"}]
    /\ devRate \in {"default", "target"} /\ devSession \in Sessions
    /\ sent \in 0..MaxRequests /\ respCount \in [Serials -> Nat]
    /\ status \in {"none", "open", "dropped"}

\* rpc_map and rpc_timeouts describe the same set of outstanding RPCs: each
\* entry sits in the bucket of its own deadline and in no other, every bucket
\* id has an entry, and no bucket is empty.  forward_to_device,
\* rpc_restore and dispatch_rpc_timeouts each update both halves; the
\* unwraps in rpc_restore and dispatch_rpc_timeouts rely on this.
RemapConsistent ==
    /\ \A w \in DOMAIN rpcMap :
         /\ rpcMap[w].deadline \in DOMAIN rpcTimeouts
         /\ \A d \in DOMAIN rpcTimeouts : w \in rpcTimeouts[d] <=> d = rpcMap[w].deadline
    /\ \A d \in DOMAIN rpcTimeouts : rpcTimeouts[d] # {} /\ rpcTimeouts[d] \subseteq DOMAIN rpcMap

\* No request is answered twice: across device replies and errors, the
\* timeout sweep, the disconnect cancellation and the errors of
\* forward_to_device, the proxy produces at most one response per request.
AtMostOnceResponse == \A s \in Serials : respCount[s] <= 1

\* Every response in a client's outbound channel goes to the client that sent
\* the request it is filed under, with that request's original id restored
\* (the remap entry written by forward_to_device is read back by
\* rpc_restore and dispatch_rpc_timeouts).
ResponseToOriginator ==
    \A c \in ClientIds : \A i \in 1..Len(outbound[c]) :
        LET r == outbound[c][i]
        IN r.type \in {"reply", "error"} => reqOf[r.sn].client = c /\ reqOf[r.sn].id = r.id

\* Once the loop has seen the device gone, no RPC stays outstanding: the top
\* of the loop cancels all of them before the select, and forward_to_device
\* removes what it cannot send.
NothingOutstandingWithoutDevice ==
    (proxy = "running" /\ ~device /\ pc # "top") => rpcMap = <<>>

\* Request s has been taken by the proxy from its client's channel.
Taken(s) == s <= sent /\ \A c \in ClientIds : \A i \in 1..Len(inbound[c]) : inbound[c][i].sn # s

\* A request the proxy has taken from its client's channel is eventually
\* answered (by the device, the timeout sweep or a cancellation) unless the
\* proxy thread ends, even if the device never answers.
EveryRequestAnswered ==
    \A s \in Serials : Taken(s) ~> (respCount[s] >= 1 \/ proxy \in Stopped)

\* The proxy implements the RPC service of RpcService: a request is
\* unsent until a user sends it, queued while it sits in the user's inbound
\* channel, taken once the proxy has received it, and the responses counted
\* for it are the service's answers.
RequestPhase(s) == IF Taken(s) THEN "taken" ELSE IF s <= sent THEN "queued" ELSE "unsent"

Service == INSTANCE RpcService WITH
               Requests <- Serials,
               phase    <- [s \in Serials |-> RequestPhase(s)],
               answers  <- respCount,
               halted   <- proxy \in Stopped

\* Every behaviour of the proxy, with its users, its device and the clock,
\* is a behaviour of the RPC service: forward_to_device, rpc_restore,
\* dispatch_rpc_timeouts and cancel_active_rpcs together answer each taken
\* request exactly once, a panic loses at most the request in hand, and
\* while the thread runs every taken request is eventually answered.
RpcServiceRefined == Service!Spec

\* The engine's rate_change_state, last_session and port rate follow the
\* FSM table of the spec (RateFsm) across reconnects: every change is a
\* transition of the table, a new transport restarts the FSM, and while the
\* thread runs and a transport is open, QueryDeviceRate and SetDeviceRate
\* are eventually left (autonegotiation and its AutoRateWait).
RateFsmAbs == INSTANCE RateFsm WITH
    fsm <- rate, linked <- device, session <- lastSession, port <- portRate,
    halted <- proxy \in Stopped

RateFsmRefined == RateFsmAbs!Spec

\* A response answers the very request it is delivered for: the device's
\* reply to request src is handed out as the response to request sn only
\* when src = sn.
ReplyMatchesRequest ==
    \A c \in ClientIds : \A i \in 1..Len(outbound[c]) :
        outbound[c][i].type = "reply" => outbound[c][i].sn = outbound[c][i].src

\* A full or vanished client never stops the proxy thread: the proxy never
\* panics on the unwrap of a failed ProxyClient::send (try_send).
NoPanic == why # "send"

\* forward_to_device's next_rpc_id += 1 wraps around, as the protocol allows
\* for 16-bit wire ids: the proxy never panics with an arithmetic overflow,
\* however many requests it forwards.
NoOverflowPanic == why # "overflow"

\* Events are fire-and-forget: the proxy never panics in send_event, even
\* after whoever held the status channel's Receiver has dropped it.
NoEventPanic == why # "event"

-----------------------------------------------------------------------------
(* Properties of the rate autonegotiation *)


\* Every outstanding internal (client 0) RPC is the one request the FSM is
\* waiting for: autonegotiation sends dev.port.rate.near or dev.port.rate
\* and moves to the matching Waiting state in the same step, and a reply,
\* an error or a restart of the FSM never leaves a second one behind.
InternalRpcAwaited ==
    \A w \in DOMAIN rpcMap :
        rpcMap[w].client = 0 =>
            /\ rate \in {"WaitingDeviceRate", "WaitingNewRate"}
            /\ \A x \in DOMAIN rpcMap \ {w} : rpcMap[x].client # 0

\* When the device falls back to its default rate (a restart) while the port
\* runs at the target rate, the link carries only garbage; the RateChanged
\* watchdog then returns the port to the default rate, unless the device is
\* lost or the thread ends first.
NoDataReverts ==
    (device /\ portRate = "target" /\ devRate = "default")
        ~> (portRate = "default" \/ ~device \/ proxy \in Stopped)

\* A handshake that has sent its internal RPC is eventually completed or
\* abandoned (RateChanged or GaveUp) unless the device is lost or the thread
\* ends: internal RPCs carry a 1 s deadline, as client RPCs do.
HandshakeSettles ==
    (device /\ rate \in {"WaitingDeviceRate", "WaitingNewRate"})
        ~> (rate \notin {"WaitingDeviceRate", "WaitingNewRate"} \/ ~device \/ proxy \in Stopped)

\* The reply to dev.port.rate never panics the thread (its payload is
\* ignored by the protocol): internal_rpc_reply reads four bytes of every
\* internal reply.
NoShortReplyPanic == why # "reply_len"

\* Autonegotiation never panics the thread: a failed internal send (port
\* error or wire-id collision) or a failed revert of the rate is handled
\* like the failures of client traffic, not unwrapped.
NoAutonegUnwrapPanic == why \notin {"internal_send", "set_rate"}

=============================================================================
