# TLA+ models of the twinleaf-rust proxy

This directory holds TLA+ models of the device proxy in `src/src/tio/proxy.rs`.
They are checked with TLC. The proxy is the one concurrent component of the
library. A single thread (`Proxy::run`) owns the connection to a Twinleaf sensor
and multiplexes it between any number of users. Each user obtained a pair of
crossbeam channels from `Port::port()`.

## 1. Inventory

### Components and their state

| Component | Code | State |
|---|---|---|
| Proxy main loop | `Proxy::run` (472–653) | `device`, `device_timeout`, `clients_to_drop`, the loop position |
| RPC remap table | `forward_to_device`, `rpc_restore`, `dispatch_rpc_timeouts`, `process_rpc_timeouts`, `cancel_active_rpcs` (238–343, 459–464) | `next_rpc_id: u16`, `rpc_map: wire id -> {id, client, route, timeout}`, `rpc_timeouts: deadline -> set of wire ids` |
| Client records | `ProxyClient`, `ProxyClient::send` (45–74) | `clients: id -> {tx, rx, rpc_timeout, scope, forward_*}`, `next_client_id` |
| Rate autonegotiation | `RateChange`, `ProxyDevice`, `autonegotiation`, `internal_rpc_*` (90–170, 344–457) | `rate_change`, `last_rx`, `session`, `last_session` |
| Public port | `Port::new`, `Port::port` (656–735) | the sender of the new-client channel (capacity 5) |
| Status events | `send_event` (466–470) | an optional unbounded sender |
| Packet builders and RPC codecs | `util.rs` `PacketBuilder`, `TioRpcRequestable`, `TioRpcReplyable` | none (pure) |

### Operations
- **Client request.** A client sends an RPC request. `forward_to_device` takes a wire id. It refuses the request with `OutOfMemory` when the id is still in use. Otherwise it records the original id and client, and sends the packet to the device. On success it files the wire id under its deadline. On failure it removes the entry and bounces `Undefined` back to the client.
- **Device reply.** A device reply or error goes through `rpc_restore`. This removes the entry and its deadline, restores the original id and delivers the packet to the client, if the client is still there.
- **Timeout sweep.** At the top of every iteration, the sweep answers every entry whose deadline has passed with a `Timeout` error.
- **Transport close.** When the transport closes, the proxy drops the device. Every outstanding RPC is cancelled with `Undefined`. The proxy tries to reconnect until `reconnect_timeout` has passed, and then exits.
- **Client drop.** A client whose channel has disconnected is dropped at the top of the next iteration.
- **New client.** New clients arrive over the new-client channel.
- **Fan-out.** A heartbeat or stream-data packet from the device goes to every client whose forwarding policy admits it, through an unwrapped `try_send`.
- **Rate autonegotiation.** When the port's target rate differs from its default, the proxy waits for a root Session heartbeat. It then asks the device for the nearest rate it supports (`dev.port.rate.near`), and accepts a value within 1.5 % of the target. Once `rpc_map` is empty, it asks the device to switch (`dev.port.rate`), and on the reply switches the port (`set_rate`). With the new rate, a watchdog reverts the port to the default rate after more than 1 s without data. The two requests are internal RPCs, client 0 of the same remap table, with a 1 s deadline.
- **Codecs.** `to_request` encodes RPC arguments little-endian; `from_reply` decodes a reply and rejects leftover bytes.

### Interactions
There are three kinds of thread:
- the users' threads, each owning one channel pair;
- the transport's threads, which feed `tio_port.recv` and may close it;
- the proxy thread, which owns all the proxy state.

They interact only through bounded channels. Every send from the proxy to a
user is a `try_send` followed by `unwrap`.

### Hard behaviours
- Interleavings of users, the device and the proxy's select and drain loop.
- Replies that race their own timeouts.
- Wire ids reused after wrap-around.
- Transport loss in the middle of a drain.
- A device restart in the middle of the rate handshake, and internal RPCs that time out.
- A device back at its default rate while the port runs at the target rate.
- Full or abandoned client channels.

`PROJECT.json` (`hazards`) lists each of these at its line.

## 2. Modules

| Module | Models |
|---|---|
| `ProxyEngine.tla` | the proxy thread, its users, the device and the clock |
| `RpcService.tla` | the abstract RPC service the proxy promises its users |
| `RateFsm.tla` | the rate autonegotiation FSM the spec's table promises |
| `ClientRecord.tla` | `ProxyClient`: the forwarding policy and the scope-filtered `send` (pure operators used by `ProxyEngine`) |
| `RpcCodec.tla` | the RPC argument and reply codecs of `util.rs` |
| `MCProxyEngine.tla`, `MCRpcCodec.tla` | the constants of the runs |

### `ProxyEngine.tla`
This module models the proxy thread, the users and the device. The proxy
thread is a program-counter machine. Its `pc` takes these values:

| pc | Where the code is |
|---|---|
| `top` | `'mainloop` head |
| `wait` | `select` |
| `client`, `new`, `device` | the drain loop of one queue |

The thread's steps are these actions:

| Action | Code |
|---|---|
| `Start` | `run` 472–481: first `try_setup_device`, or exit with `FailedToConnect` |
| `LoopTop` | 485–509. It runs `process_rpc_timeouts`. Without a device it also runs `cancel_active_rpcs` and `try_setup_device` (`OpenLink`), and it exits when `device_timeout` has passed. With a device that needs it, it runs `autonegotiation` (`Autonegotiation`, 402–457). It then drops `clients_to_drop` and computes the ready queues. |
| `SelectClient`, `SelectNewClient`, `SelectDevice`, `SelectTimeout` | the select (510–528, 547, 565) |
| `ForwardRequest`, `ForwardOther`, `ClientDrainEnd` | a client's RPC request, or another packet, which `forward_to_device` sends without remapping and always reports Ok, and the end of that drain (529–546, 255–307) |
| `AcceptClient`, `NewClientDrainEnd` | 547–564 |
| `RestoreResponse` | 571–613: a device reply or error. A user's goes back to its client; an internal one goes to `internal_rpc_reply` (`InternalRpcReply`, 350–391) or `internal_rpc_error`. |
| `RecvNonRpc` | 614–619 with `try_recv` 126–166: a heartbeat (which drives the FSM) or stream data, fanned out through `ClientRecord`'s `Send` (`ProxyClient::send` 54–74) |
| `RecvProtocolError`, `FatalRecv`, `DeviceDrainEnd` | 623–649: a protocol error, a fatal receive error, and the empty or disconnected transport |

The state of the rate FSM is `rate` (`rate_change_state`), `lastRx`,
`lastSession` and `portRate`, the rate `set_rate` last gave the port. `why`
records which `unwrap` panicked the thread.

`status` is the optional `status_queue`: `"none"`, `"open"`, or `"dropped"`
once whoever holds its `Receiver` has dropped it (`DropStatus`). `Emits`
names every thread step that calls `send_event` (466–470). When the
receiver is dropped, such a step becomes `SendEventPanic`, the `unwrap` of
`send` at line 468. With `DebugBuild`, a step that moves `next_rpc_id` off
the last wire id becomes `RpcIdOverflowPanic`, the overflow panic of
`+= 1` at line 262. `ProxyStep` runs each thread action only when neither
panic applies (`Proceeds`).

`Spec` is the release build with users that send only RPC requests. Two
specifications extend its next-state relation:
- `FloodSpec` adds users that send any number of other packets (`UserSendRaw`), and the drain loop forwarding them (`FloodStep`, `ForwardOther`). Forwarding such a packet changes no RPC state, so these steps matter only for progress.
- `DebugSpec` adds `RpcIdOverflowPanic`, which cannot happen in a release build.

The other threads are environment actions:

| Action | What it models |
|---|---|
| `Port`, `DropPort` | `Port::port` (a timeout and the two forwarding flags) and dropping the `Port` |
| `UserSend`, `UserSendRaw`, `UserRecv`, `UserDropSender`, `UserDropReceiver` | a user's traffic and the two ends of its channels. A user sends at most `MaxRequests` requests. Under `FloodSpec` it may also send any number of other packets. |
| `DeviceAnswer` | the sensor answering a pending request in any order, or never. A user request gets a reply or an error; `dev.port.rate.near` gets a 4-byte rate or an error; `dev.port.rate` gets a reply, after which the device runs at the target rate, or an error. |
| `DeviceEmit`, `DeviceRestart` | a heartbeat (with the device's session) or stream data; a restart into a new session at the default rate, losing what the device held, followed by its first heartbeat. The device gets one of these per second. |
| `DeviceFatal`, `LinkClose` | a fatal port error; the transport closing |
| `Tick` | the clock |
| `DropStatus` | the holder of the status `Receiver` dropping it |

How the data is abstracted:
- Packets are records.
- Every client has the root scope and every packet the root route, where `ClientRecord`'s scope filter passes everything.
- The wire-id space is `WireIdSpace` ids and wraps, as `u16` addition does in a release build. With `DebugBuild` the step off the last id panics instead.
- Events carry no payload: what matters is that a step sends one.
- A ghost serial `sn` rides on each request through the device and back, so that properties can say which request a response answers.
- `panic` is a proxy state reached wherever the code unwraps a failing call.
- A line rate is `"default"` or `"target"`. The line carries what the device sends only while the port and the device run at the same rate. Otherwise every packet arrives as undecodable bytes (a protocol error other than `Text`).
- One clock tick is one second. The internal RPC deadline (1 s) and the watchdog's limit (more than 1000 ms) are one tick.
- The 1.5 % test is exact integer arithmetic on the model's rates, where the code's `f64` computation is exact too.

The refinement mapping `Service` maps the engine onto `RpcService`:
- a request is `"unsent"` until a user sends it;
- it is `"queued"` while it is in the user's inbound channel;
- it is `"taken"` once the proxy has received it;
- its answers are `respCount`;
- the service has halted once the thread has exited or panicked.

### `RpcService.tla`
This is the abstract specification. A request is submitted, then taken, then answered once. A refusal takes and answers it in one step. A timeout sweep may answer several requests at once. The service may halt, possibly in the middle of taking a request. While it runs, answering is weakly fair.

### `RateFsm.tla`
This is the FSM table of spec section 4.4 as an abstract specification. Only which state may follow which is stated; the device's replies, heartbeats and silence are hidden. A new transport starts a fresh FSM at the default port rate. Transitions happen only while a transport is open. A root `Session` heartbeat starts the handshake, or restarts one that gave up when the session changed. The port runs at the target rate from a successful `dev.port.rate` until the `NoData` watchdog. The two transitions the proxy takes on its own (`QueryDeviceRate`, `SetDeviceRate`) are weakly fair. The ones that wait on the device are not: the table promises no timeout for them, so a handshake may stall there (handshake_stuck) without breaking the refinement.

The refinement mapping `RateFsmAbs` maps the engine onto `RateFsm`:
- `fsm` is `rate`, `session` is `lastSession`, `port` is `portRate`;
- `linked` is `device`, the presence of a `ProxyDevice`;
- `halted` is the thread having exited or panicked.

### `ClientRecord.tla`
`ClientRecord` translates `ProxyClient::send` (54–74). A client is a record of its scope and forwarding flags, and a packet is a record of its type and routing. `DeviceRoute` is not under `src/`, so `InScope` and `RelativeRoute` follow the spec's description of `relative_route` (section 3): a route lies within a scope when the scope is a prefix of it.

### `RpcCodec.tla`
This module models the `to_request`, `from_reply_prefix` and `from_reply` implementations for these types:
- `()`;
- the integer types;
- strings (`from_utf8_lossy`);
- pairs with a fixed-size first component.

The type descriptors are records built by `Ty` and `Pair`. The operators recurse over these descriptors, and `FromLeBytes` folds the bytes with `FoldRight`. One exchange is a small state machine:
- a value is encoded as its reply;
- the reply may lose its last byte or gain a pad byte, up to `MaxEdits` times;
- `Decode` runs `from_reply`.

## 3. Runs

| Run | Cfg | Expect | What it shows |
|---|---|---|---|
| remap_safety | `ProxyEngine.cfg` | pass | `TypeOK` (with `next_rpc_id` kept within the wire-id space by the wrap), `RemapConsistent` (every map entry is filed under its own deadline and nothing else is filed), `AtMostOnceResponse`, `ResponseToOriginator`, `NothingOutstandingWithoutDevice` (at the select, no RPC is outstanding while the device is gone) |
| auto_rate | `ProxyEngineAutoRate.cfg` | pass | `RemapConsistent`, `RateFsmRefined` (the FSM state, `last_session` and the port rate follow the spec's FSM table, restarting on every new transport, and the proxy leaves `QueryDeviceRate` and `SetDeviceRate` on its own), `InternalRpcAwaited` (an internal RPC is outstanding only while the FSM waits for it, and never two), `NoDataReverts` (a device back at its default rate makes the watchdog revert the port) |
| rpc_service | `ProxyEngineService.cfg` | pass | `RpcServiceRefined`: with heartbeats and stream data fanned out on the same channels, the proxy implements `RpcService`, liveness included. Under the refinement mapping, the service's fair `AnswerSome` is `EveryRequestAnswered`: a request the proxy took is eventually answered by the device, a timeout or a cancellation, or the thread ends. |
| conversions | `RpcCodec.cfg` | pass | `RoundTrip` (`from_reply` inverts `to_request`; a pair decodes its second part from what the first leaves), `AcceptsOnlyEncodings` (a fixed-size reply is accepted only if it is exactly an encoding of an in-range value) |
| stale_reply | `ProxyEngineStaleReply.cfg` | violation | `ReplyMatchesRequest`: a late reply to a timed-out request is delivered to a newer request that was given the same wire id. One user suffices; with two, the newer request may be of the other user. |
| unwrap_panic | `ProxyEnginePanic.cfg` | violation | `NoPanic`: a user that dropped its receiver makes the proxy thread panic on the `unwrap` at line 534 |
| handshake_stuck | `ProxyEngineHandshake.cfg` | violation | `HandshakeSettles`: an internal RPC that times out is dropped silently, and the FSM waits forever |
| short_rate_reply | `ProxyEngineShortReply.cfg` | violation | `NoShortReplyPanic`: a short reply to `dev.port.rate` panics `internal_rpc_reply` |
| autoneg_unwrap | `ProxyEngineAutonegPanic.cfg` | violation | `NoAutonegUnwrapPanic`: a failed internal send panics `autonegotiation` |
| status_unwrap | `ProxyEngineStatus.cfg` | violation | `NoEventPanic`: after the status `Receiver` is dropped, the next event (here `SensorConnected` at start-up) panics the proxy thread |
| rpcid_overflow | `ProxyEngineOverflow.cfg` | violation | `NoOverflowPanic` under `DebugSpec`: the second request the proxy forwards takes the last wire id, and `next_rpc_id += 1` panics instead of wrapping |
| drain_starvation | `ProxyEngineStarve.cfg` | violation | `EveryRequestAnswered` under `FloodSpec`: a user that keeps its inbound channel non-empty holds the thread in the client drain, so the timeout sweep never runs |

Each property of a passing run has a mutant in `PROJECT.json`. A mutant is a
one-definition change of the kind a plausible bug would make, such as a
dropped guard, an off-by-one or a missing reset. Under the run's own
configuration, TLC finds the property violated by its mutant.

### Bounds
- **remap_safety** uses 2 users, one wire id, 2 requests, channels of 1 packet, one timeout value and a clock up to 1. With a single wire id, the second request either collides (`OutOfMemory`) or reuses an id freed by a reply, a timeout or a cancel. Channels of 1 packet make `try_send` fail on a full channel. This run has `reconnect_timeout` None, so a lost device makes the loop exit one tick later (`FailedToReconnect`). The other runs reconnect within 1 s. About 4.2M states; about 1 min.
- **rpcid_overflow** uses one user, two wire ids, two requests and a debug build. Two ids stand for the 65536 of a `u16`: the step off the last one is the same.
- **status_unwrap** uses one user, one request, one timeout value, fanned-out heartbeats and stream data, and a status channel that may be absent or open. The panic needs only the drop and one event.
- **auto_rate** also lets the status channel be absent or open, so that `DropStatus` and `SendEventPanic` occur in a passing run.
- **drain_starvation** uses one user, one request and an inbound channel of one packet. The flooding user refills the channel after each packet the drain takes. That single cycle is the starvation.
- **auto_rate** and the three autonegotiation violation runs use no users. This keeps the run small: one user multiplies it past TLC's reach. Their other bounds:
  - one wire id, shared by both internal RPCs;
  - a device that reports 249 (compatible with the target 250) or 200 (not compatible);
  - two sessions, so that a restart is visible.

  With one wire id, a second internal RPC sent while one is outstanding collides.
- **rpc_service** uses one user with either of two timeout values and every combination of the forwarding flags, device replies and errors, heartbeats and stream data, one request and channels of 1 packet. A fanned-out packet can therefore fill the channel a response needs. About 590k states, 2 min.
- **stale_reply** needs one user, two wire ids and three requests. The third request must take the first request's id after a second request has moved the counter on.
- **conversions** covers:
  - every `u8` and `i8` value;
  - the `u16` and `i16` values at the byte and sign boundaries;
  - three ASCII strings;
  - three pair types, one of them nested;
  - up to two bytes cut off or added (a zero byte, or `0xFF`, which is never valid UTF-8).

  Widths of 32 and 64 bits are instances of the same macro. Their values do not fit TLC's 32-bit integers.

Every action of `Spec`, and every disjunct of every action, fires in the passing runs. The extra steps of `FloodSpec` and `DebugSpec` occur in drain_starvation and rpcid_overflow.

### Fairness
- The proxy thread is weakly fair (`WF_vars(ProxyStep)`). It never blocks except in the select, and `select_timeout` guarantees that it leaves the select.
- `Tick` is strongly fair. Time advances only while the proxy waits in the select, so `Tick` is enabled only intermittently. The clock runs until `TimeLimit`, on while a deadline is pending, on while the watchdog of `RateChanged` has not yet expired, and on while the thread retries a lost device. While the device is absent, the select waits at most 1 s (line 494). Users, the transport and the device act only up to `TimeLimit`.
- Weak fairness of the thread does not rescue the drain loop. In drain_starvation, the thread takes a step in every state of the cycle, so the cycle is fair.
- Users and the device get no fairness. The device may never answer, and that is exactly what the timeouts are for.
- The device sends at most one heartbeat, stream packet or restart per second. Without this budget it could flood the drain loop forever within a single instant.
- `RpcService` makes answering weakly fair. That is what the engine's timeouts provide.
- `RateFsm` makes `QueryDeviceRate` and `SetDeviceRate` weakly fair. With a device, every loop iteration runs `autonegotiation`, and the thread is weakly fair. `SetDeviceRate` also waits for `rpc_map` to empty. auto_rate has no users, and the internal RPCs end by reply, error or timeout, so the map empties. With users that always keep a request outstanding, it would not empty (line 423).

## 4. Findings
- **Panic on a full or dropped client channel.** The spec says a full queue drops the packet for that one client. The code `unwrap`s `try_send` at lines 328, 534, 590, 612 and 617. One slow or vanished user therefore stops the proxy for everybody.
- **Late reply misdelivered after a timeout.** A timed-out wire id returns to the pool. A late device reply to it is restored to whichever request holds the id next.
- **Handshake stalls after an internal timeout.** `dispatch_rpc_timeouts` drops a timed-out internal RPC (line 319) because client 0 is not a client. A late answer is then an unknown wire id. The FSM stays in `WaitingDeviceRate` or `WaitingNewRate` until the transport reconnects. The query is lost when the device restarts mid-handshake, and a session change is acted on only in `GaveUp` (line 142). The spec's FSM table has no timeout transition for these states either.
- **A short `dev.port.rate` reply panics.** `internal_rpc_reply` slices four bytes of every internal reply (line 352). The spec says this reply is ignored.
- **Drain starvation.** The client drain loop (line 529) runs until the queue is empty, and timeouts are swept only at the loop top. A client that keeps sending therefore stops every timeout and every other queue. The spec says draining one source per iteration "prevents starvation" (section 4.3). Its example 2 expects a `Timeout` within 100–110 ms.
- **Dropped status receiver panics.** `send_event` `unwrap`s `send` (line 468). Once the receiver is dropped, the next event stops the proxy. The spec calls events fire-and-forget to an optional sink.
- **Debug-build id overflow.** `next_rpc_id += 1` (line 262) panics at 65535 in a debug build. The crate sets no profile, so the default debug profile checks overflow. The spec allows the 16-bit wrap (section 4.2), which only a release build performs. rpcid_overflow reaches this panic.
- **Autonegotiation unwraps.** A failed internal send (lines 418 and 436), whether a port error or a wire-id collision, panics the thread. So does a failed revert of the rate (line 449). The spec says forwarding failures must not crash the loop, and it lists `SetRateFailed` as an event.

## 5. Not modelled, and why
- **Scopes.** The engine's clients all have the root scope, and `ProxyClient::recv` (76–79), which only makes a route absolute, is the identity there. `DeviceRoute` is not under `src/`: a model of other scopes would check the spec's route operations against themselves rather than the code.
- **A full status channel.** The status sender may be a bounded channel that nobody reads. `send` would then block the thread. The model treats an open channel as unbounded.
- **Unbounded requests.** Users send at most `MaxRequests` RPC requests; only their other packets are unbounded. `SetDeviceRate` waits while `rpc_map` is non-empty (line 423). Starving it needs a user that always keeps an RPC outstanding, that is, unboundedly many requests, so in the model `rpc_map` always empties and the wait ends.
- **Packet contents.** `f32` and `f64` codecs, the heartbeat builders and the transport's byte codec are not modelled. The transport is outside `src/`.

Possible next steps:
- `SetDeviceRate` starvation, in a run with a negotiating device and one user;
- the blocking `Port::port` send on a full new-client channel (line 706) behind a starved select.
