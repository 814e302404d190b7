---------------------------- MODULE ClientRecord ----------------------------
(***************************************************************************)
(* ProxyClient of src/src/tio/proxy.rs, the proxy's record of one user:    *)
(* its forwarding policy and the scope-filtered send.  A client is a       *)
(* record with fields scope (a route), fd (forward_data) and fnr           *)
(* (forward_nonrpc); a packet is a record with fields type and routing.    *)
(* A route is a sequence of port numbers from the root device.             *)
(*                                                                         *)
(* DeviceRoute is not under src/: InScope and RelativeRoute are the route  *)
(* operation as spec section 3 states it.                                  *)
(***************************************************************************)
LOCAL INSTANCE Sequences
LOCAL INSTANCE SequencesExt

\* relative_route succeeds: abs lies within the scope.
InScope(scope, abs) == IsPrefix(scope, abs)

\* DeviceRoute::relative_route: the suffix of abs below the scope.
RelativeRoute(scope, abs) == SubSeq(abs, Len(scope) + 1, Len(abs))

\* ProxyClient::send's forwarding policy: RPC payloads (request, reply,
\* error) always pass, StreamData only with forward_data, anything else only
\* with forward_nonrpc.
Admits(cl, type) ==
    \/ type \in {"req", "reply", "error"}
    \/ type = "data" /\ cl.fd
    \/ type \notin {"req", "reply", "error", "data"} /\ cl.fnr

\* What ProxyClient::send hands to try_send: a packet outside the scope, or
\* one the policy refuses, is dropped with Ok(()) (here the empty set);
\* otherwise the packet goes out with its routing made relative to the scope.
Send(cl, pkt) ==
    IF InScope(cl.scope, pkt.routing) /\ Admits(cl, pkt.type)
    THEN {[pkt EXCEPT !.routing = RelativeRoute(cl.scope, pkt.routing)]}
    ELSE {}

====
