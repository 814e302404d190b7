------------------------------ MODULE RateFsm ------------------------------
(***************************************************************************)
(* The rate autonegotiation FSM as the spec's table (section 4.4) states   *)
(* it, with what triggers a transition left to the environment: the       *)
(* replies of the device, its heartbeats and the loss of data are not      *)
(* visible here, only which states may follow which.  The FSM lives in a   *)
(* device record, so it is initialised whenever a transport opens and      *)
(* moves only while one is open.  The proxy may halt at any time.          *)
(*                                                                         *)
(* The proxy itself drives two transitions, QueryDeviceRate and            *)
(* SetDeviceRate; they are weakly fair.  The others wait on the device.    *)
(***************************************************************************)
EXTENDS Naturals

CONSTANTS
    TargetDiffers,   \* the port has rate_info and target_bps # default_bps
    Sessions         \* the session numbers root heartbeats may carry

States == {"DoNothing", "WaitingForSession", "QueryDeviceRate", "WaitingDeviceRate",
           "SetDeviceRate", "WaitingNewRate", "RateChanged", "GaveUp"}

\* A fresh device record: autonegotiation only if the rates differ.
Initial == IF TargetDiffers THEN "WaitingForSession" ELSE "DoNothing"

VARIABLES
    fsm,      \* rate_change_state of the current (or last) device record
    linked,   \* a transport is open
    session,  \* last_session
    port,     \* the rate the port runs at: "default" or "target"
    halted    \* the proxy thread has ended

vars == <<fsm, linked, session, port, halted>>

TypeOK ==
    /\ fsm \in States /\ linked \in BOOLEAN /\ session \in Sessions \cup {0}
    /\ port \in {"default", "target"} /\ halted \in BOOLEAN

Init ==
    /\ fsm = "DoNothing" /\ linked = FALSE /\ session = 0
    /\ port = "default" /\ halted = FALSE

\* A transport opens at the default rate with a fresh FSM.
Connect ==
    /\ ~halted /\ ~linked /\ linked' = TRUE
    /\ fsm' = Initial /\ session' = 0 /\ port' = "default"
    /\ UNCHANGED halted

Disconnect ==
    /\ ~halted /\ linked /\ linked' = FALSE
    /\ UNCHANGED <<fsm, session, port, halted>>

\* A transition of the table while the transport is open.
Move(from, to) ==
    /\ ~halted /\ linked /\ fsm = from /\ fsm' = to
    /\ UNCHANGED <<linked, halted>>

\* A root Session heartbeat: the first one starts the handshake; a changed
\* session (the device restarted) retries a negotiation that gave up.
Heartbeat(s) ==
    /\ ~halted /\ linked /\ fsm # "DoNothing" /\ session' = s
    /\ fsm' = CASE fsm = "WaitingForSession"          -> "QueryDeviceRate"
                [] fsm = "GaveUp" /\ s # session      -> "QueryDeviceRate"
                [] OTHER                              -> fsm
    /\ UNCHANGED <<linked, port, halted>>

\* dev.port.rate.near is sent.
Query == Move("QueryDeviceRate", "WaitingDeviceRate") /\ UNCHANGED <<session, port>>

\* The reported rate is compatible, or it is not (or the RPC failed).
DeviceRate ==
    \/ Move("WaitingDeviceRate", "SetDeviceRate") /\ UNCHANGED <<session, port>>
    \/ Move("WaitingDeviceRate", "GaveUp") /\ UNCHANGED <<session, port>>

\* dev.port.rate is sent.
SetRate == Move("SetDeviceRate", "WaitingNewRate") /\ UNCHANGED <<session, port>>

\* The device took the new rate and the port followed, or it did not.
NewRate ==
    \/ Move("WaitingNewRate", "RateChanged") /\ port' = "target" /\ UNCHANGED session
    \/ Move("WaitingNewRate", "GaveUp") /\ UNCHANGED <<session, port>>

\* The watchdog: no data for too long reverts the port and gives up.
NoData == Move("RateChanged", "GaveUp") /\ port' = "default" /\ UNCHANGED session

Halt == ~halted /\ halted' = TRUE /\ UNCHANGED <<fsm, linked, session, port>>

Next ==
    \/ Connect \/ Disconnect
    \/ \E s \in Sessions : Heartbeat(s)
    \/ Query \/ DeviceRate \/ SetRate \/ NewRate \/ NoData
    \/ Halt

Spec == Init /\ [][Next]_vars /\ WF_vars(Query) /\ WF_vars(SetRate)

====
