----------------------------- MODULE RpcService -----------------------------
(***************************************************************************)
(* What the proxy of src/src/tio/proxy.rs promises its users about RPCs,   *)
(* with wire ids, deadlines, channels and the device abstracted away.  A   *)
(* user sends a request; the proxy takes it and answers it exactly once,   *)
(* with a reply, a device error, a timeout or a cancellation; a request    *)
(* the proxy refuses (OutOfMemory, Undefined) is taken and answered in one *)
(* step.  The service may stop (the proxy thread exits or panics), losing  *)
(* at most the one request it was handling; while it runs, every request   *)
(* it took is eventually answered.                                         *)
(***************************************************************************)
EXTENDS Naturals

CONSTANT Requests      \* the requests users may send

VARIABLES
    phase,    \* request -> "unsent", "queued" (in the user's channel) or "taken"
    answers,  \* request -> number of answers the service produced for it
    halted    \* the service has stopped

vars == <<phase, answers, halted>>

Init ==
    /\ phase = [r \in Requests |-> "unsent"]
    /\ answers = [r \in Requests |-> 0]
    /\ halted = FALSE

Submit(r) ==
    /\ ~halted /\ phase[r] = "unsent"
    /\ phase' = [phase EXCEPT ![r] = "queued"]
    /\ UNCHANGED <<answers, halted>>

Take(r) ==
    /\ ~halted /\ phase[r] = "queued"
    /\ phase' = [phase EXCEPT ![r] = "taken"]
    /\ UNCHANGED <<answers, halted>>

Refuse(r) ==
    /\ ~halted /\ phase[r] = "queued"
    /\ phase' = [phase EXCEPT ![r] = "taken"]
    /\ answers' = [answers EXCEPT ![r] = 1]
    /\ UNCHANGED halted

\* Several taken requests may be answered at once (a timeout sweep).
Answer(R) ==
    /\ ~halted /\ R # {}
    /\ \A r \in R : phase[r] = "taken" /\ answers[r] = 0
    /\ answers' = [r \in Requests |-> IF r \in R THEN 1 ELSE answers[r]]
    /\ UNCHANGED <<phase, halted>>

\* The service stops, possibly in the middle of taking a request.
Halt ==
    /\ ~halted /\ halted' = TRUE
    /\ \/ phase' = phase
       \/ \E r \in Requests : phase[r] = "queued" /\ phase' = [phase EXCEPT ![r] = "taken"]
    /\ UNCHANGED answers

AnswerSome == \E R \in SUBSET Requests : Answer(R)

Next ==
    \/ \E r \in Requests : Submit(r) \/ Take(r) \/ Refuse(r)
    \/ AnswerSome
    \/ Halt

\* What the service may do, without what it must eventually do.
SafetySpec == Init /\ [][Next]_vars

\* Answering is the service's own obligation; users need not send.
Spec == Init /\ [][Next]_vars /\ WF_vars(AnswerSome)

=============================================================================
