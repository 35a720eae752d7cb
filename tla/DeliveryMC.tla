----------------------------- MODULE DeliveryMC -----------------------------
(***************************************************************************)
(* The two ways a notification leaves the backend, checked for liveness      *)
(* together: pushed by the workers to the devices (PushOutbox) and told to    *)
(* the open clients (Realtime).  They share no state and no fairness: the     *)
(* channel chosen at the start is the one that moves.                         *)
(***************************************************************************)
EXTENDS PushOutboxMC, Realtime

CONSTANTS a1, a2, c1, c2

VARIABLE channel

SocketMember == (c1 :> a1) @@ (c2 :> a2)

DeliveryInit == Init /\ RealtimeInit /\ channel \in {"push", "socket"}

OnPush == channel = "push" /\ UNCHANGED <<channel, realtimeVars>>
OnSocket == channel = "socket" /\ UNCHANGED <<channel, vars>>

DeliveryNext == (Next /\ OnPush) \/ (RealtimeNext /\ OnSocket)

deliveryVars == <<vars, realtimeVars, channel>>

\* The workers and the clock, as in PushOutbox; the event loop resumes every
\* coroutine whose await is over, and an await ends: the receives have timeouts,
\* a send to a client that hangs is ended by the keepalive of the server.
DeliverySpec ==
    /\ DeliveryInit /\ [][DeliveryNext]_deliveryVars
    /\ \A w \in Workers : WF_deliveryVars(WorkerStep(w) /\ OnPush)
    /\ \A d \in Deliveries : WF_deliveryVars(TimePasses(d) /\ OnPush)
    /\ \A s \in Sockets : WF_deliveryVars(Coroutine(s) /\ OnSocket)
=============================================================================
