------------------------------- MODULE MCWeave -------------------------------
(* Small instances of Weave: one to three sessions, deliveries of one to three Pulses. *)
EXTENDS Weave, TLC

CONSTANTS a1, a2, a3, p1, p2, p3, k1, k2, k3

\* p1 is delivered twice; the Link's Scouts move p1 and p2 each to the session the other came
\* from, so that two locks are taken in opposite orders.  The Scouts of its Spirit leave p2
\* there, move it back, or on to a session that is not locked.
MCPulseOf       == a1 :> p1 @@ a2 :> p1 @@ a3 :> p2
MCKeyOf         == p1 :> k1 @@ p2 :> k2
MCRekeyOf       == p1 :> k2 @@ p2 :> k1
MCSpiritRekeyOf == p1 :> {k2} @@ p2 :> {k1, k2, k3}

\* Three Pulses of one session, one delivery each.
MCPulseOfInbox       == a1 :> p1 @@ a2 :> p2 @@ a3 :> p3
MCKeyOfInbox         == [p \in Pulse |-> k1]
MCSpiritRekeyOfInbox == [p \in Pulse |-> {k1}]

\* One Pulse delivered twice.
MCPulseOfRetry == a1 :> p1 @@ a2 :> p1
=============================================================================
