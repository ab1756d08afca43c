----------------------------- MODULE MCReasoning -----------------------------
(* One turn of a Spirit that compresses its context, without the rest of   *)
(* Services: KeepRecent iterations are to be kept, and one is not.         *)
EXTENDS Reasoning, TLC

CONSTANTS look, hand, open, close, home

MCSubject == [s \in {} |-> home]
MCEchoes  == home :> 1

\* KeepRecent of docs/reasoning.md is 3; with 1 and with 2 the context is as short as it can be.
MCPolicy == {
    [durable |-> FALSE, enforce |-> TRUE, parallel |-> FALSE, stream |-> FALSE,
     window |-> 0, keep |-> keep, limit |-> 2, rounds |-> 0, plan |-> FALSE,
     grounding |-> "off", minConfidence |-> 0, format |-> FALSE,
     message |-> TRUE, requests |-> {<<look>>}] : keep \in {1, 2}}
==============================================================================
