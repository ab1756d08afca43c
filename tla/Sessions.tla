------------------------------ MODULE Sessions ------------------------------
(* What a memory key promises to those who talk under it: "for a given       *)
(* MemoryKey, only one Pulse processes at a time" (docs/architecture.md), on *)
(* the memory that the turn before it left, and what it leaves has all of    *)
(* that.                                                                     *)

CONSTANTS Session, Turn, Message,
          Gone      \* no memory: never saved, or its ttl is over

VARIABLES
    memory,  \* memory[s]: the messages remembered, or Gone
    work,    \* work[s]: the turn that works on s with what it will leave, if any
    misread  \* sessions loaded while the stores were failing

Empty ==
    /\ memory = [s \in Session |-> Gone]
    /\ work = [s \in Session |-> {}]
    /\ misread = {}

\* A turn that works on no other session starts on what is remembered.
Open(s, w) ==
    /\ w \in Turn \X SUBSET Message
    /\ \A r \in Session : \A v \in work[r] : v[1] # w[1]
    /\ work' = [work EXCEPT ![s] = {w}]
    /\ memory' = [memory EXCEPT ![s] = w[2]]

\* What is gone is put together again.
Start(s, w) == Open(s, w) /\ memory[s] \in {w[2], Gone} /\ UNCHANGED misread
Misread(s, w) == Open(s, w) /\ misread' = misread \cup {s}

\* It adds what the user wrote.
Add(s, w, v) ==
    /\ v[1] = w[1] /\ w[2] \subseteq v[2] /\ v[2] \subseteq Message
    /\ work' = [work EXCEPT ![s] = {v}]
    /\ UNCHANGED <<memory, misread>>

\* What it leaves has all that was there: a memory is trimmed by its size alone, which is not
\* represented.
Commit(s, w) ==
    /\ memory[s] = Gone \/ memory[s] \subseteq w[2]
    /\ memory' = [memory EXCEPT ![s] = w[2]]
    /\ UNCHANGED <<work, misread>>

\* It ends, committed or not.
Close(s) == work' = [work EXCEPT ![s] = {}] /\ UNCHANGED <<memory, misread>>

Forget(s) == memory' = [memory EXCEPT ![s] = Gone] /\ UNCHANGED <<work, misread>>

Conversing ==
    \E s \in Session :
      \/ work[s] = {} /\ \E w \in work'[s] : Start(s, w) \/ Misread(s, w)
      \/ \E w \in work[s] : Commit(s, w) \/ \E v \in work'[s] : Add(s, w, v)
      \/ Close(s) \/ Forget(s)

SessionsSpec == Empty /\ [][Conversing]_<<memory, work, misread>>
=============================================================================
