-------------------------------- MODULE Rite --------------------------------
(* Approvals: request_rite files a Rite, operators decide it over REST, and *)
(* each decision fires a resume Pulse into the session that asked.          *)
EXTENDS Naturals, Sequences

CONSTANTS Desk      \* the operators' requests

VARIABLES
    rite,      \* the status of the record
    asking,    \* the turn that files the Rite: "running" until its lock is released
    busy,      \* another turn holds the session's lock
    request,   \* [Desk -> how far an operator's request came]
    verdict,   \* [Desk -> what it decides]
    answered,  \* [Desk -> what the operator was told]
    heard      \* the verdicts the session's turns were resumed with

riteVars == <<rite, asking, busy, request, verdict, answered, heard>>

Decided == {"approved", "rejected"}

RiteInit ==
    /\ rite = "absent" /\ asking = "running" /\ busy = FALSE
    /\ request = [d \in Desk |-> "idle"] /\ verdict = [d \in Desk |-> "approved"]
    /\ answered = [d \in Desk |-> "nothing"] /\ heard = << >>

Step(d, to) == request' = [request EXCEPT ![d] = to]
Tell(d, what) == answered' = [answered EXCEPT ![d] = what]

\* RequestRiteAction.Execute: the record is visible to operators while the turn still runs,
\* and nothing suspends the turn.
RequestRite ==
    /\ asking = "running" /\ rite = "absent"
    /\ rite' = "pending"
    /\ UNCHANGED <<asking, busy, request, verdict, answered, heard>>

\* The asking turn, or another turn of the session, takes and gives back its lock.
OtherTurns ==
    /\ \/ asking = "running" /\ asking' = "over" /\ busy' = FALSE
       \/ asking = "over" /\ busy' = ~busy /\ UNCHANGED asking
    /\ UNCHANGED <<rite, request, verdict, answered, heard>>

\* riteHandler.decide reads the Rite and does not look at its status.
FindRite(d) ==
    /\ request[d] = "idle"
    /\ \E v \in Decided : verdict' = [verdict EXCEPT ![d] = v]
    /\ IF rite = "absent" THEN Step(d, "over") /\ Tell(d, "not_found")
                          ELSE Step(d, "found") /\ UNCHANGED answered
    /\ UNCHANGED <<rite, asking, busy, heard>>

\* RiteRepository.Decide sets the status whatever it was; an error, written or not, ends
\* the request.
Decide(d) ==
    /\ request[d] = "found"
    /\ \/ rite' = verdict[d] /\ Step(d, "decided") /\ UNCHANGED answered
       \/ rite' \in {rite, verdict[d]} /\ Step(d, "over") /\ Tell(d, "error")
    /\ UNCHANGED <<asking, busy, verdict, heard>>

\* Faulty: the resume Pulse goes out on what was read, before the decision is stored.
ResumeFirst(d) ==
    /\ request[d] \in {"found", "decided"}
    /\ \/ asking = "over" /\ ~busy /\ heard' = Append(heard, verdict[d])
       \/ UNCHANGED heard
    /\ Step(d, "over") /\ Tell(d, "ok")
    /\ UNCHANGED <<rite, asking, busy, verdict>>

\* ProcessEventByKey of the resume Pulse: its result is dropped, also when the session is
\* busy, and the operator is told that all went well.
Resume(d) ==
    /\ request[d] = "decided"
    /\ \/ asking = "over" /\ ~busy /\ heard' = Append(heard, verdict[d])
       \/ UNCHANGED heard
    /\ Step(d, "over") /\ Tell(d, "ok")
    /\ UNCHANGED <<rite, asking, busy, verdict>>

\* The process dies with the request.
LoseRequest(d) ==
    /\ request[d] \in {"found", "decided"}
    /\ Step(d, "over")
    /\ UNCHANGED <<rite, asking, busy, verdict, answered, heard>>

RiteNext ==
    \/ RequestRite \/ OtherTurns
    \/ \E d \in Desk : FindRite(d) \/ Decide(d) \/ Resume(d) \/ LoseRequest(d)

RiteSpec == RiteInit /\ [][RiteNext]_riteVars

RiteTypeOK ==
    /\ rite \in {"absent", "pending"} \cup Decided
    /\ asking \in {"running", "over"} /\ busy \in BOOLEAN
    /\ request \in [Desk -> {"idle", "found", "decided", "over"}]
    /\ verdict \in [Desk -> Decided]
    /\ answered \in [Desk -> {"nothing", "not_found", "error", "ok"}]
    /\ heard \in Seq(Decided)

\* A session never resumes on a Rite that is still pending, and an operator that was told
\* "ok" left it decided, whoever else decides, fails or dies (rite_handler.go, decide).  It
\* is not said that the session hears each verdict, or the one on record: a busy session
\* drops the Pulse, and two operators may decide the same Rite in turn.
ResumedIsDecided ==
    (heard # << >> \/ \E d \in Desk : answered[d] = "ok") => rite \in Decided
=============================================================================
