-------------------------- MODULE MCManagementMode --------------------------
(***************************************************************************)
(* Instances of ManagementMode for TLC.  `calm' remembers that none of the *)
(* hazards has happened, so that one instance with every hazard also shows *)
(* what is certain without them.                                           *)
(***************************************************************************)
EXTENDS ManagementMode

VARIABLE calm

MCvars == <<vars, calm>>

\* What only a hazard makes possible.
Hazard ==
    \/ MainEnd
    \/ MainWakes
    \/ ListenerWakes
    \/ UpdateFails
    \/ Receive /\ main = "wait"

MCInit == Init /\ calm = TRUE

MCNext == Next /\ calm' = (calm /\ ~Hazard)

MCFairSpec == MCInit /\ [][MCNext]_MCvars /\ Fairness

\* As long as none of the hazards happens, an update that was requested is
\* applied, and the session goes on.
CalmUpdateCompletes ==
    \A n \in 1..MaxUpdates :
        updates = n ~> (spots >= n /\ ~ManagementMode) \/ ~calm

\* As long as none of the hazards happens, the detection never stops for good,
\* also when the listener's thread has ended (ReceiverCV.notify_all()
\* "resume the main thread", TCPSocketListener.cpp:339).
CalmDetectionGoesOn == []<>(main = "detect" \/ ~calm)
=============================================================================
