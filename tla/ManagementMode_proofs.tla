----------------------- MODULE ManagementMode_proofs -----------------------
(***************************************************************************)
(* Proofs about the hand-over, for any hazards and any number of updates.  *)
(***************************************************************************)
EXTENDS ManagementMode, TLAPS

\* The listener's thread owns the spots until it clears the flag.
Owning == {"woken", "clearMode"} \cup Updating

\* While the listener asks for the spots or owns them the flag is up, so the
\* main loop, which leaves the wait only to look at the flag, comes back to
\* the wait; and the main loop was not processing a frame when it notified the
\* listener.
Handover ==
    /\ listener \in Owning \cup {"parked"} => ManagementMode
    /\ listener \in Owning /\ ~spurious => main # "detect"

\* Where the data of an update are torn: only inside it.
DataInv ==
    /\ thresholds.enter <= updates
    /\ 0 <= updates + thresholds.exit
    /\ listener = "exit" => thresholds.enter = updates
    /\ listener # "exit" => thresholds.enter + thresholds.exit = 0
    /\ listener \notin {"exit", "spots"} => 0 <= spots + thresholds.exit
    /\ thresholds.enter <= settings.enter
    /\ settings.enter <= updates
    /\ listener \in {"enter", "exit"} =>
          settings.enter = updates /\ settings.exit = updates
    /\ listener \notin {"enter", "exit"} => thresholds.exit + settings.exit = 0

-----------------------------------------------------------------------------
\* The flag, the labels, the mutexes and the versions keep their types: what
\* the steps of both threads assign (MainInterface::run, suspendMainThread,
\* update, resumeMainThread).
THEOREM TypeCorrect == Spec => []TypeOK
<1>1. Init => TypeOK
  <2>1. 0 \in Versions
    BY ManagementModeAssumption DEF Versions
  <2>2. [enter |-> 0, exit |-> 0] \in Counts
    BY <2>1 DEF Counts
  <2>3. [enter |-> 0, exit |-> 0] \in Thresholds
    <3>1. 0 \in {-n : n \in Versions}
      BY <2>1
    <3> QED
      BY <2>1, <3>1 DEF Thresholds
  <2> QED
    BY <2>1, <2>2, <2>3
       DEF Init, TypeOK, MainLabels, ListenerLabels, Holders
<1>2. TypeOK /\ [Next]_vars => TypeOK'
  <2> SUFFICES ASSUME TypeOK, [Next]_vars PROVE TypeOK'
    OBVIOUS
  <2> USE ManagementModeAssumption
      DEF TypeOK, MainLabels, ListenerLabels, Holders, Versions, Counts,
          Thresholds
  <2>1. CASE MainStep
    BY <2>1 DEF MainStep, MainCheck, MainDetect, MainLockEntrance,
                MainLockExit, MainNotify, MainWait, MainReturn, dataVars
  <2>2. CASE MainEnd \/ MainWakes
    BY <2>2 DEF MainEnd, MainWakes, dataVars
  <2>3. CASE Suspend \/ SuspendReturn \/ Receive \/ ResumeClear
             \/ ResumeNotify
    <3>1. CASE Suspend \/ SuspendReturn \/ ResumeClear
      BY <3>1 DEF Suspend, SuspendReturn, ResumeClear, dataVars
    <3>2. CASE Receive
      BY <3>2 DEF Receive, dataVars
    <3>3. CASE ResumeNotify
      BY <3>3 DEF ResumeNotify, dataVars
    <3> QED
      BY <2>3, <3>1, <3>2, <3>3
  <2>4. CASE UpdateSettings \/ UpdateEnter \/ UpdateExit \/ UpdateSpots
    BY <2>4 DEF UpdateSettings, UpdateEnter, UpdateExit, UpdateSpots
  <2>5. CASE UpdateRequest \/ ListenerWakes
    <3>1. CASE UpdateRequest
      BY <3>1 DEF UpdateRequest, dataVars
    <3>2. CASE ListenerWakes
      <4>1. UNCHANGED <<main, waiting, ManagementMode, MutexEntrace,
                        MutexExit, updates, dataVars>>
        BY <3>2 DEF ListenerWakes
      <4>2. listener' = "woken" /\ spurious' = TRUE
        BY <3>2 DEF ListenerWakes
      <4> QED
        BY <4>1, <4>2 DEF dataVars
    <3> QED
      BY <2>5, <3>1, <3>2
  <2>6. CASE UpdateFails
    BY <2>6 DEF UpdateFails, dataVars
  <2>7. CASE Connect \/ Accept \/ ListenerEnds \/ Welcome \/ Streaming
             \/ sendImageFrame \/ SessionEnds
    <3>1. CASE Connect \/ Accept \/ ListenerEnds
      <4>1. UNCHANGED <<main, ManagementMode, MutexEntrace, MutexExit,
                        updates, dataVars, spurious>>
        BY <3>1 DEF Connect, Accept, ListenerEnds
      <4>2. waiting' \in BOOLEAN
        BY <3>1 DEF Connect, Accept, ListenerEnds
      <4>3. listener' \in ListenerLabels
        BY <3>1 DEF Connect, Accept, ListenerEnds
      <4> QED
        BY <4>1, <4>2, <4>3 DEF dataVars
    <3>2. CASE Welcome \/ Streaming
      BY <3>2 DEF Welcome, Streaming, dataVars
    <3>3. CASE sendImageFrame \/ SessionEnds
      BY <3>3 DEF sendImageFrame, SessionEnds, dataVars
    <3> QED
      BY <2>7, <3>1, <3>2, <3>3
  <2>8. CASE UNCHANGED vars
    BY <2>8 DEF vars
  <2> QED
    BY <2>1, <2>2, <2>3, <2>4, <2>5, <2>6, <2>7, <2>8
       DEF Next, ListenerStep
<1> QED
  BY <1>1, <1>2, PTL DEF Spec

\* While the listener is notified, updates and has not yet cleared the flag,
\* the main loop is not between the test of the flag and the end of a frame
\* (suspendMainThread, resumeMainThread and the block of MainInterface::run
\* that waits).
THEOREM HandoverCorrect == Spec => []Handover
<1> USE DEF Handover, Owning, Updating
<1>1. Init => Handover
  BY DEF Init
<1>2. Handover /\ [Next]_vars => Handover'
  <2> SUFFICES ASSUME Handover, [Next]_vars PROVE Handover'
    OBVIOUS
  <2>1. CASE MainCheck
    BY <2>1 DEF MainCheck
  <2>2. CASE MainNotify
    BY <2>2 DEF MainNotify
  <2>3. CASE MainDetect \/ MainLockEntrance \/ MainLockExit \/ MainWait
             \/ MainReturn \/ MainEnd \/ MainWakes
    BY <2>3 DEF MainDetect, MainLockEntrance, MainLockExit, MainWait,
                MainReturn, MainEnd, MainWakes
  <2>4. CASE UpdateRequest \/ Suspend
    BY <2>4 DEF UpdateRequest, Suspend
  <2>5. CASE ListenerWakes
    BY <2>5 DEF ListenerWakes
  <2>6. CASE SuspendReturn \/ Receive \/ UpdateSettings \/ UpdateEnter
             \/ UpdateExit \/ UpdateSpots \/ UpdateFails
    BY <2>6 DEF SuspendReturn, Receive, UpdateSettings, UpdateEnter,
                UpdateExit, UpdateSpots, UpdateFails
  <2>7. CASE ResumeClear \/ ResumeNotify
    BY <2>7 DEF ResumeClear, ResumeNotify
  <2>8. CASE Connect \/ Accept \/ ListenerEnds \/ Welcome \/ Streaming
             \/ sendImageFrame \/ SessionEnds
    BY <2>8 DEF Connect, Accept, ListenerEnds, Welcome, Streaming, sendImageFrame,
                SessionEnds
  <2>9. CASE UNCHANGED vars
    BY <2>9 DEF vars
  <2> QED
    BY <2>1, <2>2, <2>3, <2>4, <2>5, <2>6, <2>7, <2>8, <2>9
       DEF Next, MainStep, ListenerStep
<1> QED
  BY <1>1, <1>2, PTL DEF Spec

\* No frame is processed while an update is being applied: the exclusion the
\* two condition variables are there for.
THEOREM ExclusionCorrect == Spec => []MutualExclusion
<1>1. Handover => MutualExclusion
  BY DEF Handover, MutualExclusion, Owning
<1>2. Spec => []Handover
  BY HandoverCorrect
<1> QED
  BY <1>1, <1>2, PTL

-----------------------------------------------------------------------------
LEMMA Negated == \A x, y \in Int : x = -y <=> x + y = 0
OBVIOUS

LEMMA Integral ==
    TypeOK => /\ {thresholds.enter, thresholds.exit} \subseteq Int
              /\ {settings.enter, settings.exit, updates, spots} \subseteq Int
BY ManagementModeAssumption DEF TypeOK, Counts, Thresholds, Versions

\* An update is torn only while the listener is inside it, whatever fails
\* (TCPSocketListener::update).
THEOREM DataCorrect == Spec => []DataInv
<1> USE DEF DataInv
<1>1. Init => DataInv
  BY DEF Init
<1>2. TypeOK /\ DataInv /\ [Next]_vars => DataInv'
  <2> SUFFICES ASSUME TypeOK, DataInv, [Next]_vars PROVE DataInv'
    OBVIOUS
  <2> USE ManagementModeAssumption DEF TypeOK, Versions, Counts, Thresholds
  <2>1. CASE MainCheck \/ MainDetect \/ MainLockEntrance \/ MainLockExit
             \/ MainWait \/ MainReturn \/ MainEnd \/ MainWakes
    BY <2>1 DEF MainCheck, MainDetect, MainLockEntrance, MainLockExit,
                MainWait, MainReturn, MainEnd, MainWakes, dataVars
  <2>2. CASE MainNotify
    BY <2>2 DEF MainNotify, dataVars
  <2>3. CASE UpdateRequest
    BY <2>3 DEF UpdateRequest, dataVars
  <2>4. CASE Suspend \/ ListenerWakes \/ SuspendReturn \/ Receive
             \/ ResumeClear \/ ResumeNotify
    BY <2>4 DEF Suspend, ListenerWakes, SuspendReturn, Receive, ResumeClear,
                ResumeNotify, dataVars
  <2>5. CASE UpdateSettings
    BY <2>5 DEF UpdateSettings
  <2>6. CASE UpdateEnter
    BY <2>6 DEF UpdateEnter
  <2>7. CASE UpdateExit
    BY <2>7 DEF UpdateExit
  <2>8. CASE UpdateSpots
    BY <2>8 DEF UpdateSpots
  <2>9. CASE UpdateFails
    BY <2>9 DEF UpdateFails, dataVars
  <2>10. CASE Connect \/ Accept \/ ListenerEnds \/ Welcome \/ Streaming
              \/ sendImageFrame \/ SessionEnds
    BY <2>10 DEF Connect, Accept, ListenerEnds, Welcome, Streaming, sendImageFrame,
                 SessionEnds, dataVars
  <2>11. CASE UNCHANGED vars
    BY <2>11 DEF vars
  <2> QED
    BY <2>1, <2>2, <2>3, <2>4, <2>5, <2>6, <2>7, <2>8, <2>9, <2>10, <2>11
       DEF Next, MainStep, ListenerStep
<1>3. Spec => []TypeOK
  BY TypeCorrect
<1> QED
  BY <1>1, <1>2, <1>3, PTL DEF Spec

\* Outside of an update the thresholds, the settings and the spots agree, for
\* any number of updates, failures and spurious wake-ups.
THEOREM BetweenUpdatesCorrect == Spec => []BetweenUpdates
<1>1. TypeOK /\ DataInv => BetweenUpdates
  <2> SUFFICES ASSUME TypeOK, DataInv, listener \notin Updating
               PROVE  /\ thresholds.enter = -thresholds.exit
                      /\ thresholds.exit = -settings.exit
                      /\ thresholds.enter <= settings.enter
                      /\ thresholds.enter <= spots
    BY DEF BetweenUpdates
  <2>1. {thresholds.enter, thresholds.exit, settings.exit, spots} \subseteq Int
    BY Integral
  <2>2. /\ thresholds.enter + thresholds.exit = 0
        /\ thresholds.exit + settings.exit = 0
        /\ 0 <= spots + thresholds.exit
        /\ thresholds.enter <= settings.enter
    BY DEF DataInv, Updating
  <2>3. thresholds.enter <= spots
    BY <2>1, <2>2
  <2> QED
    BY <2>1, <2>2, <2>3, Negated
<1>2. Spec => []DataInv
  BY DataCorrect
<1>3. Spec => []TypeOK
  BY TypeCorrect
<1> QED
  BY <1>1, <1>2, <1>3, PTL

\* What a frame is processed with is the work of whole updates, for any
\* number of updates and failures.
THEOREM WholeUpdatesCorrect == Spec => []WholeUpdates
<1>1. TypeOK /\ Handover /\ DataInv => WholeUpdates
  <2> SUFFICES ASSUME TypeOK, Handover, DataInv, main = "detect", ~spurious
               PROVE  /\ thresholds.enter = -thresholds.exit
                      /\ thresholds.enter <= spots
    BY DEF WholeUpdates
  <2>1. {thresholds.enter, thresholds.exit, spots} \subseteq Int
    BY Integral
  <2>2. thresholds.enter + thresholds.exit = 0 /\ 0 <= spots + thresholds.exit
    BY DEF Handover, DataInv, Owning, Updating
  <2>3. thresholds.enter <= spots
    BY <2>1, <2>2
  <2> QED
    BY <2>1, <2>2, <2>3, Negated
<1>2. Spec => []Handover
  BY HandoverCorrect
<1>3. Spec => []DataInv
  BY DataCorrect
<1>4. Spec => []TypeOK
  BY TypeCorrect
<1> QED
  BY <1>1, <1>2, <1>3, <1>4, PTL
=============================================================================
