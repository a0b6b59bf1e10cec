------------------------- MODULE ParkingSpot_proofs -------------------------
(***************************************************************************)
(* Proofs about the parking spots, for any number of spots, any time       *)
(* limits and any thresholds.                                              *)
(***************************************************************************)
EXTENDS ParkingSpot, SequenceTheorems, TLAPS

\* What the io_service of a spot holds after a wait was ended is again a
\* sequence of handlers.
LEMMA CancelledType ==
    ASSUME TypeOK, NEW s \in Spots
    PROVE  Cancelled(s) \in Seq(Handlers)
<1>1. mParkingTimer[s] \in Waits /\ mService[s] \in Seq(Handlers)
  BY DEF TypeOK
<1>2. [wait |-> mParkingTimer[s], cause |-> "cancelled"] \in Handlers
  BY <1>1 DEF Handlers
<1> QED
  BY <1>1, <1>2, AppendProperties DEF Cancelled

LEMMA ArmType ==
    ASSUME TypeOK, NEW s \in Spots, NEW seconds \in Nat, Arm(s, seconds)
    PROVE  /\ mParkingTimer' \in [Spots -> Waits]
           /\ mService' \in [Spots -> Seq(Handlers)]
<1>1. [stay |-> stay[s], seconds |-> seconds] \in Waits
  BY DEF TypeOK, Waits
<1> QED
  BY <1>1, CancelledType DEF Arm, TypeOK

LEMMA NoneTypes ==
    NoWait \in Waits /\ NoTime \in Instants /\ NoHandler \in Handlers
BY DEF NoWait, NoTime, NoHandler, Waits, Instants, Handlers

LEMMA StopTimerType ==
    ASSUME TypeOK, NEW s \in Spots, StopTimer(s)
    PROVE  /\ mParkingTimer' \in [Spots -> Waits]
           /\ mService' \in [Spots -> Seq(Handlers)]
BY CancelledType, NoneTypes DEF StopTimer, TypeOK

LEMMA PushType ==
    ASSUME TypeOK, NEW s \in Spots, NEW req \in Requests,
           NEW when \in Instants, NEW handler \in Handlers,
           Push(s, req, when, handler)
    PROVE  pushed' \in [Spots -> Seq(Messages)]
<1> DEFINE m == [req |-> req, stay |-> stay[s],
                 incarnation |-> incarnation[s], time |-> when,
                 handler |-> handler]
<1>1. m \in Messages
  BY DEF TypeOK, Messages
<1>2. Append(pushed[s], m) \in Seq(Messages)
  BY <1>1, AppendProperties DEF TypeOK
<1> QED
  BY <1>2 DEF Push, TypeOK

LEMMA MovedType ==
    ASSUME NEW c \in Int, NEW v \in BOOLEAN
    PROVE  Moved(c, v) \in Int
BY DEF Moved

-----------------------------------------------------------------------------
\* The fields of the spots, the thresholds, the handlers and the messages
\* keep their types through every step of both threads.
THEOREM TypeCorrect == Spec => []TypeOK
<1> USE ParkingSpotAssumption DEF MainLabels, TimerLabels
<1>1. Init => TypeOK
  BY NoneTypes DEF Init, TypeOK
<1>2. TypeOK /\ [Next]_vars => TypeOK'
  <2> SUFFICES ASSUME TypeOK, [Next]_vars PROVE TypeOK'
    OBVIOUS
  <2>1. CASE Frame \/ EndSpots \/ NoKey \/ Clear
    BY <2>1 DEF TypeOK, Frame, EndSpots, NoKey, Clear, Present, statusVars,
       attrVars, thresholdVars, waitVars, threadVars, historyVars
  <2>2. ASSUME NEW s \in Spots, NEW v \in BOOLEAN, Vote(s, v)
        PROVE  TypeOK'
    <3>1. mOccupiedFrameCounter' \in [Spots -> Int]
      <4>1. mOccupiedFrameCounter[s] \in Int
        BY DEF TypeOK
      <4>2. Moved(mOccupiedFrameCounter[s], v) \in Int
        BY <4>1, MovedType
      <4>3. mOccupiedFrameCounter' = [mOccupiedFrameCounter EXCEPT
                           ![s] = Moved(mOccupiedFrameCounter[s], v)]
        BY <2>2 DEF Vote
      <4> QED
        BY <4>2, <4>3 DEF TypeOK
    <3>2. /\ mOccupied' \in [Spots -> BOOLEAN]
          /\ stay' \in [Spots -> Nat]
      <4> DEFINE flips == /\ Confirms(mOccupiedFrameCounter[s], v)
                          /\ mOccupied[s] # v
      <4>1. mOccupied' = [mOccupied EXCEPT
                             ![s] = IF flips THEN v ELSE mOccupied[s]]
        BY <2>2 DEF Vote
      <4>2. stay' = [stay EXCEPT
                        ![s] = IF flips /\ v THEN stay[s] + 1 ELSE stay[s]]
        BY <2>2 DEF Vote
      <4> HIDE DEF flips
      <4>3. /\ mOccupied \in [Spots -> BOOLEAN]
            /\ stay \in [Spots -> Nat]
        BY DEF TypeOK
      <4>4. /\ (IF flips THEN v ELSE mOccupied[s]) \in BOOLEAN
            /\ (IF flips /\ v THEN stay[s] + 1 ELSE stay[s]) \in Nat
        <5>1. mOccupied[s] \in BOOLEAN /\ stay[s] \in Nat
          BY <4>3
        <5>2. stay[s] + 1 \in Nat
          BY <5>1
        <5>3. (IF flips THEN v ELSE mOccupied[s]) \in BOOLEAN
          BY <5>1, Zenon
        <5>4. (IF flips /\ v THEN stay[s] + 1 ELSE stay[s]) \in Nat
          BY <5>1, <5>2
        <5> QED
          BY <5>3, <5>4
      <4> QED
        BY <4>1, <4>2, <4>3, <4>4, Zenon
    <3>3. votes' \in [Spots -> Nat]
      <4>1. VoteCap \in Nat
        BY DEF TypeOK, VoteCap
      <4>2. \A n \in Nat : Capped(n) \in Nat
        BY <4>1 DEF Capped
      <4> DEFINE flips == /\ Confirms(mOccupiedFrameCounter[s], v)
                          /\ mOccupied[s] # v
      <4>3. votes' = [votes EXCEPT ![s] =
                         IF flips THEN 0 ELSE IF mOccupied[s] # v
                         THEN Capped(votes[s] + 1) ELSE votes[s]]
        BY <2>2 DEF Vote
      <4> HIDE DEF flips
      <4>4. votes \in [Spots -> Nat] /\ votes[s] \in Nat
        BY DEF TypeOK
      <4>5. Capped(votes[s] + 1) \in Nat
        BY <4>2, <4>4
      <4>6. (IF flips THEN 0 ELSE IF mOccupied[s] # v
             THEN Capped(votes[s] + 1) ELSE votes[s]) \in Nat
        BY <4>4, <4>5
      <4> QED
        BY <4>3, <4>4, <4>6, Zenon
    <3>4. /\ cur' \in Spots
          /\ todo' \subseteq Spots
          /\ pc' \in MainLabels
      BY <2>2 DEF TypeOK, Vote
    <3> QED
      BY <2>2, <3>1, <3>2, <3>3, <3>4 DEF TypeOK, Vote, attrVars,
         thresholdVars, waitVars, threadVars
  <2>3. ASSUME NEW s \in Spots, EnterStartTimer(s) PROVE TypeOK'
    <3>1. \E seconds \in Nat : Arm(s, seconds)
      <4>1. mTimeLimit[s] \in Nat
        BY DEF TypeOK
      <4>2. \A res \in Reservations : Minute * res \in Nat
        BY DEF Minute
      <4> QED
        BY <2>3, <4>1, <4>2
           DEF EnterStartTimer, StartTimer, StartReservedTimer
    <3>2. mTimeLimit' \in [Spots -> Limits \cup Reservations]
      BY <2>3 DEF TypeOK, EnterStartTimer, StartTimer, StartReservedTimer
    <3> QED
      BY <2>3, <3>1, <3>2, ArmType DEF TypeOK, EnterStartTimer,
         thresholdVars, threadVars, historyVars
  <2>4. ASSUME NEW s \in Spots, EnterPush(s) PROVE TypeOK'
    <3>1. pushed' \in [Spots -> Seq(Messages)]
      <4>1. [entry |-> stay[s], seconds |-> 0] \in Instants
        BY DEF TypeOK, Instants
      <4> QED
        BY <2>4, <4>1, PushType, NoneTypes DEF EnterPush, Requests
    <3> QED
      BY <2>4, <3>1 DEF TypeOK, EnterPush, statusVars, attrVars,
         thresholdVars, waitVars, threadVars
  <2>5. ASSUME NEW s \in Spots, EnterSetTime(s) PROVE TypeOK'
    BY <2>5 DEF TypeOK, EnterSetTime, statusVars, attrVars, thresholdVars,
       waitVars, threadVars, historyVars
  <2>6. ASSUME NEW s \in Spots, ExitClear(s) \/ KeyExit(s) PROVE TypeOK'
    BY <2>6 DEF TypeOK, ExitClear, KeyExit, statusVars, attrVars,
       thresholdVars, waitVars, threadVars, historyVars
  <2>7. ASSUME NEW s \in Spots, ExitPush(s) PROVE TypeOK'
    <3>1. pushed' \in [Spots -> Seq(Messages)]
      BY <2>7, PushType, NoneTypes DEF ExitPush, Requests
    <3> QED
      BY <2>7, <3>1 DEF TypeOK, ExitPush, statusVars, attrVars,
         thresholdVars, waitVars, threadVars
  <2>8. ASSUME NEW s \in Spots, ExitStopTimer(s) \/ ResetTimer(s)
        PROVE  TypeOK'
    BY <2>8, StopTimerType DEF TypeOK, ExitStopTimer, ResetTimer,
       statusVars, attrVars, thresholdVars, threadVars, historyVars
  <2>9. ASSUME NEW s \in Spots, NEW limit \in Limits,
               UpdateAttributes(s, limit) \/ Add(s, limit)
        PROVE  TypeOK'
    <3>1. CASE UpdateAttributes(s, limit)
      BY <3>1 DEF TypeOK, UpdateAttributes, mainVars, statusVars,
         thresholdVars, waitVars, threadVars, historyVars
    <3>2. CASE Add(s, limit)
      <4>1. /\ exists' \in [Spots -> BOOLEAN]
            /\ mTimeLimit' \in [Spots -> Limits \cup Reservations]
        BY <3>2 DEF TypeOK, Add
      <4>2. incarnation' \in [Spots -> Nat]
        <5>1. incarnation \in [Spots -> Nat]
          BY DEF TypeOK
        <5>2. incarnation[s] \in Nat
          BY <5>1
        <5>3. incarnation[s] + 1 \in Nat
          BY <5>2
        <5>4. incarnation' = [incarnation EXCEPT ![s] = incarnation[s] + 1]
          BY <3>2 DEF Add
        <5> QED
          BY <5>1, <5>3, <5>4
      <4>3. isReservation_sensor' \in [Spots -> SensorFlags]
        BY <3>2 DEF TypeOK, Add
      <4> QED
        BY <3>2, <4>1, <4>2, <4>3 DEF TypeOK, Add, mainVars, statusVars,
           thresholdVars, waitVars, threadVars
    <3> QED
      BY <2>9, <3>1, <3>2
  <2>10. ASSUME NEW n \in EnterCounts, SetPositiveThreshold(n)
         PROVE  TypeOK'
    BY <2>10 DEF TypeOK, SetPositiveThreshold, mainVars, statusVars,
       attrVars, waitVars, threadVars, historyVars
  <2>11. ASSUME NEW n \in ExitCounts, SetNegativeThreshold(n)
         PROVE  TypeOK'
    BY <2>11 DEF TypeOK, SetNegativeThreshold, mainVars, statusVars,
       attrVars, waitVars, threadVars, historyVars
  <2>12. ASSUME NEW s \in Spots, Erase(s) \/ ResetStatus(s) PROVE TypeOK'
    <3>1. CASE Erase(s)
      BY <3>1 DEF TypeOK, Erase, statusVars, attrVars, thresholdVars,
         waitVars, threadVars, historyVars
    <3>2. CASE ResetStatus(s)
      <4>1. todo' \subseteq Spots /\ pc' \in MainLabels
        BY <3>2 DEF TypeOK, ResetStatus, Present
      <4>2. /\ mOccupied' \in [Spots -> BOOLEAN]
            /\ mOverstayed' \in [Spots -> BOOLEAN]
            /\ mOccupiedFrameCounter' \in [Spots -> Int]
            /\ votes' \in [Spots -> Nat]
        BY <3>2 DEF TypeOK, ResetStatus, ClearStatus
      <4> QED
        BY <3>2, <4>1, <4>2 DEF TypeOK, ResetStatus, attrVars,
           thresholdVars, waitVars, threadVars
    <3> QED
      BY <2>12, <3>1, <3>2
  <2>13. ASSUME NEW s \in Spots, Stop(s) PROVE TypeOK'
    <3>1. <<>> \in Seq(Handlers)
      BY EmptySeq
    <3>2. /\ mService' \in [Spots -> Seq(Handlers)]
          /\ mParkingTimer' \in [Spots -> Waits]
      BY <2>13, <3>1, NoneTypes DEF TypeOK, Stop
    <3> QED
      BY <2>13, <3>2 DEF TypeOK, Stop, statusVars, attrVars, thresholdVars,
         threadVars, historyVars
  <2>14. ASSUME NEW s \in Spots, Join(s) PROVE TypeOK'
    <3>1. todo' \subseteq Spots /\ pc' \in MainLabels
      BY <2>14 DEF TypeOK, Join
    <3>2. /\ mOccupied' \in [Spots -> BOOLEAN]
          /\ mOverstayed' \in [Spots -> BOOLEAN]
          /\ mOccupiedFrameCounter' \in [Spots -> Int]
          /\ votes' \in [Spots -> Nat]
      BY <2>14 DEF TypeOK, Join, ClearStatus
    <3> QED
      BY <2>14, <3>1, <3>2 DEF TypeOK, Join, thresholdVars, waitVars,
         threadVars
  <2>15. ASSUME NEW s \in Spots, Expire(s) PROVE TypeOK'
    <3> DEFINE h == [wait |-> mParkingTimer[s], cause |-> "expired"]
    <3>1. h \in Handlers
      BY DEF TypeOK, Handlers
    <3>2. Append(mService[s], h) \in Seq(Handlers)
      BY <3>1, AppendProperties DEF TypeOK
    <3> QED
      BY <2>15, <3>2, NoneTypes DEF TypeOK, Expire, mainVars, statusVars,
         attrVars, thresholdVars, threadVars, historyVars
  <2>16. ASSUME NEW s \in Spots, NotifyExpiration(s) PROVE TypeOK'
    <3>1. /\ Head(mService[s]) \in Handlers
          /\ Tail(mService[s]) \in Seq(Handlers)
      BY <2>16, HeadTailProperties DEF TypeOK, NotifyExpiration
    <3>2. /\ mService' \in [Spots -> Seq(Handlers)]
          /\ mTimerThread' \in [Spots -> TimerLabels]
          /\ running' \in [Spots -> Handlers]
      <4>1. CASE mOccupied[s]
        <5>1. mTimerThread' \in [Spots -> TimerLabels]
          BY <2>16, <4>1 DEF TypeOK, NotifyExpiration
        <5>2. running' \in [Spots -> Handlers]
          BY <2>16, <3>1, <4>1 DEF TypeOK, NotifyExpiration
        <5>3. mService' \in [Spots -> Seq(Handlers)]
          BY <2>16, <3>1 DEF TypeOK, NotifyExpiration
        <5> QED
          BY <5>1, <5>2, <5>3
      <4>2. CASE ~mOccupied[s]
        BY <2>16, <3>1, <4>2 DEF TypeOK, NotifyExpiration
      <4> QED
        BY <4>1, <4>2
    <3> QED
      BY <2>16, <3>2 DEF TypeOK, NotifyExpiration, mainVars, statusVars,
         attrVars, thresholdVars, historyVars
  <2>17. ASSUME NEW s \in Spots, ComputeTime(s) \/ OverFlag(s)
         PROVE  TypeOK'
    <3>1. mTimeLimit[s] \in Nat
      BY DEF TypeOK
    <3>2. [entry |-> mEntryTime[s], seconds |-> mTimeLimit[s]] \in Instants
      BY <3>1 DEF TypeOK, Instants
    <3>3. CASE ComputeTime(s)
      BY <3>3, <3>2 DEF TypeOK, ComputeTime, mainVars, statusVars, attrVars,
         thresholdVars, waitVars, historyVars
    <3>4. CASE OverFlag(s)
      BY <3>4 DEF TypeOK, OverFlag, mainVars, attrVars, thresholdVars,
         waitVars, historyVars
    <3> QED
      BY <2>17, <3>3, <3>4
  <2>18. ASSUME NEW s \in Spots, OverPush(s) PROVE TypeOK'
    <3>1. pushed' \in [Spots -> Seq(Messages)]
      BY <2>18, PushType DEF OverPush, Requests, TypeOK
    <3> QED
      BY <2>18, <3>1, NoneTypes DEF TypeOK, OverPush, mainVars, statusVars,
         attrVars, thresholdVars, waitVars
  <2>19. CASE UNCHANGED vars
    BY <2>19 DEF TypeOK, vars, mainVars, statusVars, attrVars,
       thresholdVars, waitVars, threadVars, historyVars
  <2> QED
    BY <2>1, <2>2, <2>3, <2>4, <2>5, <2>6, <2>7, <2>8, <2>9, <2>10, <2>11,
       <2>12, <2>13, <2>14, <2>15, <2>16, <2>17, <2>18, <2>19
       DEF Next, OwnerStep, Request, TimerStep, VoteStep, EnterStep,
           ExitStep, EraseStep
<1> QED
  BY <1>1, <1>2, PTL DEF Spec
-----------------------------------------------------------------------------
(* The frame counter, for thresholds that are never changed and without    *)
(* debug keys.                                                             *)

\* The counter of a spot lies between the thresholds on the side of its
\* status, and cannot be further from the last change of the status than the
\* votes against the status since then.
CounterAt(s) ==
    /\ mOccupied[s] =>
          /\ mNegativeThreshold <= mOccupiedFrameCounter[s]
          /\ mPositiveThreshold + 1 - votes[s] <= mOccupiedFrameCounter[s]
    /\ ~mOccupied[s] =>
          /\ mOccupiedFrameCounter[s] <= mPositiveThreshold
          /\ mOccupiedFrameCounter[s] <= votes[s]

\* enter() and exit() are called with the status they set.
CounterInv ==
    /\ pc # "keys"
    /\ pc = "startTimer" => mOccupied[cur]
    /\ pc = "exit" => ~mOccupied[cur]
    /\ \A s \in Spots : CounterAt(s)

OneThreshold == /\ \A i, j \in EnterCounts : i = j
                /\ \A i, j \in ExitCounts : i = j
                /\ ~DebugKeys

LEMMA FixedThresholds ==
    ASSUME OneThreshold, TypeOK, TypeOK'
    PROVE  UNCHANGED thresholdVars
BY DEF OneThreshold, TypeOK, thresholdVars

LEMMA ThresholdTypes ==
    ASSUME TypeOK
    PROVE  /\ mPositiveThreshold \in Nat
           /\ mNegativeThreshold \in Int /\ mNegativeThreshold <= 0
BY ParkingSpotAssumption DEF TypeOK

\* A step that leaves the counters alone, and does not call enter or exit.
LEMMA QuietStep ==
    ASSUME CounterInv, UNCHANGED thresholdVars,
           UNCHANGED <<mOccupied, mOccupiedFrameCounter, votes>>,
           pc' \notin {"keys", "startTimer", "exit"} \/ UNCHANGED <<pc, cur>>
    PROVE  CounterInv'
BY DEF CounterInv, CounterAt, thresholdVars

\* One call of update(bool), on plain numbers: p and -n are the thresholds,
\* c the counter, k the votes against the status o.
LEMMA VoteStepCounter ==
    ASSUME TypeOK, NEW s \in Spots, NEW v \in BOOLEAN, Vote(s, v),
           CounterAt(s), UNCHANGED thresholdVars
    PROVE  CounterAt(s)'
<1> DEFINE c == mOccupiedFrameCounter[s]
           flips == Confirms(c, v) /\ mOccupied[s] # v
<1>1. /\ c \in Int
      /\ votes[s] \in Nat
      /\ mOccupied[s] \in BOOLEAN
  BY DEF TypeOK
<1>2. /\ mOccupiedFrameCounter'[s] = Moved(c, v)
      /\ mOccupied'[s] = IF flips THEN v ELSE mOccupied[s]
      /\ votes'[s] = IF flips THEN 0
                     ELSE IF mOccupied[s] # v THEN Capped(votes[s] + 1)
                     ELSE votes[s]
  <2>1. /\ mOccupiedFrameCounter \in [Spots -> Int]
        /\ mOccupied \in [Spots -> BOOLEAN]
        /\ votes \in [Spots -> Nat]
    BY DEF TypeOK
  <2> QED
    BY <2>1 DEF Vote
<1>3. /\ mPositiveThreshold' = mPositiveThreshold
      /\ mNegativeThreshold' = mNegativeThreshold
  BY DEF thresholdVars
<1>4. CASE flips /\ v
  <2>1. mOccupied'[s] /\ votes'[s] = 0 /\ ~mOccupied[s]
    BY <1>2, <1>4
  <2>2. mOccupiedFrameCounter'[s] = c + 1
    BY <1>1, <1>2, <1>4, ThresholdTypes DEF Moved, Counts, Confirms
  <2>3. c >= mPositiveThreshold
    BY <1>1, <1>4, ThresholdTypes DEF Confirms
  <2> HIDE DEF c, flips
  <2>4. c \in Int
    BY <1>1
  <2> QED
    BY <1>3, <2>1, <2>2, <2>3, <2>4, ThresholdTypes DEF CounterAt
<1>5. CASE flips /\ ~v
  <2>1. ~mOccupied'[s] /\ votes'[s] = 0
    BY <1>2, <1>5
  <2>2. mOccupiedFrameCounter'[s] <= c
    BY <1>1, <1>2, <1>5 DEF Moved
  <2>3. c <= mNegativeThreshold
    BY <1>1, <1>5, ThresholdTypes DEF Confirms
  <2>4. mOccupiedFrameCounter'[s] \in Int
    BY <1>1, <1>2, MovedType
  <2> HIDE DEF c, flips
  <2>5. c \in Int
    BY <1>1
  <2> QED
    BY <1>3, <2>1, <2>2, <2>3, <2>4, <2>5, ThresholdTypes DEF CounterAt
<1>6. CASE ~flips /\ mOccupied[s] = v
  <2>1. mOccupied'[s] = v /\ votes'[s] = votes[s]
    BY <1>1, <1>2, <1>6
  <2>2. CASE v
    <3>1. mOccupiedFrameCounter'[s] \in {c, c + 1}
      BY <1>1, <1>2, <2>2 DEF Moved
    <3> QED
      BY <1>1, <1>3, <1>6, <2>1, <2>2, <3>1, ThresholdTypes DEF CounterAt
  <2>3. CASE ~v
    <3>1. mOccupiedFrameCounter'[s] \in {c, c - 1}
      BY <1>1, <1>2, <2>3 DEF Moved
    <3> QED
      BY <1>1, <1>3, <1>6, <2>1, <2>3, <3>1, ThresholdTypes DEF CounterAt
  <2> QED
    BY <2>2, <2>3
<1>7. CASE ~flips /\ mOccupied[s] # v
  <2>1. mOccupied'[s] = mOccupied[s] /\ votes'[s] = Capped(votes[s] + 1)
    BY <1>1, <1>2, <1>7
  <2>2. ~Confirms(c, v)
    BY <1>7
  <2>3. CASE v
    <3>1. ~mOccupied[s]
      BY <1>1, <1>7, <2>3
    <3>2. \/ mOccupiedFrameCounter'[s] = c
          \/ mOccupiedFrameCounter'[s] = c + 1 /\ c < mPositiveThreshold
      BY <1>1, <1>2, <2>2, <2>3, ThresholdTypes DEF Moved, Counts, Confirms
    <3> QED
      BY <1>1, <1>3, <2>1, <3>1, <3>2, ThresholdTypes
         DEF CounterAt, Capped, VoteCap
  <2>4. CASE ~v
    <3>1. mOccupied[s]
      BY <1>1, <1>7, <2>4
    <3>2. \/ mOccupiedFrameCounter'[s] = c
          \/ mOccupiedFrameCounter'[s] = c - 1 /\ c > mNegativeThreshold
      BY <1>1, <1>2, <2>2, <2>4, ThresholdTypes DEF Moved, Counts, Confirms
    <3> QED
      BY <1>1, <1>3, <2>1, <3>1, <3>2, ThresholdTypes
         DEF CounterAt, Capped, VoteCap
  <2> QED
    BY <2>3, <2>4
<1> QED
  BY <1>4, <1>5, <1>6, <1>7

\* With the thresholds of the start, a status changes only at the far end of
\* the counter (ParkingSpot::update(bool)).
THEOREM CounterCorrect ==
    ASSUME OneThreshold
    PROVE  Spec => []CounterInv
<1>1. TypeOK /\ Init => CounterInv
  <2> SUFFICES ASSUME TypeOK, Init PROVE CounterInv
    OBVIOUS
  <2>1. ASSUME NEW s \in Spots PROVE CounterAt(s)
    BY ThresholdTypes DEF Init, CounterAt
  <2> QED
    BY <2>1 DEF Init, CounterInv
<1>2. TypeOK /\ TypeOK' /\ CounterInv /\ [Next]_vars => CounterInv'
  <2> SUFFICES ASSUME TypeOK, TypeOK', CounterInv, [Next]_vars
               PROVE  CounterInv'
    OBVIOUS
  <2>0. UNCHANGED thresholdVars
    BY FixedThresholds, OneThreshold
  <2> DEFINE Quiet ==
        /\ UNCHANGED <<mOccupied, mOccupiedFrameCounter, votes>>
        /\ pc' \notin {"keys", "startTimer", "exit"} \/ UNCHANGED <<pc, cur>>
  <2>1. CASE Quiet
    BY <2>0, <2>1, QuietStep
  <2>2. ASSUME NEW s \in Spots, NEW v \in BOOLEAN, Vote(s, v)
        PROVE  CounterInv'
    <3>1. CounterAt(s)'
      BY <2>0, <2>2, VoteStepCounter DEF CounterInv
    <3>2. ASSUME NEW u \in Spots, u # s PROVE CounterAt(u)'
      <4>1. /\ mOccupied'[u] = mOccupied[u]
            /\ mOccupiedFrameCounter'[u] = mOccupiedFrameCounter[u]
            /\ votes'[u] = votes[u]
        BY <2>2, <3>2 DEF Vote, TypeOK
      <4> QED
        BY <2>0, <4>1 DEF CounterInv, CounterAt, thresholdVars
    <3>3. /\ pc' # "keys"
          /\ pc' = "startTimer" => mOccupied'[cur']
          /\ pc' = "exit" => ~mOccupied'[cur']
      <4> DEFINE flips == /\ Confirms(mOccupiedFrameCounter[s], v)
                          /\ mOccupied[s] # v
      <4>1. /\ cur' = s
            /\ pc' = CASE flips /\ v  -> "startTimer"
                       [] flips /\ ~v -> "exit"
                       [] OTHER       -> "spots"
        BY <2>2 DEF Vote
      <4>2. mOccupied \in [Spots -> BOOLEAN]
        BY DEF TypeOK
      <4>3. mOccupied'[s] = IF flips THEN v ELSE mOccupied[s]
        BY <2>2, <4>2 DEF Vote
      <4> HIDE DEF flips
      <4> QED
        BY <4>1, <4>3
    <3> QED
      BY <3>1, <3>2, <3>3 DEF CounterInv
  <2>3. ASSUME NEW s \in Spots, EnterStartTimer(s) PROVE CounterInv'
    <3>1. mOccupied' = mOccupied
      BY <2>3 DEF EnterStartTimer, CounterInv, TypeOK
    <3> QED
      BY <2>0, <2>3, <3>1, QuietStep DEF EnterStartTimer, historyVars
  <2>4. ASSUME NEW s \in Spots, ExitClear(s) PROVE CounterInv'
    <3>1. mOccupied' = mOccupied
      BY <2>4 DEF ExitClear, CounterInv, TypeOK
    <3> QED
      BY <2>0, <2>4, <3>1, QuietStep DEF ExitClear, historyVars
  <2>5. ASSUME NEW s \in Spots, ClearStatus(s),
               pc' \notin {"keys", "startTimer", "exit"}
        PROVE  CounterInv'
    <3>1. CounterAt(s)'
      <4>1. /\ mOccupied'[s] = FALSE
            /\ mOccupiedFrameCounter'[s] = 0
            /\ votes'[s] = 0
        BY <2>5 DEF ClearStatus, TypeOK
      <4>2. mPositiveThreshold' = mPositiveThreshold
        BY <2>0 DEF thresholdVars
      <4> QED
        BY <4>1, <4>2, ThresholdTypes DEF CounterAt
    <3>2. ASSUME NEW u \in Spots, u # s PROVE CounterAt(u)'
      <4>1. /\ mOccupied'[u] = mOccupied[u]
            /\ mOccupiedFrameCounter'[u] = mOccupiedFrameCounter[u]
            /\ votes'[u] = votes[u]
        BY <2>5, <3>2 DEF ClearStatus, TypeOK
      <4> QED
        BY <2>0, <4>1 DEF CounterInv, CounterAt, thresholdVars
    <3> QED
      BY <2>5, <3>1, <3>2 DEF CounterInv
  <2>6. ASSUME NEW s \in Spots, ResetStatus(s) \/ Join(s)
        PROVE  CounterInv'
    BY <2>5, <2>6 DEF ResetStatus, Join
  <2>7. CASE Frame \/ EndSpots \/ NoKey \/ Clear
    <3>1. Quiet
      BY <2>7, OneThreshold DEF OneThreshold, Frame, EndSpots, NoKey, Clear,
         statusVars, historyVars, CounterInv
    <3> QED
      BY <3>1, <2>1
  <2>8. ASSUME NEW s \in Spots,
               EnterPush(s) \/ EnterSetTime(s) \/ ExitPush(s)
               \/ ExitStopTimer(s) \/ ResetTimer(s) \/ Stop(s) \/ Erase(s)
        PROVE  CounterInv'
    <3>1. Quiet
      BY <2>8 DEF EnterPush, EnterSetTime, ExitPush, ExitStopTimer,
         ResetTimer, Stop, Erase, statusVars, historyVars
    <3> QED
      BY <3>1, <2>1
  <2>9. ASSUME NEW s \in Spots, KeyExit(s) PROVE CounterInv'
    BY <2>9 DEF KeyExit, CounterInv
  <2>10. ASSUME NEW s \in Spots, NEW limit \in Limits,
                UpdateAttributes(s, limit) \/ Add(s, limit)
         PROVE  CounterInv'
    <3>1. Quiet
      BY <2>10 DEF UpdateAttributes, Add, mainVars, statusVars, historyVars
    <3> QED
      BY <3>1, <2>1
  <2>11. CASE \/ \E n \in EnterCounts : SetPositiveThreshold(n)
              \/ \E n \in ExitCounts : SetNegativeThreshold(n)
    <3>1. Quiet
      BY <2>11 DEF SetPositiveThreshold, SetNegativeThreshold, mainVars,
         statusVars, historyVars
    <3> QED
      BY <3>1, <2>1
  <2>12. ASSUME NEW s \in Spots, Expire(s) \/ TimerStep(s)
         PROVE  CounterInv'
    <3>1. Quiet
      BY <2>12 DEF Expire, TimerStep, NotifyExpiration, ComputeTime,
         OverFlag, OverPush, mainVars, statusVars, historyVars
    <3> QED
      BY <3>1, <2>1
  <2>13. CASE UNCHANGED vars
    <3>1. Quiet
      BY <2>13 DEF vars, mainVars, statusVars, historyVars
    <3> QED
      BY <3>1, <2>1
  <2> QED
    BY <2>2, <2>3, <2>4, <2>6, <2>7, <2>8, <2>9, <2>10, <2>11, <2>12, <2>13
       DEF Next, OwnerStep, Request, VoteStep, EnterStep, ExitStep, EraseStep
<1>3. Spec => []TypeOK
  BY TypeCorrect
<1> QED
  BY <1>1, <1>2, <1>3, PTL DEF Spec

\* The counter of an occupied spot never leaves the range from which an exit
\* can be confirmed on its lower side, nor that of a free spot its upper side.
THEOREM HysteresisCorrect ==
    ASSUME OneThreshold
    PROVE  Spec => []Hysteresis
<1>1. CounterInv => Hysteresis
  BY DEF CounterInv, CounterAt, Hysteresis
<1>2. Spec => []CounterInv
  BY CounterCorrect
<1> QED
  BY <1>1, <1>2, PTL

\* No status changes on fewer frames than the thresholds ask for, whatever
\* the detector saw before.
THEOREM DebounceCorrect ==
    ASSUME OneThreshold
    PROVE  Spec => Debounced
<1>1. TypeOK /\ CounterInv /\ [Next]_vars =>
        [\A s \in Spots, v \in BOOLEAN :
          Vote(s, v) /\ mOccupied'[s] # mOccupied[s] =>
            votes[s] >= IF v THEN mPositiveThreshold
                            ELSE mPositiveThreshold - mNegativeThreshold + 1
        ]_vars
  <2> SUFFICES ASSUME TypeOK, CounterInv, NEW s \in Spots,
                      NEW v \in BOOLEAN, Vote(s, v),
                      mOccupied'[s] # mOccupied[s]
               PROVE  votes[s] >= IF v THEN mPositiveThreshold
                            ELSE mPositiveThreshold - mNegativeThreshold + 1
    OBVIOUS
  <2>1. Confirms(mOccupiedFrameCounter[s], v) /\ mOccupied[s] # v
    BY DEF Vote, TypeOK
  <2>2. /\ mOccupiedFrameCounter[s] \in Int
        /\ votes[s] \in Nat
        /\ mOccupied[s] \in BOOLEAN
        /\ CounterAt(s)
    BY DEF TypeOK, CounterInv
  <2> QED
    BY <2>1, <2>2, ThresholdTypes DEF Confirms, CounterAt
<1>2. Spec => []CounterInv
  BY CounterCorrect
<1>3. Spec => []TypeOK
  BY TypeCorrect
<1> QED
  BY <1>1, <1>2, <1>3, PTL DEF Spec, Debounced

-----------------------------------------------------------------------------
(***************************************************************************)
(* The deadline timers: when the handler of a wait that was cancelled can  *)
(* report an overstay.                                                     *)
(***************************************************************************)

\* reset() has stopped the timer of the spot and not yet cleared its status.
Resetting(s) == pc = "resetStatus" /\ cur = s

\* The timer of the spot was stopped by reset(), and its thread not joined.
Removing(s) ==
    \/ Resetting(s)
    \/ pc \in {"reset", "resetStatus"} /\ s \notin todo /\ exists[s]
    \/ pc \in {"destroy", "join"} /\ s \in todo

\* A cancelled handler that is due belongs to an earlier stay, or finds the
\* spot free, unless reset() has just stopped the timer.
HandlerLate(s, h) ==
    h.cause = "cancelled" =>
        /\ h.wait.stay <= stay[s]
        /\ h.wait.stay < stay[s] \/ ~mOccupied[s] \/ Resetting(s)

ServiceLate(s) == \A i \in DOMAIN mService[s] : HandlerLate(s, mService[s][i])

RunningLate(s) ==
    mTimerThread[s] # "run" /\ running[s].cause = "cancelled" =>
        running[s].wait.stay < stay[s] \/ Removing(s)

SpotLate(s) ==
    /\ mParkingTimer[s].stay <= stay[s]
    /\ ServiceLate(s)
    /\ RunningLate(s)

\* Where the owning thread cancels a wait: enter() finds the wait of an
\* earlier stay, exit() a spot that is free already, reset() a spot it holds.
OwnerLate ==
    /\ pc = "startTimer" => /\ mOccupied[cur]
                            /\ mParkingTimer[cur].stay < stay[cur]
    /\ pc \in {"pushExit", "stopTimer"} => ~mOccupied[cur]
    /\ pc \in {"reset", "resetStatus"} => todo \subseteq Present
    /\ pc = "resetStatus" => cur \in todo

LateInv == OwnerLate /\ \A s \in Spots : SpotLate(s)

-----------------------------------------------------------------------------
RemovalLabels == {"reset", "resetStatus", "destroy", "join"}

\* The step leaves alone what SpotLate says about the spot.
Same(s) ==
    /\ stay'[s] = stay[s]
    /\ mOccupied'[s] = mOccupied[s]
    /\ mParkingTimer'[s] = mParkingTimer[s]
    /\ mService'[s] = mService[s]
    /\ mTimerThread'[s] = mTimerThread[s]
    /\ running'[s] = running[s]

LEMMA SameKeeps ==
    ASSUME NEW s \in Spots, SpotLate(s), Same(s),
           Resetting(s) => Resetting(s)', Removing(s) => Removing(s)'
    PROVE  SpotLate(s)'
BY DEF SpotLate, Same, ServiceLate, HandlerLate, RunningLate

\* Outside of a removal, or while its thread does not move.
LEMMA AwayFromRemoval ==
    ASSUME NEW s \in Spots,
           pc \notin RemovalLabels \/ UNCHANGED <<mainVars, exists>>
    PROVE  /\ Resetting(s) => Resetting(s)'
           /\ Removing(s) => Removing(s)'
BY DEF Resetting, Removing, RemovalLabels, mainVars

LEMMA HandlerTypes ==
    ASSUME TypeOK, NEW s \in Spots
    PROVE  /\ \A i \in DOMAIN mService[s] : mService[s][i].wait.stay \in Nat
           /\ mParkingTimer[s].stay \in Nat
           /\ running[s].wait.stay \in Nat
           /\ stay[s] \in Nat
<1>1. /\ mService[s] \in Seq(Handlers)
      /\ mParkingTimer[s] \in Waits
      /\ running[s] \in Handlers
      /\ stay[s] \in Nat
  BY DEF TypeOK
<1>2. \A i \in DOMAIN mService[s] : mService[s][i] \in Handlers
  BY <1>1
<1> QED
  BY <1>1, <1>2 DEF Handlers, Waits

\* Ending the pending wait adds at most its own handler.
LEMMA CancelledElements ==
    ASSUME TypeOK, NEW s \in Spots,
           NEW i \in DOMAIN Cancelled(s)
    PROVE  \/ i \in DOMAIN mService[s] /\ Cancelled(s)[i] = mService[s][i]
           \/ Cancelled(s)[i] = [wait |-> mParkingTimer[s],
                                 cause |-> "cancelled"]
<1> DEFINE h == [wait |-> mParkingTimer[s], cause |-> "cancelled"]
<1>1. mService[s] \in Seq(Handlers) /\ mParkingTimer[s] \in Waits
  BY DEF TypeOK
<1>2. h \in Handlers
  BY <1>1 DEF Handlers
<1>3. CASE mParkingTimer[s] = NoWait
  BY <1>3 DEF Cancelled
<1>4. CASE mParkingTimer[s] # NoWait
  <2>1. Cancelled(s) = Append(mService[s], h)
    BY <1>4 DEF Cancelled
  <2> HIDE DEF h
  <2>2. /\ DOMAIN Append(mService[s], h) = 1 .. Len(mService[s]) + 1
        /\ DOMAIN mService[s] = 1 .. Len(mService[s])
        /\ Len(mService[s]) \in Nat
        /\ \A j \in 1 .. Len(mService[s]) :
              Append(mService[s], h)[j] = mService[s][j]
        /\ Append(mService[s], h)[Len(mService[s]) + 1] = h
    BY <1>1, <1>2, AppendProperties
  <2>3. i \in 1 .. Len(mService[s]) \/ i = Len(mService[s]) + 1
    BY <2>1, <2>2
  <2>4. \/ i \in DOMAIN mService[s] /\ Cancelled(s)[i] = mService[s][i]
        \/ Cancelled(s)[i] = h
    BY <2>1, <2>2, <2>3
  <2> QED
    BY <2>4 DEF h
<1> QED
  BY <1>3, <1>4

\* cancel() is called where it leaves only late handlers.
LEMMA CancelKeeps ==
    ASSUME TypeOK, NEW s \in Spots, SpotLate(s),
           mService'[s] = Cancelled(s),
           mParkingTimer'[s].stay <= stay[s],
           stay'[s] = stay[s],
           mOccupied'[s] = mOccupied[s],
           mTimerThread'[s] = mTimerThread[s],
           running'[s] = running[s],
           Resetting(s) => Resetting(s)',
           Removing(s) => Removing(s)',
           mParkingTimer[s].stay < stay[s] \/ ~mOccupied[s] \/ Resetting(s)'
    PROVE  SpotLate(s)'
<1>1. ASSUME NEW i \in DOMAIN Cancelled(s), NEW h, h = Cancelled(s)[i]
      PROVE  HandlerLate(s, h)'
  <2>1. CASE i \in DOMAIN mService[s] /\ h = mService[s][i]
    <3>1. HandlerLate(s, h)
      BY <2>1 DEF SpotLate, ServiceLate
    <3> QED
      BY <3>1 DEF HandlerLate
  <2>2. CASE h = [wait |-> mParkingTimer[s], cause |-> "cancelled"]
    BY <2>2 DEF HandlerLate, SpotLate
  <2> QED
    BY <1>1, <2>1, <2>2, CancelledElements
<1>2. ServiceLate(s)'
  BY <1>1 DEF ServiceLate, HandlerLate
<1> QED
  BY <1>2 DEF SpotLate, RunningLate

\* A step of the owning thread that leaves the timers, the status and the
\* stays alone, outside of enter, exit and reset.
LEMMA QuietOwner ==
    ASSUME TypeOK, LateInv, pc \notin RemovalLabels,
           pc' \notin {"startTimer", "pushExit", "stopTimer", "reset",
                       "resetStatus"},
           UNCHANGED <<mOccupied, stay, waitVars, mTimerThread, running>>
    PROVE  LateInv'
<1>1. OwnerLate'
  BY DEF OwnerLate
<1>2. ASSUME NEW s \in Spots PROVE SpotLate(s)'
  BY SameKeeps, AwayFromRemoval DEF LateInv, Same, waitVars
<1> QED
  BY <1>1, <1>2 DEF LateInv

\* update(bool): a spot becomes occupied with a new stay only.
LEMMA VoteLate ==
    ASSUME TypeOK, LateInv, NEW s \in Spots, NEW v \in BOOLEAN, Vote(s, v)
    PROVE  LateInv'
<1> DEFINE flips == Confirms(mOccupiedFrameCounter[s], v) /\ mOccupied[s] # v
<1>1. /\ pc = "spots" /\ cur' = s
      /\ pc' = CASE flips /\ v  -> "startTimer"
                 [] flips /\ ~v -> "exit"
                 [] OTHER       -> "spots"
      /\ UNCHANGED <<mParkingTimer, mService, mTimerThread, running>>
  BY DEF Vote, waitVars, threadVars
<1>2. /\ mOccupied'[s] = IF flips THEN v ELSE mOccupied[s]
      /\ stay'[s] = IF flips /\ v THEN stay[s] + 1 ELSE stay[s]
      /\ \A u \in Spots \ {s} : mOccupied'[u] = mOccupied[u]
                                /\ stay'[u] = stay[u]
  <2>1. mOccupied \in [Spots -> BOOLEAN] /\ stay \in [Spots -> Nat]
    BY DEF TypeOK
  <2> QED
    BY <2>1 DEF Vote
<1> HIDE DEF flips
<1>3. SpotLate(s)
  BY DEF LateInv
<1>4. SpotLate(s)'
  <2>1. mParkingTimer'[s].stay <= stay'[s]
    BY <1>1, <1>2, <1>3, HandlerTypes DEF SpotLate
  <2>2. RunningLate(s)'
    BY <1>1, <1>2, <1>3, HandlerTypes DEF SpotLate, RunningLate, Removing,
       Resetting
  <2>3. ASSUME NEW i \in DOMAIN mService[s], NEW h, h = mService[s][i]
        PROVE  HandlerLate(s, h)'
    <3>1. HandlerLate(s, h) /\ h.wait.stay \in Nat /\ stay[s] \in Nat
      BY <1>3, <2>3, HandlerTypes DEF SpotLate, ServiceLate
    <3>2. CASE flips /\ v
      BY <1>2, <3>1, <3>2 DEF HandlerLate
    <3>3. CASE ~(flips /\ v)
      <4>1. stay'[s] = stay[s] /\ (~mOccupied[s] => ~mOccupied'[s])
        BY <1>2, <3>3
      <4> QED
        BY <1>1, <3>1, <4>1 DEF HandlerLate, Resetting
    <3> QED
      BY <3>2, <3>3
  <2>4. ServiceLate(s)'
    BY <1>1, <2>3 DEF ServiceLate, HandlerLate
  <2> QED
    BY <2>1, <2>2, <2>4 DEF SpotLate
<1>5. ASSUME NEW u \in Spots, u # s PROVE SpotLate(u)'
  BY <1>1, <1>2, <1>5, SameKeeps, AwayFromRemoval
     DEF LateInv, Same, RemovalLabels
<1>6. OwnerLate'
  <2>1. CASE flips /\ v
    BY <1>1, <1>2, <1>3, <2>1, HandlerTypes DEF OwnerLate, SpotLate
  <2>2. CASE ~(flips /\ v)
    <3>1. pc' \in {"exit", "spots"}
      BY <1>1, <2>2
    <3> QED
      BY <3>1 DEF OwnerLate
  <2> QED
    BY <2>1, <2>2
<1> QED
  BY <1>4, <1>5, <1>6 DEF LateInv

\* startTimer in enter(): the pending wait is of an earlier stay.
LEMMA EnterLate ==
    ASSUME TypeOK, LateInv, NEW s \in Spots, EnterStartTimer(s)
    PROVE  LateInv'
<1>1. /\ pc = "startTimer" /\ cur = s /\ pc' = "pushEnter"
      /\ UNCHANGED <<mTimerThread, running, stay>>
  BY DEF EnterStartTimer, threadVars, historyVars
<1>2. mOccupied' = mOccupied
  BY DEF EnterStartTimer, LateInv, OwnerLate, TypeOK
<1>3. PICK seconds : Arm(s, seconds)
  BY DEF EnterStartTimer, StartTimer, StartReservedTimer
<1>4. /\ mService'[s] = Cancelled(s)
      /\ mParkingTimer'[s].stay = stay[s]
      /\ \A u \in Spots \ {s} : mService'[u] = mService[u]
                                /\ mParkingTimer'[u] = mParkingTimer[u]
  BY <1>3 DEF Arm, TypeOK
<1>5. SpotLate(s)'
  <2>1. mParkingTimer[s].stay < stay[s]
    BY <1>1 DEF LateInv, OwnerLate
  <2> QED
    BY <1>1, <1>2, <1>4, <2>1, CancelKeeps, AwayFromRemoval, HandlerTypes
       DEF LateInv, RemovalLabels
<1>6. ASSUME NEW u \in Spots, u # s PROVE SpotLate(u)'
  BY <1>1, <1>2, <1>4, <1>6, SameKeeps, AwayFromRemoval
     DEF LateInv, Same, RemovalLabels
<1>7. OwnerLate'
  BY <1>1 DEF OwnerLate
<1> QED
  BY <1>5, <1>6, <1>7 DEF LateInv

\* exit() clears mOccupied ...
LEMMA ExitClearLate ==
    ASSUME TypeOK, LateInv, NEW s \in Spots, ExitClear(s)
    PROVE  LateInv'
<1>1. /\ pc = "exit" /\ cur = s /\ pc' = "pushExit" /\ cur' = cur
      /\ UNCHANGED <<mParkingTimer, mService, mTimerThread, running, stay>>
  BY DEF ExitClear, waitVars, threadVars, historyVars
<1>2. /\ mOccupied'[s] = FALSE
      /\ \A u \in Spots \ {s} : mOccupied'[u] = mOccupied[u]
  BY DEF ExitClear, TypeOK
<1>3. SpotLate(s)'
  BY <1>1, <1>2 DEF LateInv, SpotLate, ServiceLate, HandlerLate,
     RunningLate, Removing, Resetting
<1>4. ASSUME NEW u \in Spots, u # s PROVE SpotLate(u)'
  BY <1>1, <1>2, <1>4, SameKeeps, AwayFromRemoval
     DEF LateInv, Same, RemovalLabels
<1>5. OwnerLate'
  BY <1>1, <1>2 DEF OwnerLate
<1> QED
  BY <1>3, <1>4, <1>5 DEF LateInv

\* ... before it stops the timer.
LEMMA ExitStopLate ==
    ASSUME TypeOK, LateInv, NEW s \in Spots, ExitStopTimer(s)
    PROVE  LateInv'
<1>1. /\ pc = "stopTimer" /\ cur = s /\ pc' \in {"spots", "frame"}
      /\ UNCHANGED <<mOccupied, mTimerThread, running, stay>>
  BY DEF ExitStopTimer, statusVars, threadVars, historyVars
<1>2. /\ mService'[s] = Cancelled(s)
      /\ mParkingTimer'[s] = NoWait
      /\ \A u \in Spots \ {s} : mService'[u] = mService[u]
                                /\ mParkingTimer'[u] = mParkingTimer[u]
  BY DEF ExitStopTimer, StopTimer, TypeOK
<1>3. SpotLate(s)'
  <2>1. ~mOccupied[s]
    BY <1>1 DEF LateInv, OwnerLate
  <2>2. mParkingTimer'[s].stay <= stay[s]
    BY <1>2, HandlerTypes DEF NoWait
  <2> QED
    BY <1>1, <1>2, <2>1, <2>2, CancelKeeps, AwayFromRemoval
       DEF LateInv, RemovalLabels
<1>4. ASSUME NEW u \in Spots, u # s PROVE SpotLate(u)'
  BY <1>1, <1>2, <1>4, SameKeeps, AwayFromRemoval
     DEF LateInv, Same, RemovalLabels
<1>5. OwnerLate'
  BY <1>1 DEF OwnerLate
<1> QED
  BY <1>3, <1>4, <1>5 DEF LateInv

-----------------------------------------------------------------------------
\* reset() stops the timer of a spot that may still be occupied.
LEMMA ResetTimerLate ==
    ASSUME TypeOK, LateInv, NEW s \in Spots, ResetTimer(s)
    PROVE  LateInv'
<1>1. /\ pc = "reset" /\ s \in todo
      /\ cur' = s /\ pc' = "resetStatus"
      /\ UNCHANGED <<todo, exists, mOccupied, mTimerThread, running, stay>>
  BY DEF ResetTimer, IsNext, statusVars, attrVars, threadVars, historyVars
<1>2. /\ mService'[s] = Cancelled(s)
      /\ mParkingTimer'[s] = NoWait
      /\ \A u \in Spots \ {s} : mService'[u] = mService[u]
                                /\ mParkingTimer'[u] = mParkingTimer[u]
  BY DEF ResetTimer, StopTimer, TypeOK
<1>3. ASSUME NEW u \in Spots
      PROVE  /\ Resetting(u) => Resetting(u)'
             /\ Removing(u) => Removing(u)'
  BY <1>1 DEF Resetting, Removing
<1>4. SpotLate(s)'
  <2>1. mParkingTimer'[s].stay <= stay[s]
    BY <1>2, HandlerTypes DEF NoWait
  <2>2. Resetting(s)'
    BY <1>1 DEF Resetting
  <2> QED
    BY <1>1, <1>2, <1>3, <2>1, <2>2, CancelKeeps DEF LateInv
<1>5. ASSUME NEW u \in Spots, u # s PROVE SpotLate(u)'
  BY <1>1, <1>2, <1>3, <1>5, SameKeeps DEF LateInv, Same
<1>6. OwnerLate'
  BY <1>1 DEF LateInv, OwnerLate, Present
<1> QED
  BY <1>4, <1>5, <1>6 DEF LateInv

\* Then it clears the status.
LEMMA ResetStatusLate ==
    ASSUME TypeOK, LateInv, NEW s \in Spots, ResetStatus(s)
    PROVE  LateInv'
<1>1. /\ pc = "resetStatus" /\ cur = s
      /\ todo' = IF todo = {s} THEN Present ELSE todo \ {s}
      /\ pc' = IF todo = {s} THEN "destroy" ELSE "reset"
      /\ UNCHANGED <<cur, exists, mParkingTimer, mService, mTimerThread,
                     running, stay>>
  BY DEF ResetStatus, attrVars, waitVars, threadVars
<1>2. /\ mOccupied'[s] = FALSE
      /\ \A u \in Spots \ {s} : mOccupied'[u] = mOccupied[u]
  BY DEF ResetStatus, ClearStatus, TypeOK
<1>3. s \in todo /\ todo \subseteq Present
  BY <1>1 DEF LateInv, OwnerLate
<1>4. ASSUME NEW u \in Spots PROVE Removing(u) => Removing(u)'
  BY <1>1, <1>3 DEF Removing, Resetting, Present
<1>5. SpotLate(s)'
  BY <1>1, <1>2, <1>4 DEF LateInv, SpotLate, ServiceLate, HandlerLate,
     RunningLate
<1>6. ASSUME NEW u \in Spots, u # s PROVE SpotLate(u)'
  <2>1. ~Resetting(u)
    BY <1>1, <1>6 DEF Resetting
  <2> QED
    BY <1>1, <1>2, <1>4, <1>6, <2>1, SameKeeps DEF LateInv, Same
<1>7. OwnerLate'
  BY <1>1, <1>3 DEF OwnerLate, Present
<1> QED
  BY <1>5, <1>6, <1>7 DEF LateInv

\* The destructor drops what is due ...
LEMMA StopLate ==
    ASSUME TypeOK, LateInv, NEW s \in Spots, Stop(s)
    PROVE  LateInv'
<1>1. /\ pc = "destroy" /\ pc' = "join"
      /\ UNCHANGED <<todo, exists, mOccupied, mTimerThread, running, stay>>
  BY DEF Stop, statusVars, attrVars, threadVars, historyVars
<1>2. /\ mService'[s] = <<>>
      /\ mParkingTimer'[s] = NoWait
      /\ \A u \in Spots \ {s} : mService'[u] = mService[u]
                                /\ mParkingTimer'[u] = mParkingTimer[u]
  BY DEF Stop, TypeOK
<1>3. ASSUME NEW u \in Spots
      PROVE  /\ Resetting(u) => Resetting(u)'
             /\ Removing(u) => Removing(u)'
  BY <1>1 DEF Resetting, Removing
<1>4. SpotLate(s)'
  <2>1. mParkingTimer'[s].stay <= stay'[s]
    BY <1>1, <1>2, HandlerTypes DEF NoWait
  <2>2. ServiceLate(s)'
    BY <1>2 DEF ServiceLate
  <2>3. RunningLate(s)'
    BY <1>1, <1>3 DEF LateInv, SpotLate, RunningLate
  <2> QED
    BY <2>1, <2>2, <2>3 DEF SpotLate
<1>5. ASSUME NEW u \in Spots, u # s PROVE SpotLate(u)'
  BY <1>1, <1>2, <1>3, <1>5, SameKeeps DEF LateInv, Same
<1>6. OwnerLate'
  BY <1>1 DEF OwnerLate
<1> QED
  BY <1>4, <1>5, <1>6 DEF LateInv

\* ... and waits for the handler that runs.
LEMMA JoinLate ==
    ASSUME TypeOK, LateInv, NEW s \in Spots, Join(s)
    PROVE  LateInv'
<1>1. /\ pc = "join" /\ cur = s /\ mTimerThread[s] = "run"
      /\ todo' = todo \ {s}
      /\ pc' = IF todo = {s} THEN "frame" ELSE "destroy"
      /\ UNCHANGED <<mParkingTimer, mService, mTimerThread, running, stay>>
  BY DEF Join, waitVars, threadVars
<1>2. /\ mOccupied'[s] = FALSE
      /\ \A u \in Spots \ {s} : mOccupied'[u] = mOccupied[u]
  BY DEF Join, ClearStatus, TypeOK
<1>3. SpotLate(s)'
  BY <1>1, <1>2 DEF LateInv, SpotLate, ServiceLate, HandlerLate,
     RunningLate
<1>4. ASSUME NEW u \in Spots, u # s PROVE SpotLate(u)'
  <2>1. ~Resetting(u)
    BY <1>1 DEF Resetting
  <2>2. Removing(u) => Removing(u)'
    BY <1>1, <1>4 DEF Removing, Resetting
  <2> QED
    BY <1>1, <1>2, <1>4, <2>1, <2>2, SameKeeps DEF LateInv, Same
<1>5. OwnerLate'
  BY <1>1 DEF OwnerLate
<1> QED
  BY <1>3, <1>4, <1>5 DEF LateInv

-----------------------------------------------------------------------------
\* What the timer threads do leaves the owning thread where it is.
LEMMA OwnerStays ==
    ASSUME OwnerLate, UNCHANGED <<mainVars, exists, mOccupied, stay>>,
           \A s \in Spots : mParkingTimer[s].stay < stay[s] =>
                            mParkingTimer'[s].stay < stay[s],
           cur \in Spots
    PROVE  OwnerLate'
BY DEF OwnerLate, mainVars, Present

\* The deadline passes: the handler that is due was not cancelled.
LEMMA ExpireLate ==
    ASSUME TypeOK, LateInv, NEW s \in Spots, Expire(s)
    PROVE  LateInv'
<1> DEFINE h == [wait |-> mParkingTimer[s], cause |-> "expired"]
           q == mService[s]
<1>1. UNCHANGED <<mainVars, exists, mOccupied, mTimerThread, running, stay>>
  BY DEF Expire, statusVars, attrVars, threadVars, historyVars
<1>2. /\ mService'[s] = Append(q, h)
      /\ mParkingTimer'[s] = NoWait
      /\ \A u \in Spots \ {s} : mService'[u] = mService[u]
                                /\ mParkingTimer'[u] = mParkingTimer[u]
  BY DEF Expire, TypeOK
<1>3. ASSUME NEW u \in Spots
      PROVE  /\ Resetting(u) => Resetting(u)'
             /\ Removing(u) => Removing(u)'
  BY <1>1, AwayFromRemoval
<1>4. SpotLate(s)'
  <2>1. mParkingTimer'[s].stay <= stay'[s]
    BY <1>1, <1>2, HandlerTypes DEF NoWait
  <2>2. ServiceLate(s)'
    <3>1. q \in Seq(Handlers) /\ h \in Handlers
      BY DEF TypeOK, Handlers
    <3>2. h.cause # "cancelled"
      OBVIOUS
    <3> HIDE DEF h, q
    <3>3. /\ DOMAIN Append(q, h) = 1 .. Len(q) + 1
          /\ DOMAIN q = 1 .. Len(q)
          /\ Len(q) \in Nat
          /\ \A j \in 1 .. Len(q) : Append(q, h)[j] = q[j]
          /\ Append(q, h)[Len(q) + 1] = h
      BY <3>1, AppendProperties
    <3>4. ASSUME NEW i \in DOMAIN Append(q, h), NEW g, g = Append(q, h)[i]
          PROVE  HandlerLate(s, g)'
      <4>1. CASE i = Len(q) + 1
        BY <3>2, <3>3, <3>4, <4>1 DEF HandlerLate
      <4>2. CASE i \in 1 .. Len(q)
        <5>1. HandlerLate(s, g)
          BY <3>3, <3>4, <4>2 DEF LateInv, SpotLate, ServiceLate, q
        <5> QED
          BY <1>1, <1>3, <5>1 DEF HandlerLate
      <4> QED
        BY <3>3, <4>1, <4>2
    <3> QED
      BY <1>2, <3>4 DEF ServiceLate, HandlerLate
  <2>3. RunningLate(s)'
    BY <1>1, <1>3 DEF LateInv, SpotLate, RunningLate
  <2> QED
    BY <2>1, <2>2, <2>3 DEF SpotLate
<1>5. ASSUME NEW u \in Spots, u # s PROVE SpotLate(u)'
  BY <1>1, <1>2, <1>3, <1>5, SameKeeps DEF LateInv, Same
<1>6. OwnerLate'
  <2>1. ASSUME NEW u \in Spots, mParkingTimer[u].stay < stay[u]
        PROVE  mParkingTimer'[u].stay < stay[u]
    BY <1>2, <2>1, HandlerTypes DEF NoWait
  <2>2. cur \in Spots
    BY DEF TypeOK
  <2> QED
    BY <1>1, <2>1, <2>2, OwnerStays DEF LateInv
<1> QED
  BY <1>4, <1>5, <1>6 DEF LateInv

\* notifyExpiration starts only on a spot that is occupied.
LEMMA NotifyLate ==
    ASSUME TypeOK, LateInv, NEW s \in Spots, NotifyExpiration(s)
    PROVE  LateInv'
<1> DEFINE q == mService[s]
<1>1. /\ UNCHANGED <<mainVars, exists, mOccupied, mParkingTimer, stay>>
      /\ mTimerThread[s] = "run" /\ q # <<>>
  BY DEF NotifyExpiration, statusVars, attrVars, historyVars
<1>2. /\ mService'[s] = Tail(q)
      /\ mTimerThread'[s] # "run" =>
            mOccupied[s] /\ running'[s] = Head(q)
      /\ \A u \in Spots \ {s} : /\ mService'[u] = mService[u]
                                /\ mTimerThread'[u] = mTimerThread[u]
                                /\ running'[u] = running[u]
  BY <1>1 DEF NotifyExpiration, TypeOK
<1>3. ASSUME NEW u \in Spots
      PROVE  /\ Resetting(u) => Resetting(u)'
             /\ Removing(u) => Removing(u)'
  BY <1>1, AwayFromRemoval
<1>4. SpotLate(s)
  BY DEF LateInv
<1>5. SpotLate(s)'
  <2>1. /\ q \in Seq(Handlers) /\ Len(q) \in Nat /\ Len(q) > 0
        /\ DOMAIN q = 1 .. Len(q)
        /\ Head(q) = q[1]
        /\ DOMAIN Tail(q) = 1 .. Len(q) - 1
        /\ \A i \in 1 .. Len(q) - 1 : Tail(q)[i] = q[i + 1]
    <3>1. q \in Seq(Handlers)
      BY DEF TypeOK
    <3> HIDE DEF q
    <3> QED
      BY <1>1, <3>1, EmptySeq, HeadTailProperties
  <2> HIDE DEF q
  <2>2. ServiceLate(s)'
    <3>1. ASSUME NEW i \in DOMAIN Tail(q), NEW g, g = Tail(q)[i]
          PROVE  HandlerLate(s, g)'
      <4>1. i + 1 \in DOMAIN q /\ g = q[i + 1]
        BY <2>1, <3>1
      <4>2. HandlerLate(s, g)
        BY <1>4, <4>1 DEF SpotLate, ServiceLate, q
      <4> QED
        BY <1>1, <1>3, <4>2 DEF HandlerLate
    <3> QED
      BY <1>2, <3>1 DEF ServiceLate, HandlerLate
  <2>3. RunningLate(s)'
    <3>1. HandlerLate(s, Head(q))
      BY <1>4, <2>1 DEF SpotLate, ServiceLate, q
    <3>2. Resetting(s) => Removing(s)'
      BY <1>3 DEF Removing
    <3> QED
      BY <1>1, <1>2, <3>1, <3>2 DEF RunningLate, HandlerLate
  <2>4. mParkingTimer'[s].stay <= stay'[s]
    BY <1>1, <1>4 DEF SpotLate
  <2> QED
    BY <2>2, <2>3, <2>4 DEF SpotLate
<1>6. ASSUME NEW u \in Spots, u # s PROVE SpotLate(u)'
  BY <1>1, <1>2, <1>3, <1>6, SameKeeps DEF LateInv, Same
<1>7. OwnerLate'
  BY <1>1, OwnerStays DEF LateInv, TypeOK
<1> QED
  BY <1>5, <1>6, <1>7 DEF LateInv

\* The rest of notifyExpiration goes on with the handler it has, or ends.
LEMMA HandlerRuns ==
    ASSUME TypeOK, LateInv, NEW s \in Spots,
           ComputeTime(s) \/ OverFlag(s) \/ OverPush(s)
    PROVE  LateInv'
<1>1. UNCHANGED <<mainVars, exists, mOccupied, waitVars, stay>>
  BY DEF ComputeTime, OverFlag, OverPush, statusVars, attrVars, historyVars
<1>2. /\ mTimerThread[s] # "run"
      /\ mTimerThread'[s] = "run" \/ running'[s] = running[s]
      /\ \A u \in Spots \ {s} : /\ mTimerThread'[u] = mTimerThread[u]
                                /\ running'[u] = running[u]
  BY DEF ComputeTime, OverFlag, OverPush, TypeOK
<1>3. ASSUME NEW u \in Spots
      PROVE  /\ Resetting(u) => Resetting(u)'
             /\ Removing(u) => Removing(u)'
  BY <1>1, AwayFromRemoval
<1>4. SpotLate(s)'
  BY <1>1, <1>2, <1>3
     DEF LateInv, SpotLate, ServiceLate, HandlerLate, RunningLate, waitVars
<1>5. ASSUME NEW u \in Spots, u # s PROVE SpotLate(u)'
  BY <1>1, <1>2, <1>3, <1>5, SameKeeps DEF LateInv, Same, waitVars
<1>6. OwnerLate'
  BY <1>1, OwnerStays DEF LateInv, TypeOK, waitVars
<1> QED
  BY <1>4, <1>5, <1>6 DEF LateInv

-----------------------------------------------------------------------------
\* The steps of enter(), exit(), the keys and clear() between those above.
LEMMA BetweenLate ==
    ASSUME TypeOK, LateInv, NEW s \in Spots,
           EnterPush(s) \/ EnterSetTime(s) \/ KeyExit(s) \/ Erase(s)
    PROVE  LateInv'
<1>1. pc \notin RemovalLabels
  BY DEF EnterPush, EnterSetTime, KeyExit, Erase, RemovalLabels
<1>2. pc' \notin {"startTimer", "pushExit", "stopTimer", "reset",
                  "resetStatus"}
  BY DEF EnterPush, EnterSetTime, KeyExit, Erase
<1>3. UNCHANGED <<mOccupied, stay, waitVars, mTimerThread, running>>
  BY DEF EnterPush, EnterSetTime, KeyExit, Erase, statusVars, threadVars,
         historyVars
<1> QED
  BY <1>1, <1>2, <1>3, QuietOwner

LEMMA ExitPushLate ==
    ASSUME TypeOK, LateInv, NEW s \in Spots, ExitPush(s)
    PROVE  LateInv'
<1>1. /\ pc = "pushExit" /\ pc' = "stopTimer" /\ cur' = cur
      /\ UNCHANGED <<mOccupied, stay, waitVars, mTimerThread, running>>
  BY DEF ExitPush, statusVars, threadVars
<1>2. OwnerLate'
  BY <1>1 DEF LateInv, OwnerLate
<1>3. ASSUME NEW u \in Spots PROVE SpotLate(u)'
  BY <1>1, SameKeeps, AwayFromRemoval
     DEF LateInv, Same, RemovalLabels, waitVars
<1> QED
  BY <1>2, <1>3 DEF LateInv

LEMMA ClearLate ==
    ASSUME TypeOK, LateInv, Clear
    PROVE  LateInv'
<1>1. /\ pc = "frame" /\ pc' = "reset" /\ todo' = Present
      /\ UNCHANGED <<exists, mOccupied, stay, waitVars, mTimerThread,
                     running>>
  BY DEF Clear, statusVars, attrVars, threadVars, historyVars
<1>2. OwnerLate'
  BY <1>1 DEF OwnerLate, Present
<1>3. ASSUME NEW u \in Spots PROVE SpotLate(u)'
  BY <1>1, SameKeeps, AwayFromRemoval
     DEF LateInv, Same, RemovalLabels, waitVars
<1> QED
  BY <1>2, <1>3 DEF LateInv

\* A cancelled handler is late at every step of every thread.
THEOREM LateCorrect == Spec => []LateInv
<1>1. Init => LateInv
  BY DEF Init, LateInv, OwnerLate, SpotLate, ServiceLate, RunningLate, NoWait
<1>2. TypeOK /\ LateInv /\ [Next]_vars => LateInv'
  <2> SUFFICES ASSUME TypeOK, LateInv, [Next]_vars PROVE LateInv'
    OBVIOUS
  <2>1. CASE Frame \/ EndSpots \/ NoKey
    <3>1. pc \notin RemovalLabels
      BY <2>1 DEF Frame, EndSpots, NoKey, RemovalLabels
    <3>2. pc' \in {"spots", "keys", "frame"}
      BY <2>1 DEF Frame, EndSpots, NoKey
    <3>3. UNCHANGED <<mOccupied, stay, waitVars, mTimerThread, running>>
      BY <2>1 DEF Frame, EndSpots, NoKey, statusVars, threadVars,
         historyVars
    <3> QED
      BY <3>1, <3>2, <3>3, QuietOwner
  <2>2. ASSUME NEW s \in Spots, VoteStep(s) PROVE LateInv'
    BY <2>2, VoteLate DEF VoteStep
  <2>3. ASSUME NEW s \in Spots, EnterStep(s) PROVE LateInv'
    BY <2>3, EnterLate, BetweenLate DEF EnterStep
  <2>4. ASSUME NEW s \in Spots, ExitStep(s) PROVE LateInv'
    BY <2>4, ExitClearLate, ExitPushLate, ExitStopLate DEF ExitStep
  <2>5. ASSUME NEW s \in Spots, EraseStep(s) PROVE LateInv'
    BY <2>5, ResetTimerLate, ResetStatusLate, StopLate, JoinLate
       DEF EraseStep
  <2>6. ASSUME NEW s \in Spots, KeyExit(s) \/ Erase(s) PROVE LateInv'
    BY <2>6, BetweenLate
  <2>7. CASE Clear
    BY <2>7, ClearLate
  <2>8. ASSUME NEW s \in Spots, NEW limit \in Limits,
               UpdateAttributes(s, limit) \/ Add(s, limit)
        PROVE  LateInv'
    <3>1. pc = "frame" /\ pc' = "frame"
      BY <2>8 DEF UpdateAttributes, Add, mainVars
    <3>2. UNCHANGED <<mOccupied, stay, waitVars, mTimerThread, running>>
      BY <2>8 DEF UpdateAttributes, Add, statusVars, threadVars, historyVars
    <3> QED
      BY <3>1, <3>2, QuietOwner DEF RemovalLabels
  <2>9. CASE \/ \E n \in EnterCounts : SetPositiveThreshold(n)
             \/ \E n \in ExitCounts : SetNegativeThreshold(n)
    <3>1. pc = "frame" /\ pc' = "frame"
      BY <2>9 DEF SetPositiveThreshold, SetNegativeThreshold, mainVars
    <3>2. UNCHANGED <<mOccupied, stay, waitVars, mTimerThread, running>>
      BY <2>9 DEF SetPositiveThreshold, SetNegativeThreshold, statusVars,
         threadVars, historyVars
    <3> QED
      BY <3>1, <3>2, QuietOwner DEF RemovalLabels
  <2>10. ASSUME NEW s \in Spots, Expire(s) \/ TimerStep(s) PROVE LateInv'
    BY <2>10, ExpireLate, NotifyLate, HandlerRuns DEF TimerStep
  <2>11. CASE UNCHANGED vars
    <3>1. UNCHANGED <<mainVars, exists, mOccupied, stay, waitVars,
                      mTimerThread, running>>
      BY <2>11 DEF vars, statusVars, attrVars, threadVars, historyVars
    <3>2. ASSUME NEW s \in Spots PROVE SpotLate(s)'
      BY <3>1, SameKeeps, AwayFromRemoval DEF LateInv, Same, waitVars
    <3>3. OwnerLate'
      BY <3>1, OwnerStays DEF LateInv, TypeOK, waitVars
    <3> QED
      BY <3>2, <3>3 DEF LateInv
  <2> QED
    BY <2>1, <2>2, <2>3, <2>4, <2>5, <2>6, <2>7, <2>8, <2>9, <2>10, <2>11
       DEF Next, OwnerStep, Request
<1>3. Spec => []TypeOK
  BY TypeCorrect
<1> QED
  BY <1>1, <1>2, <1>3, PTL DEF Spec

\* The timer of a stay that ended by exit() reports nothing for it: its
\* cancelled handler passes the test of mOccupied in notifyExpiration only in
\* a later stay, or while the spot is being removed.
THEOREM CancelledCorrect == Spec => []CancelledIsLate
<1>1. LateInv => CancelledIsLate
  BY DEF LateInv, SpotLate, RunningLate, Removing, Resetting,
     CancelledIsLate
<1>2. Spec => []LateInv
  BY LateCorrect
<1> QED
  BY <1>1, <1>2, PTL
=============================================================================
