---------------------------- MODULE ParkingSpot ----------------------------
(***************************************************************************)
(* The parking spots of the sensor: the frame counter that turns the       *)
(* detector's votes into "occupied" and "free", the messages an entry, an  *)
(* exit and an overstay push on the upload queue, and the deadline timer   *)
(* that runs on a thread of its own for every spot (ParkingSpot.cpp).      *)
(*                                                                         *)
(* Threads.  `pc' is the thread that owns the spots: the main loop of      *)
(* MainInterface::run, or, while that loop is suspended at `frame', the    *)
(* TCP listener that updates the settings (the hand-over itself is module  *)
(* ManagementMode).  Every spot has a timer thread, `mTimerThread[s]',     *)
(* that nothing suspends.                                                  *)
(*                                                                         *)
(* Time is abstract: an instant is named by the stay it belongs to, and a  *)
(* deadline may pass at any moment, except that a positive time limit is   *)
(* longer than the call of enter() that starts its timer.                  *)
(***************************************************************************)
EXTENDS Integers, Sequences, FiniteSets

CONSTANTS
    Spots,            \* identifiers of the parking spots
    Limits,           \* time limits of a spot, in seconds
    Reservations,     \* minutes granted to a reserved vehicle (entVehicle)
    SensorFlags,      \* values isReservation_sensor, never assigned, may hold
    EnterCounts,      \* values mPositiveThreshold may be given
    ExitCounts,       \* values mNegativeThreshold may be given, negated
    DebugKeys,        \* TRUE if the operator presses the keys '1'..'9'
    MaxStays,         \* bound: vehicles per spot
    MaxIncarnations   \* bound: times a spot object is constructed

ASSUME ParkingSpotAssumption ==
    /\ Spots \subseteq Nat
    /\ Limits \subseteq Nat
    /\ Reservations \subseteq Nat
    /\ SensorFlags \subseteq BOOLEAN
    /\ EnterCounts \subseteq Nat
    /\ ExitCounts \subseteq Nat
    /\ DebugKeys \in BOOLEAN
    /\ MaxStays \in Nat
    /\ MaxIncarnations \in Nat \ {0}

VARIABLES
    pc,                      \* where the thread that owns the spots is
    cur,                     \* the spot it is working on
    todo,                    \* the spots its present loop has still to visit
    exists,                  \* the spot is in ParkingSpotManager's map
    mOccupied,
    mOverstayed,
    mOccupiedFrameCounter,
    mTimeLimit,
    mEntryTime,              \* the stay whose entry time is stored, 0: none
    isReservation_sensor,
    mPositiveThreshold,
    mNegativeThreshold,
    mParkingTimer,           \* the pending wait, NoWait when there is none
    mService,                \* handlers the io_service has yet to run
    mTimerThread,            \* where the timer thread is in notifyExpiration
    running,                 \* the handler it is running
    time,                    \* its local variable `time'
    pushed,                  \* what was pushed on the upload queue, in order
    stay,                    \* number of vehicles that entered
    incarnation,             \* number of times the spot was constructed
    votes                    \* votes against mOccupied since it last changed

mainVars      == <<pc, cur, todo>>
statusVars    == <<mOccupied, mOverstayed, mOccupiedFrameCounter>>
attrVars      == <<exists, mTimeLimit, isReservation_sensor>>
thresholdVars == <<mPositiveThreshold, mNegativeThreshold>>
waitVars      == <<mParkingTimer, mService>>
threadVars    == <<mTimerThread, running, time>>
historyVars   == <<pushed, stay, incarnation, votes>>
vars == <<mainVars, statusVars, attrVars, mEntryTime, thresholdVars,
          waitVars, threadVars, historyVars>>

-----------------------------------------------------------------------------
Minute == 60

\* An instant: so many seconds after the entry of a stay.
Instants == [entry : Nat, seconds : Nat]
NoTime   == [entry |-> 0, seconds |-> 0]

\* A wait on the deadline timer, for the stay that started it.
Waits  == [stay : Nat, seconds : Nat]
NoWait == [stay |-> 0, seconds |-> 0]

\* A completion handler: the wait it belongs to, and how that wait ended.
Handlers  == [wait : Waits, cause : {"expired", "cancelled"}]
NoHandler == [wait |-> NoWait, cause |-> "cancelled"]

Requests == {"ENTER", "EXIT", "OVER"}
Messages == [req : Requests, stay : Nat, incarnation : Nat,
             time : Instants, handler : Handlers]

Present == {s \in Spots : exists[s]}

\* The spots are visited in the order of the map, by increasing identifier.
IsNext(s) == s \in todo /\ \A u \in todo : s <= u

\* Cap of the history variable `votes'.
VoteCap == mPositiveThreshold - mNegativeThreshold + 1

MainLabels  == {"frame", "spots", "startTimer", "pushEnter", "entryTime",
                "exit", "pushExit", "stopTimer", "keys", "reset",
                "resetStatus", "destroy", "join"}
TimerLabels == {"run", "time", "flag", "push"}

TypeOK ==
    /\ pc \in MainLabels
    /\ cur \in Spots
    /\ todo \subseteq Spots
    /\ exists \in [Spots -> BOOLEAN]
    /\ mOccupied \in [Spots -> BOOLEAN]
    /\ mOverstayed \in [Spots -> BOOLEAN]
    /\ mOccupiedFrameCounter \in [Spots -> Int]
    /\ mTimeLimit \in [Spots -> Limits \cup Reservations]
    /\ mEntryTime \in [Spots -> Nat]
    /\ isReservation_sensor \in [Spots -> SensorFlags]
    /\ mPositiveThreshold \in EnterCounts
    /\ \E n \in ExitCounts : mNegativeThreshold = -n
    /\ mParkingTimer \in [Spots -> Waits]
    /\ mService \in [Spots -> Seq(Handlers)]
    /\ mTimerThread \in [Spots -> TimerLabels]
    /\ running \in [Spots -> Handlers]
    /\ time \in [Spots -> Instants]
    /\ pushed \in [Spots -> Seq(Messages)]
    /\ stay \in [Spots -> Nat]
    /\ incarnation \in [Spots -> Nat]
    /\ votes \in [Spots -> Nat]

-----------------------------------------------------------------------------
\* The sensor starts with every spot of parkingspots.json constructed.
Init ==
    /\ pc = "frame"
    /\ cur \in {s \in Spots : \A u \in Spots : s <= u}
    /\ todo = {}
    /\ exists = [s \in Spots |-> TRUE]
    /\ mOccupied = [s \in Spots |-> FALSE]
    /\ mOverstayed = [s \in Spots |-> FALSE]
    /\ mOccupiedFrameCounter = [s \in Spots |-> 0]
    /\ mTimeLimit \in [Spots -> Limits]
    /\ mEntryTime = [s \in Spots |-> 0]
    /\ isReservation_sensor \in [Spots -> SensorFlags]
    /\ mPositiveThreshold \in EnterCounts
    /\ \E n \in ExitCounts : mNegativeThreshold = -n
    /\ mParkingTimer = [s \in Spots |-> NoWait]
    /\ mService = [s \in Spots |-> <<>>]
    /\ mTimerThread = [s \in Spots |-> "run"]
    /\ running = [s \in Spots |-> NoHandler]
    /\ time = [s \in Spots |-> NoTime]
    /\ pushed = [s \in Spots |-> <<>>]
    /\ stay = [s \in Spots |-> 0]
    /\ incarnation = [s \in Spots |-> 1]
    /\ votes = [s \in Spots |-> 0]

-----------------------------------------------------------------------------
\* The frame counter.  Counts(c, v): the vote moves the counter; Confirms(c,
\* v): the counter is past the threshold, and the vote decides the status.
\* Mutant: the counter stops one short of the positive threshold.
CountsShort(c, v) ==
    IF v THEN c < mPositiveThreshold - 1
         ELSE \/ c > mNegativeThreshold
              \/ c - mNegativeThreshold > mNegativeThreshold

Counts(c, v) ==
    IF v THEN \/ c < mPositiveThreshold
              \/ c - mPositiveThreshold < mPositiveThreshold
         ELSE \/ c > mNegativeThreshold
              \/ c - mNegativeThreshold > mNegativeThreshold

\* Mutants: the status changes one vote late, or one vote early.
ConfirmsLate(c, v) ==
    IF v THEN /\ c > mPositiveThreshold
              /\ c - mPositiveThreshold < mPositiveThreshold
         ELSE /\ c < mNegativeThreshold
              /\ c - mNegativeThreshold > mNegativeThreshold

ConfirmsEarly(c, v) ==
    IF v THEN /\ c + 1 >= mPositiveThreshold
              /\ c - mPositiveThreshold < mPositiveThreshold
         ELSE /\ c - 1 <= mNegativeThreshold
              /\ c - mNegativeThreshold > mNegativeThreshold

Confirms(c, v) ==
    IF v THEN /\ ~(c < mPositiveThreshold)
              /\ c - mPositiveThreshold < mPositiveThreshold
         ELSE /\ ~(c > mNegativeThreshold)
              /\ c - mNegativeThreshold > mNegativeThreshold

Moved(c, v) == IF Counts(c, v) THEN (IF v THEN c + 1 ELSE c - 1) ELSE c

Capped(n) == IF n > VoteCap THEN VoteCap ELSE n

\* The next frame: updateSpots visits every spot.
Frame ==
    /\ pc = "frame"
    /\ Present # {}
    /\ pc' = "spots"
    /\ todo' = Present
    /\ UNCHANGED <<cur, statusVars, attrVars, mEntryTime, thresholdVars,
                   waitVars, threadVars, historyVars>>

\* ParkingSpot::update(bool) for the vote v, and the branch of updateSpots
\* that calls enter or exit when the status has changed.
Vote(s, v) ==
    LET c     == mOccupiedFrameCounter[s]
        flips == Confirms(c, v) /\ mOccupied[s] # v
    IN /\ pc = "spots"
       /\ IsNext(s)
       /\ flips /\ v => stay[s] < MaxStays
       /\ mOccupiedFrameCounter' =
            [mOccupiedFrameCounter EXCEPT ![s] = Moved(c, v)]
       /\ mOccupied' = [mOccupied EXCEPT ![s] = IF flips THEN v ELSE @]
       /\ stay' = [stay EXCEPT ![s] = IF flips /\ v THEN @ + 1 ELSE @]
       /\ votes' = [votes EXCEPT ![s] = IF flips THEN 0
                       ELSE IF mOccupied[s] # v THEN Capped(@ + 1) ELSE @]
       /\ cur' = s
       /\ todo' = IF flips THEN todo ELSE todo \ {s}
       /\ pc' = CASE flips /\ v  -> "startTimer"
                  [] flips /\ ~v -> "exit"
                  [] OTHER       -> "spots"
       /\ UNCHANGED <<mOverstayed, attrVars, mEntryTime, thresholdVars,
                      waitVars, threadVars, pushed, incarnation>>

-----------------------------------------------------------------------------
\* Ending the pending wait of the deadline timer, if any: its handler is
\* posted to the io_service all the same, with an error code nobody binds.
Cancelled(s) ==
    IF mParkingTimer[s] = NoWait THEN mService[s]
    ELSE Append(mService[s],
                [wait |-> mParkingTimer[s], cause |-> "cancelled"])

\* A wait of so many seconds for the present stay (expires_from_now cancels
\* a pending wait, then async_wait).
Arm(s, seconds) ==
    /\ mService' = [mService EXCEPT ![s] = Cancelled(s)]
    /\ mParkingTimer' = [mParkingTimer EXCEPT
                            ![s] = [stay |-> stay[s], seconds |-> seconds]]

\* startTimer(): the time limit of the spot, in seconds.
StartTimerForgotten(s) == UNCHANGED <<waitVars, mTimeLimit>>  \* mutant

StartTimer(s) == Arm(s, mTimeLimit[s]) /\ UNCHANGED mTimeLimit

\* startTimer(res_timeLimit, PN): the minutes of the reservation, which
\* replace the time limit of the spot.
StartReservedTimer(s, res) ==
    /\ Arm(s, Minute * res)
    /\ mTimeLimit' = [mTimeLimit EXCEPT ![s] = res]

\* ParkingSpot::enter, first part: the status, and the timer.  Whether the
\* plate has a reservation (check_res) is the database's choice.
EnterStartTimer(s) ==
    /\ pc = "startTimer" /\ cur = s
    /\ mOccupied' = [mOccupied EXCEPT ![s] = TRUE]
    /\ \/ StartTimer(s)
       \/ /\ isReservation_sensor[s]
          /\ \E res \in Reservations : StartReservedTimer(s, res)
    /\ pc' = "pushEnter"
    /\ UNCHANGED <<cur, todo, mOverstayed, mOccupiedFrameCounter, exists,
                   isReservation_sensor, mEntryTime, thresholdVars,
                   threadVars, historyVars>>

\* MessageQueue::push of a message of spot s.
Push(s, req, when, handler) ==
    pushed' = [pushed EXCEPT ![s] = Append(@,
        [req |-> req, stay |-> stay[s], incarnation |-> incarnation[s],
         time |-> when, handler |-> handler])]

\* ParkingSpot::enter, second part: the ENTER message is queued.
EnterPush(s) ==
    /\ pc = "pushEnter" /\ cur = s
    /\ Push(s, "ENTER", [entry |-> stay[s], seconds |-> 0], NoHandler)
    /\ pc' = "entryTime"
    /\ UNCHANGED <<cur, todo, statusVars, attrVars, mEntryTime,
                   thresholdVars, waitVars, threadVars, stay, incarnation,
                   votes>>

\* Mutant: the entry time is stored only for the first vehicle.
EnterKeepsTime(s) ==
    /\ pc = "entryTime" /\ cur = s
    /\ mEntryTime' =
         [mEntryTime EXCEPT ![s] = IF @ = 0 THEN stay[s] ELSE @]
    /\ todo' = todo \ {s}
    /\ pc' = "spots"
    /\ UNCHANGED <<cur, statusVars, attrVars, thresholdVars, waitVars,
                   threadVars, historyVars>>

\* ParkingSpot::enter, last part: only now the entry time is stored.
EnterSetTime(s) ==
    /\ pc = "entryTime" /\ cur = s
    /\ mEntryTime' = [mEntryTime EXCEPT ![s] = stay[s]]
    /\ todo' = todo \ {s}
    /\ pc' = "spots"
    /\ UNCHANGED <<cur, statusVars, attrVars, thresholdVars, waitVars,
                   threadVars, historyVars>>

\* Mutant: exit leaves mOccupied to update(bool).
ExitKeepsOccupied(s) ==
    /\ pc = "exit" /\ cur = s
    /\ mOverstayed' = [mOverstayed EXCEPT ![s] = FALSE]
    /\ pc' = "pushExit"
    /\ UNCHANGED <<cur, todo, mOccupied, mOccupiedFrameCounter, attrVars,
                   mEntryTime, thresholdVars, waitVars, threadVars,
                   historyVars>>

\* ParkingSpot::exit, first part: the status.
ExitClear(s) ==
    /\ pc = "exit" /\ cur = s
    /\ mOccupied' = [mOccupied EXCEPT ![s] = FALSE]
    /\ mOverstayed' = [mOverstayed EXCEPT ![s] = FALSE]
    /\ pc' = "pushExit"
    /\ UNCHANGED <<cur, todo, mOccupiedFrameCounter, attrVars, mEntryTime,
                   thresholdVars, waitVars, threadVars, historyVars>>

\* ParkingSpot::exit, second part: the EXIT message is queued.
ExitPush(s) ==
    /\ pc = "pushExit" /\ cur = s
    /\ Push(s, "EXIT", NoTime, NoHandler)
    /\ pc' = "stopTimer"
    /\ UNCHANGED <<cur, todo, statusVars, attrVars, mEntryTime,
                   thresholdVars, waitVars, threadVars, stay, incarnation,
                   votes>>

\* stopTimer(): cancel the pending wait.
StopTimer(s) ==
    /\ mService' = [mService EXCEPT ![s] = Cancelled(s)]
    /\ mParkingTimer' = [mParkingTimer EXCEPT ![s] = NoWait]

\* ParkingSpot::exit, last part.  The next spot of updateSpots, or the next
\* frame after the operator's key.
ExitStopTimer(s) ==
    /\ pc = "stopTimer" /\ cur = s
    /\ StopTimer(s)
    /\ todo' = todo \ {s}
    /\ pc' = IF s \in todo THEN "spots" ELSE "frame"
    /\ UNCHANGED <<cur, statusVars, attrVars, mEntryTime, thresholdVars,
                   threadVars, historyVars>>

\* updateSpots is over; the loop looks at the key that was pressed.
EndSpots ==
    /\ pc = "spots" /\ todo = {}
    /\ pc' = IF DebugKeys THEN "keys" ELSE "frame"
    /\ UNCHANGED <<cur, todo, statusVars, attrVars, mEntryTime,
                   thresholdVars, waitVars, threadVars, historyVars>>

\* No key, or a key of a free spot.
NoKey ==
    /\ pc = "keys"
    /\ pc' = "frame"
    /\ UNCHANGED <<cur, todo, statusVars, attrVars, mEntryTime,
                   thresholdVars, waitVars, threadVars, historyVars>>

\* Key '1' + s of an occupied spot calls exit; the counter keeps its value.
\* (A key without a spot dereferences a null pointer: not pressed.)
KeyExit(s) ==
    /\ pc = "keys"
    /\ exists[s] /\ s < Cardinality(Present)
    /\ mOccupied[s]
    /\ cur' = s
    /\ pc' = "exit"
    /\ UNCHANGED <<todo, statusVars, attrVars, mEntryTime, thresholdVars,
                   waitVars, threadVars, historyVars>>

-----------------------------------------------------------------------------
\* The thread that owns the spots is the listener, or the main loop in
\* initParkingSpots, between two frames.

\* ParkingSpot::update(attributes): refused while mOccupied && !mOverstayed.
\* The name, region and policy go with the time limit.
UpdateAttributes(s, limit) ==
    /\ pc = "frame" /\ exists[s]
    /\ ~(mOccupied[s] /\ ~mOverstayed[s])
    /\ mTimeLimit' = [mTimeLimit EXCEPT ![s] = limit]
    /\ UNCHANGED <<mainVars, statusVars, exists, isReservation_sensor,
                   mEntryTime, thresholdVars, waitVars, threadVars,
                   historyVars>>

SetPositiveThreshold(count) ==
    /\ pc = "frame"
    /\ mPositiveThreshold' = count
    /\ UNCHANGED <<mainVars, statusVars, attrVars, mEntryTime,
                   mNegativeThreshold, waitVars, threadVars, historyVars>>

\* Mutant: exitCount is stored without its sign.
SetNegativeUnsigned(count) ==
    /\ pc = "frame"
    /\ mNegativeThreshold' = count
    /\ UNCHANGED <<mainVars, statusVars, attrVars, mEntryTime,
                   mPositiveThreshold, waitVars, threadVars, historyVars>>

SetNegativeThreshold(count) ==
    /\ pc = "frame"
    /\ mNegativeThreshold' = -count
    /\ UNCHANGED <<mainVars, statusVars, attrVars, mEntryTime,
                   mPositiveThreshold, waitVars, threadVars, historyVars>>

\* ParkingSpotManager::add of a spot that is not in the map.
Add(s, limit) ==
    /\ pc = "frame" /\ ~exists[s]
    /\ incarnation[s] < MaxIncarnations
    /\ exists' = [exists EXCEPT ![s] = TRUE]
    /\ incarnation' = [incarnation EXCEPT ![s] = @ + 1]
    /\ mTimeLimit' = [mTimeLimit EXCEPT ![s] = limit]
    /\ \E b \in SensorFlags :
          isReservation_sensor' = [isReservation_sensor EXCEPT ![s] = b]
    /\ UNCHANGED <<mainVars, statusVars, mEntryTime, thresholdVars,
                   waitVars, threadVars, pushed, stay, votes>>

\* updateParkingSpots erases a spot that is not listed: no reset, no EXIT.
Erase(s) ==
    /\ pc = "frame" /\ exists[s]
    /\ incarnation[s] < MaxIncarnations
    /\ todo' = {s}
    /\ pc' = "destroy"
    /\ UNCHANGED <<cur, statusVars, attrVars, mEntryTime, thresholdVars,
                   waitVars, threadVars, historyVars>>

\* ParkingSpotManager::clear: reset every spot, then destroy them all.
Clear ==
    /\ pc = "frame" /\ Present # {}
    /\ \A s \in Present : incarnation[s] < MaxIncarnations
    /\ todo' = Present
    /\ pc' = "reset"
    /\ UNCHANGED <<cur, statusVars, attrVars, mEntryTime, thresholdVars,
                   waitVars, threadVars, historyVars>>

\* ParkingSpot::reset: the timer first, then the status and the counter.
ResetTimer(s) ==
    /\ pc = "reset" /\ IsNext(s)
    /\ StopTimer(s)
    /\ cur' = s
    /\ pc' = "resetStatus"
    /\ UNCHANGED <<todo, statusVars, attrVars, mEntryTime, thresholdVars,
                   threadVars, historyVars>>

ClearStatus(s) ==
    /\ mOccupied' = [mOccupied EXCEPT ![s] = FALSE]
    /\ mOverstayed' = [mOverstayed EXCEPT ![s] = FALSE]
    /\ mOccupiedFrameCounter' = [mOccupiedFrameCounter EXCEPT ![s] = 0]
    /\ votes' = [votes EXCEPT ![s] = 0]

ResetStatus(s) ==
    /\ pc = "resetStatus" /\ cur = s
    /\ ClearStatus(s)
    /\ todo' = IF todo = {s} THEN Present ELSE todo \ {s}
    /\ pc' = IF todo = {s} THEN "destroy" ELSE "reset"
    /\ UNCHANGED <<cur, attrVars, mEntryTime, thresholdVars, waitVars,
                   threadVars, pushed, stay, incarnation>>

\* ~ParkingSpot: mService.stop(), after which no queued handler runs ...
Stop(s) ==
    /\ pc = "destroy" /\ IsNext(s)
    /\ mService' = [mService EXCEPT ![s] = <<>>]
    /\ mParkingTimer' = [mParkingTimer EXCEPT ![s] = NoWait]
    /\ cur' = s
    /\ pc' = "join"
    /\ UNCHANGED <<todo, statusVars, attrVars, mEntryTime, thresholdVars,
                   threadVars, historyVars>>

\* Mutant: the thread is detached, and its handler outlives the spot.
Detach(s) ==
    /\ pc = "join" /\ cur = s
    /\ exists' = [exists EXCEPT ![s] = FALSE]
    /\ ClearStatus(s)
    /\ mEntryTime' = [mEntryTime EXCEPT ![s] = 0]
    /\ todo' = todo \ {s}
    /\ pc' = IF todo = {s} THEN "frame" ELSE "destroy"
    /\ UNCHANGED <<cur, mTimeLimit, isReservation_sensor, thresholdVars,
                   waitVars, threadVars, pushed, stay, incarnation>>

\* ... and join, which waits for the handler that is running.  A spot that
\* is not in the map has the fields the constructor will give it.
Join(s) ==
    /\ pc = "join" /\ cur = s
    /\ mTimerThread[s] = "run"
    /\ exists' = [exists EXCEPT ![s] = FALSE]
    /\ ClearStatus(s)
    /\ mEntryTime' = [mEntryTime EXCEPT ![s] = 0]
    /\ todo' = todo \ {s}
    /\ pc' = IF todo = {s} THEN "frame" ELSE "destroy"
    /\ UNCHANGED <<cur, mTimeLimit, isReservation_sensor, thresholdVars,
                   waitVars, threadVars, pushed, stay, incarnation>>

-----------------------------------------------------------------------------
\* The timer thread of a spot.

InEnter(s) == cur = s /\ pc \in {"pushEnter", "entryTime"}

\* The deadline passes: the handler is queued (external: asio).
Expire(s) ==
    /\ mParkingTimer[s] # NoWait
    /\ mParkingTimer[s].seconds > 0 => ~InEnter(s)
    /\ mService' = [mService EXCEPT ![s] = Append(@,
                       [wait |-> mParkingTimer[s], cause |-> "expired"])]
    /\ mParkingTimer' = [mParkingTimer EXCEPT ![s] = NoWait]
    /\ UNCHANGED <<mainVars, statusVars, attrVars, mEntryTime,
                   thresholdVars, threadVars, historyVars>>

\* notifyExpiration is called for every ended wait, and looks at mOccupied.
NotifyExpiration(s) ==
    /\ mTimerThread[s] = "run" /\ mService[s] # <<>>
    /\ mService' = [mService EXCEPT ![s] = Tail(@)]
    /\ IF mOccupied[s]
       THEN /\ mTimerThread' = [mTimerThread EXCEPT ![s] = "time"]
            /\ running' = [running EXCEPT ![s] = Head(mService[s])]
       ELSE UNCHANGED <<mTimerThread, running>>
    /\ UNCHANGED <<mainVars, statusVars, attrVars, mEntryTime,
                   thresholdVars, mParkingTimer, time, historyVars>>

\* The instant of the picture: mEntryTime and mTimeLimit as they are now.
ComputeTime(s) ==
    /\ mTimerThread[s] = "time"
    /\ time' = [time EXCEPT ![s] = [entry   |-> mEntryTime[s],
                                    seconds |-> mTimeLimit[s]]]
    /\ mTimerThread' = [mTimerThread EXCEPT ![s] = "flag"]
    /\ UNCHANGED <<mainVars, statusVars, attrVars, mEntryTime,
                   thresholdVars, waitVars, running, historyVars>>

\* overstayed: the flag ...
OverFlag(s) ==
    /\ mTimerThread[s] = "flag"
    /\ mOverstayed' = [mOverstayed EXCEPT ![s] = TRUE]
    /\ mTimerThread' = [mTimerThread EXCEPT ![s] = "push"]
    /\ UNCHANGED <<mainVars, mOccupied, mOccupiedFrameCounter, attrVars,
                   mEntryTime, thresholdVars, waitVars, running, time,
                   historyVars>>

\* ... then the OVER message.
OverPush(s) ==
    /\ mTimerThread[s] = "push"
    /\ Push(s, "OVER", time[s], running[s])
    /\ mTimerThread' = [mTimerThread EXCEPT ![s] = "run"]
    /\ running' = [running EXCEPT ![s] = NoHandler]
    /\ time' = [time EXCEPT ![s] = NoTime]
    /\ UNCHANGED <<mainVars, statusVars, attrVars, mEntryTime,
                   thresholdVars, waitVars, stay, incarnation, votes>>

-----------------------------------------------------------------------------
VoteStep(s)  == \E v \in BOOLEAN : Vote(s, v)
EnterStep(s) == EnterStartTimer(s) \/ EnterPush(s) \/ EnterSetTime(s)
ExitStep(s)  == ExitClear(s) \/ ExitPush(s) \/ ExitStopTimer(s)
EraseStep(s) == ResetTimer(s) \/ ResetStatus(s) \/ Stop(s) \/ Join(s)

\* What the owning thread does by itself ...
OwnerStep ==
    \/ Frame
    \/ EndSpots
    \/ NoKey
    \/ \E s \in Spots : VoteStep(s) \/ EnterStep(s) \/ ExitStep(s)
                        \/ EraseStep(s)

\* ... and what the operator or a client of the listener asks for.
Request ==
    \/ Clear
    \/ \E s \in Spots : KeyExit(s) \/ Erase(s)
    \/ \E s \in Spots, limit \in Limits :
          UpdateAttributes(s, limit) \/ Add(s, limit)
    \/ \E n \in EnterCounts : SetPositiveThreshold(n)
    \/ \E n \in ExitCounts : SetNegativeThreshold(n)

TimerStep(s) ==
    NotifyExpiration(s) \/ ComputeTime(s) \/ OverFlag(s) \/ OverPush(s)

Next ==
    \/ OwnerStep
    \/ Request
    \/ \E s \in Spots : Expire(s) \/ TimerStep(s)

Spec == Init /\ [][Next]_vars

\* Threads are scheduled, deadlines pass, and frames keep coming.
Fairness ==
    /\ WF_vars(OwnerStep)
    /\ \A s \in Spots : WF_vars(Expire(s)) /\ WF_vars(TimerStep(s))

FairSpec == Spec /\ Fairness

-----------------------------------------------------------------------------
(* Properties.                                                             *)

\* Where the frame counter may be: the status changes at the far end of it,
\* so an occupied spot is not below the negative threshold, nor a free one
\* above the positive one (update(bool)).  While the thresholds never change
\* and no key forces an exit.
Hysteresis ==
    \A s \in Spots :
        /\ mOccupied[s]  => mNegativeThreshold <= mOccupiedFrameCounter[s]
        /\ ~mOccupied[s] => mOccupiedFrameCounter[s] <= mPositiveThreshold

\* The debounce that enterCount and exitCount buy: a status never changes on
\* a few frames.  An entry needs more than mPositiveThreshold frames with a
\* vehicle since the spot was last occupied, an exit more than
\* mPositiveThreshold - mNegativeThreshold frames without one (update(bool)).
Debounced ==
    [][\A s \in Spots, v \in BOOLEAN :
        Vote(s, v) /\ mOccupied'[s] # mOccupied[s] =>
            votes[s] >= IF v THEN mPositiveThreshold
                            ELSE mPositiveThreshold - mNegativeThreshold + 1
      ]_vars

\* The timer of a stay that ended by exit() reports nothing for it: a handler
\* that was cancelled passes the test of mOccupied in notifyExpiration only
\* in a later stay, or while the spot is being removed (reset() stops the
\* timer before it clears mOccupied).
CancelledIsLate ==
    \A s \in Spots :
        mTimerThread[s] # "run" /\ running[s].cause = "cancelled" =>
            \/ running[s].wait.stay < stay[s]
            \/ pc \in {"resetStatus", "reset", "destroy", "join"}

\* The messages of a spot, as the server understands them.
Reports ==
    [s \in Spots |-> [i \in DOMAIN pushed[s] |->
        LET m == pushed[s][i]
        IN [req         |-> m.req,
            stay        |-> IF m.req = "OVER" THEN m.handler.wait.stay
                                              ELSE m.stay,
            incarnation |-> m.incarnation]]]

Contract == INSTANCE SpotReports WITH
    Stays <- 1..MaxStays, Incarnations <- 1..MaxIncarnations,
    reports <- Reports

\* The messages pushed by enter, exit and overstayed on two threads keep the
\* contract of module SpotReports.  For positive time limits.
KeepsContract == Contract!Spec

\* update(attributes): "If current spot is occupied and the timer is running,
\* it will not update the spot" (ParkingSpot.h:228).  The code asks for
\* !mOverstayed instead, and a handler of the vehicle before may set it late.
RunningTimerRefusesUpdate ==
    [][\A s \in Spots, limit \in Limits :
        UpdateAttributes(s, limit) =>
            ~(mOccupied[s] /\ mParkingTimer[s] # NoWait)]_vars

\* mEntryTime: "Entry time to compute expiration when the timer is expired"
\* (ParkingSpot.h:154): the time of an OVER whose timer ran out, pushed
\* before the next vehicle entered, counts from the entry of the vehicle it is
\* about.  The timer thread reads mEntryTime, which the main loop writes only
\* after it has started the timer.  For positive time limits.
OverCountsFromEntry ==
    \A s \in Spots : \A i \in DOMAIN pushed[s] :
        LET m == pushed[s][i]
            w == m.handler.wait
        IN m.req = "OVER" /\ m.handler.cause = "expired" /\ m.stay = w.stay
             => m.time.entry = w.stay

\* A vehicle that stays for ever is reported as overstayed.
OverReported(s, k) ==
    \E i \in DOMAIN pushed[s] :
        pushed[s][i].req = "OVER" /\ pushed[s][i].handler.wait.stay = k

OverstayIsReported ==
    \A s \in Spots, k \in 1..MaxStays :
        []<>(~mOccupied[s] \/ stay[s] # k \/ OverReported(s, k))

\* When the detector sees no vehicle any more, the spot becomes free for
\* good, whatever the counter was.
DepartureIsNoticed ==
    \A s \in Spots :
        <>[][~Vote(s, TRUE)]_vars => <>[]~mOccupied[s]

\* When the detector always sees a vehicle, the spot becomes occupied for
\* good, unless it is removed.
ArrivalIsNoticed ==
    \A s \in Spots :
        <>[][~Vote(s, FALSE)]_vars => <>[]mOccupied[s] \/ []<>~exists[s]
=============================================================================
