---------------------- MODULE ParkingSpotReports_proofs ----------------------
(***************************************************************************)
(* Proofs about the messages of a spot: the time of an overstay, and the   *)
(* contract of SpotReports, for any spots, thresholds and numbers of       *)
(* vehicles, and any positive time limits and reservations.                *)
(***************************************************************************)
EXTENDS ParkingSpot_proofs

-----------------------------------------------------------------------------
(***************************************************************************)
(* The time of an overstay: which entry it counts from.                    *)
(***************************************************************************)

Positive == 0 \notin Limits \cup Reservations

\* A wait that ran out in the stay it belongs to finds the entry time of it.
ExpiredTimed(s, h) ==
    h.cause = "expired" =>
        /\ h.wait.stay <= stay[s]
        /\ h.wait.stay = stay[s] => mEntryTime[s] = stay[s]

\* The entry time is stored before the wait of the stay can run out.
WaitTimed(s) ==
    mParkingTimer[s] # NoWait =>
        /\ mParkingTimer[s].seconds > 0
        /\ mParkingTimer[s].stay <= stay[s]
        /\ mParkingTimer[s].stay = stay[s] =>
              InEnter(s) \/ mEntryTime[s] = stay[s]

ServiceTimed(s) ==
    \A i \in DOMAIN mService[s] : ExpiredTimed(s, mService[s][i])

\* Before the handler looks at the entry time, and after it.
RunningTimed(s) ==
    /\ mTimerThread[s] = "time" => ExpiredTimed(s, running[s])
    /\ mTimerThread[s] \in {"flag", "push"} /\ running[s].cause = "expired" =>
          /\ running[s].wait.stay <= stay[s]
          /\ running[s].wait.stay = stay[s] => time[s].entry = stay[s]

MessageTimed(m) ==
    m.req = "OVER" /\ m.handler.cause = "expired"
                   /\ m.stay = m.handler.wait.stay
        => m.time.entry = m.handler.wait.stay

PushedTimed(s) == \A i \in DOMAIN pushed[s] : MessageTimed(pushed[s][i])

SpotTimed(s) == WaitTimed(s) /\ ServiceTimed(s) /\ RunningTimed(s)

\* Nothing is due any more when the destructor joins the thread.
OwnerTimed ==
    pc = "join" => mService[cur] = <<>> /\ mParkingTimer[cur] = NoWait

EntryInv ==
    /\ OwnerTimed
    /\ \A s \in Spots : SpotTimed(s) /\ PushedTimed(s)

-----------------------------------------------------------------------------
\* The step leaves alone what SpotTimed says about the spot.
SameTimes(s) ==
    /\ stay'[s] = stay[s]
    /\ mEntryTime'[s] = mEntryTime[s]
    /\ mParkingTimer'[s] = mParkingTimer[s]
    /\ mService'[s] = mService[s]
    /\ mTimerThread'[s] = mTimerThread[s]
    /\ running'[s] = running[s]
    /\ time'[s] = time[s]

LEMMA SameTimesKeep ==
    ASSUME NEW s \in Spots, SpotTimed(s), SameTimes(s),
           InEnter(s) => InEnter(s)'
    PROVE  SpotTimed(s)'
BY DEF SpotTimed, SameTimes, WaitTimed, ServiceTimed, RunningTimed,
       ExpiredTimed

LEMMA AwayFromEnter ==
    ASSUME NEW s \in Spots,
           pc \notin {"pushEnter", "entryTime"} \/ UNCHANGED <<pc, cur>>
    PROVE  InEnter(s) => InEnter(s)'
BY DEF InEnter

\* A step of the owning thread that touches no timer, no stay, no entry time
\* and no message.
LEMMA QuietTimes ==
    ASSUME EntryInv,
           pc \notin {"pushEnter", "entryTime"} \/ UNCHANGED <<pc, cur>>,
           pc' # "join" \/ UNCHANGED <<pc, cur>>,
           UNCHANGED <<stay, mEntryTime, waitVars, threadVars, pushed>>
    PROVE  EntryInv'
<1>1. OwnerTimed'
  BY DEF EntryInv, OwnerTimed, waitVars
<1>2. ASSUME NEW s \in Spots PROVE SpotTimed(s)' /\ PushedTimed(s)'
  BY SameTimesKeep, AwayFromEnter
     DEF EntryInv, SameTimes, PushedTimed, waitVars, threadVars
<1> QED
  BY <1>1, <1>2 DEF EntryInv

\* A message is pushed.
LEMMA PushTimes ==
    ASSUME TypeOK, NEW s \in Spots, NEW req \in Requests,
           NEW when \in Instants, NEW handler \in Handlers,
           Push(s, req, when, handler),
           \A u \in Spots : PushedTimed(u),
           req = "OVER" /\ handler.cause = "expired"
                        /\ stay[s] = handler.wait.stay
               => when.entry = handler.wait.stay
    PROVE  \A u \in Spots : PushedTimed(u)'
<1> DEFINE m == [req |-> req, stay |-> stay[s],
                 incarnation |-> incarnation[s], time |-> when,
                 handler |-> handler]
           q == pushed[s]
<1>1. m \in Messages /\ q \in Seq(Messages)
  BY DEF TypeOK, Messages
<1>2. MessageTimed(m)
  BY DEF MessageTimed
<1>3. /\ pushed'[s] = Append(q, m)
      /\ \A u \in Spots \ {s} : pushed'[u] = pushed[u]
  BY DEF Push, TypeOK
<1>4. \A i \in DOMAIN q : MessageTimed(q[i])
  BY DEF PushedTimed
<1> HIDE DEF m, q
<1>5. /\ DOMAIN Append(q, m) = 1 .. Len(q) + 1
      /\ DOMAIN q = 1 .. Len(q)
      /\ Len(q) \in Nat
      /\ \A j \in 1 .. Len(q) : Append(q, m)[j] = q[j]
      /\ Append(q, m)[Len(q) + 1] = m
  BY <1>1, AppendProperties
<1>6. ASSUME NEW i \in DOMAIN Append(q, m)
      PROVE  MessageTimed(Append(q, m)[i])
  <2>1. i \in 1 .. Len(q) \/ i = Len(q) + 1
    BY <1>5
  <2> QED
    BY <1>2, <1>4, <1>5, <2>1
<1>7. PushedTimed(s)'
  BY <1>3, <1>6 DEF PushedTimed
<1>8. ASSUME NEW u \in Spots, u # s PROVE PushedTimed(u)'
  BY <1>3, <1>8 DEF PushedTimed
<1> QED
  BY <1>7, <1>8

\* update(bool): every wait there is belongs to an earlier stay then.
LEMMA VoteTimes ==
    ASSUME TypeOK, EntryInv, NEW s \in Spots, NEW v \in BOOLEAN, Vote(s, v)
    PROVE  EntryInv'
<1>1. /\ pc = "spots" /\ pc' # "join"
      /\ UNCHANGED <<mEntryTime, waitVars, threadVars, pushed>>
  <2>1. pc' \in {"startTimer", "exit", "spots"}
    <3> DEFINE flips == /\ Confirms(mOccupiedFrameCounter[s], v)
                        /\ mOccupied[s] # v
    <3>1. pc' = CASE flips /\ v  -> "startTimer"
                  [] flips /\ ~v -> "exit"
                  [] OTHER       -> "spots"
      BY DEF Vote
    <3> HIDE DEF flips
    <3> QED
      BY <3>1
  <2> QED
    BY <2>1 DEF Vote
<1>2. /\ stay'[s] = stay[s] \/ stay'[s] = stay[s] + 1
      /\ \A u \in Spots \ {s} : stay'[u] = stay[u]
  <2>1. stay \in [Spots -> Nat]
    BY DEF TypeOK
  <2> QED
    BY <2>1 DEF Vote
<1>3. ASSUME NEW u \in Spots, stay'[u] = stay[u] PROVE SpotTimed(u)'
  BY <1>1, <1>3, SameTimesKeep, AwayFromEnter
     DEF EntryInv, SameTimes, waitVars, threadVars
<1>4. ASSUME stay'[s] = stay[s] + 1 PROVE SpotTimed(s)'
  <2>1. SpotTimed(s) /\ stay[s] \in Nat
    BY HandlerTypes DEF EntryInv
  <2>2. WaitTimed(s)'
    BY <1>1, <1>4, <2>1, HandlerTypes DEF SpotTimed, WaitTimed, waitVars
  <2>3. ServiceTimed(s)'
    BY <1>1, <1>4, <2>1, HandlerTypes
       DEF SpotTimed, ServiceTimed, ExpiredTimed, waitVars
  <2>4. RunningTimed(s)'
    BY <1>1, <1>4, <2>1, HandlerTypes
       DEF SpotTimed, RunningTimed, ExpiredTimed, threadVars
  <2> QED
    BY <2>2, <2>3, <2>4 DEF SpotTimed
<1>5. ASSUME NEW u \in Spots PROVE SpotTimed(u)' /\ PushedTimed(u)'
  <2>1. SpotTimed(u)'
    BY <1>2, <1>3, <1>4
  <2> QED
    BY <1>1, <2>1 DEF EntryInv, PushedTimed
<1>6. OwnerTimed'
  BY <1>1 DEF OwnerTimed
<1> QED
  BY <1>5, <1>6 DEF EntryInv

\* A handler that was cancelled is of no interest here.
LEMMA CancelTimes ==
    ASSUME TypeOK, NEW s \in Spots, ServiceTimed(s),
           mService'[s] = Cancelled(s),
           stay'[s] = stay[s], mEntryTime'[s] = mEntryTime[s]
    PROVE  ServiceTimed(s)'
<1>1. ASSUME NEW i \in DOMAIN Cancelled(s), NEW h, h = Cancelled(s)[i]
      PROVE  ExpiredTimed(s, h)'
  <2>1. CASE i \in DOMAIN mService[s] /\ h = mService[s][i]
    BY <2>1 DEF ServiceTimed, ExpiredTimed
  <2>2. CASE h = [wait |-> mParkingTimer[s], cause |-> "cancelled"]
    BY <2>2 DEF ExpiredTimed
  <2> QED
    BY <1>1, <2>1, <2>2, CancelledElements
<1> QED
  BY <1>1 DEF ServiceTimed, ExpiredTimed

\* startTimer in enter(): the new wait is longer than the rest of enter().
LEMMA ArmTimes ==
    ASSUME TypeOK, Positive, EntryInv, NEW s \in Spots, EnterStartTimer(s)
    PROVE  EntryInv'
<1>1. /\ pc = "startTimer" /\ cur = s /\ pc' = "pushEnter" /\ cur' = cur
      /\ UNCHANGED <<mEntryTime, threadVars, pushed, stay>>
  BY DEF EnterStartTimer, historyVars
<1>2. PICK seconds \in Nat \ {0} : Arm(s, seconds)
  <2>1. CASE StartTimer(s)
    <3>1. mTimeLimit[s] \in Nat \ {0}
      <4>1. mTimeLimit[s] \in Limits \cup Reservations
        BY DEF TypeOK
      <4>2. Limits \cup Reservations \subseteq Nat
        BY ParkingSpotAssumption
      <4> QED
        BY <4>1, <4>2, Positive DEF Positive
    <3> QED
      BY <2>1, <3>1 DEF StartTimer
  <2>2. ASSUME NEW res \in Reservations, StartReservedTimer(s, res)
        PROVE  \E n \in Nat \ {0} : Arm(s, n)
    <3>1. res \in Nat \ {0}
      BY ParkingSpotAssumption DEF Positive
    <3>2. Minute * res \in Nat \ {0}
      BY <3>1 DEF Minute
    <3> QED
      BY <2>2, <3>2 DEF StartReservedTimer
  <2> QED
    BY <2>1, <2>2 DEF EnterStartTimer
<1>3. /\ mService'[s] = Cancelled(s)
      /\ mParkingTimer'[s] = [stay |-> stay[s], seconds |-> seconds]
      /\ \A u \in Spots \ {s} : mService'[u] = mService[u]
                                /\ mParkingTimer'[u] = mParkingTimer[u]
  BY <1>2 DEF Arm, TypeOK
<1>4. SpotTimed(s)'
  <2>1. ServiceTimed(s)'
    BY <1>1, <1>3, CancelTimes DEF EntryInv, SpotTimed
  <2>2. WaitTimed(s)'
    BY <1>1, <1>2, <1>3, HandlerTypes DEF WaitTimed, InEnter
  <2>3. RunningTimed(s)'
    BY <1>1 DEF EntryInv, SpotTimed, RunningTimed, ExpiredTimed, threadVars
  <2> QED
    BY <2>1, <2>2, <2>3 DEF SpotTimed
<1>5. ASSUME NEW u \in Spots, u # s PROVE SpotTimed(u)'
  BY <1>1, <1>3, <1>5, SameTimesKeep, AwayFromEnter
     DEF EntryInv, SameTimes, threadVars
<1>6. OwnerTimed' /\ \A u \in Spots : PushedTimed(u)'
  BY <1>1 DEF OwnerTimed, EntryInv, PushedTimed
<1> QED
  BY <1>4, <1>5, <1>6 DEF EntryInv

\* ENTER and EXIT are pushed.
LEMMA OwnerPushTimes ==
    ASSUME TypeOK, EntryInv, NEW s \in Spots, EnterPush(s) \/ ExitPush(s)
    PROVE  EntryInv'
<1>1. /\ cur' = cur
      /\ \/ pc = "pushEnter" /\ pc' = "entryTime"
         \/ pc = "pushExit" /\ pc' = "stopTimer"
      /\ UNCHANGED <<mEntryTime, waitVars, threadVars, stay>>
  BY DEF EnterPush, ExitPush
<1>2. \A u \in Spots : PushedTimed(u)'
  <2>1. [entry |-> stay[s], seconds |-> 0] \in Instants
    BY DEF TypeOK, Instants
  <2>2. "ENTER" \in Requests /\ "EXIT" \in Requests
    BY DEF Requests
  <2>3. CASE EnterPush(s)
    BY <2>1, <2>2, <2>3, NoneTypes, PushTimes DEF EnterPush, EntryInv
  <2>4. CASE ExitPush(s)
    BY <2>2, <2>4, NoneTypes, PushTimes DEF ExitPush, EntryInv
  <2> QED
    BY <2>3, <2>4
<1>3. ASSUME NEW u \in Spots PROVE SpotTimed(u)'
  <2>1. InEnter(u) => InEnter(u)'
    BY <1>1 DEF InEnter
  <2> QED
    BY <1>1, <2>1, SameTimesKeep DEF EntryInv, SameTimes, waitVars,
       threadVars
<1>4. OwnerTimed'
  BY <1>1 DEF OwnerTimed
<1> QED
  BY <1>2, <1>3, <1>4 DEF EntryInv

\* The last statement of enter() stores the entry time.
LEMMA SetTimeTimes ==
    ASSUME TypeOK, EntryInv, NEW s \in Spots, EnterSetTime(s)
    PROVE  EntryInv'
<1>1. /\ pc = "entryTime" /\ cur = s /\ pc' = "spots"
      /\ UNCHANGED <<waitVars, threadVars, pushed, stay>>
  BY DEF EnterSetTime, historyVars
<1>2. /\ mEntryTime'[s] = stay[s]
      /\ \A u \in Spots \ {s} : mEntryTime'[u] = mEntryTime[u]
  BY DEF EnterSetTime, TypeOK
<1>3. SpotTimed(s)'
  <2>1. SpotTimed(s)
    BY DEF EntryInv
  <2>2. WaitTimed(s)' /\ ServiceTimed(s)'
    BY <1>1, <1>2, <2>1
       DEF SpotTimed, WaitTimed, ServiceTimed, ExpiredTimed, waitVars
  <2>3. RunningTimed(s)'
    BY <1>1, <1>2, <2>1
       DEF SpotTimed, RunningTimed, ExpiredTimed, threadVars
  <2> QED
    BY <2>2, <2>3 DEF SpotTimed
<1>4. ASSUME NEW u \in Spots, u # s PROVE SpotTimed(u)'
  <2>1. ~InEnter(u)
    BY <1>1, <1>4 DEF InEnter
  <2> QED
    BY <1>1, <1>2, <1>4, <2>1, SameTimesKeep
       DEF EntryInv, SameTimes, waitVars, threadVars
<1>5. OwnerTimed' /\ \A u \in Spots : PushedTimed(u)'
  BY <1>1 DEF OwnerTimed, EntryInv, PushedTimed
<1> QED
  BY <1>3, <1>4, <1>5 DEF EntryInv

\* exit() and reset() stop the timer.
LEMMA StopTimerTimes ==
    ASSUME TypeOK, EntryInv, NEW s \in Spots,
           ExitStopTimer(s) \/ ResetTimer(s)
    PROVE  EntryInv'
<1>1. /\ pc \in {"stopTimer", "reset"}
      /\ pc' \in {"spots", "frame", "resetStatus"}
      /\ UNCHANGED <<mEntryTime, threadVars, pushed, stay>>
  BY DEF ExitStopTimer, ResetTimer, historyVars
<1>2. /\ mService'[s] = Cancelled(s)
      /\ mParkingTimer'[s] = NoWait
      /\ \A u \in Spots \ {s} : mService'[u] = mService[u]
                                /\ mParkingTimer'[u] = mParkingTimer[u]
  BY DEF ExitStopTimer, ResetTimer, StopTimer, TypeOK
<1>3. SpotTimed(s)'
  <2>1. ServiceTimed(s)'
    BY <1>1, <1>2, CancelTimes DEF EntryInv, SpotTimed
  <2>2. WaitTimed(s)'
    BY <1>2 DEF WaitTimed
  <2>3. RunningTimed(s)'
    BY <1>1 DEF EntryInv, SpotTimed, RunningTimed, ExpiredTimed, threadVars
  <2> QED
    BY <2>1, <2>2, <2>3 DEF SpotTimed
<1>4. ASSUME NEW u \in Spots, u # s PROVE SpotTimed(u)'
  BY <1>1, <1>2, <1>4, SameTimesKeep, AwayFromEnter
     DEF EntryInv, SameTimes, threadVars
<1>5. OwnerTimed' /\ \A u \in Spots : PushedTimed(u)'
  BY <1>1 DEF OwnerTimed, EntryInv, PushedTimed
<1> QED
  BY <1>3, <1>4, <1>5 DEF EntryInv

\* The destructor drops what is due ...
LEMMA StopTimes ==
    ASSUME TypeOK, EntryInv, NEW s \in Spots, Stop(s)
    PROVE  EntryInv'
<1>1. /\ pc = "destroy" /\ cur' = s
      /\ UNCHANGED <<mEntryTime, threadVars, pushed, stay>>
  BY DEF Stop, historyVars
<1>2. /\ mService'[s] = <<>>
      /\ mParkingTimer'[s] = NoWait
      /\ \A u \in Spots \ {s} : mService'[u] = mService[u]
                                /\ mParkingTimer'[u] = mParkingTimer[u]
  BY DEF Stop, TypeOK
<1>3. SpotTimed(s)'
  <2>1. ServiceTimed(s)' /\ WaitTimed(s)'
    BY <1>2 DEF ServiceTimed, WaitTimed
  <2>2. RunningTimed(s)'
    BY <1>1 DEF EntryInv, SpotTimed, RunningTimed, ExpiredTimed, threadVars
  <2> QED
    BY <2>1, <2>2 DEF SpotTimed
<1>4. ASSUME NEW u \in Spots, u # s PROVE SpotTimed(u)'
  BY <1>1, <1>2, <1>4, SameTimesKeep, AwayFromEnter
     DEF EntryInv, SameTimes, threadVars
<1>5. OwnerTimed' /\ \A u \in Spots : PushedTimed(u)'
  BY <1>1, <1>2 DEF OwnerTimed, EntryInv, PushedTimed
<1> QED
  BY <1>3, <1>4, <1>5 DEF EntryInv

\* ... so that no handler is left when the entry time is gone.
LEMMA JoinTimes ==
    ASSUME TypeOK, EntryInv, NEW s \in Spots, Join(s)
    PROVE  EntryInv'
<1>1. /\ pc = "join" /\ cur = s /\ pc' # "join" /\ mTimerThread[s] = "run"
      /\ UNCHANGED <<waitVars, threadVars, pushed, stay>>
  BY DEF Join
<1>2. \A u \in Spots \ {s} : mEntryTime'[u] = mEntryTime[u]
  BY DEF Join, TypeOK
<1>3. SpotTimed(s)'
  <2>1. mService'[s] = <<>> /\ mParkingTimer'[s] = NoWait
    BY <1>1 DEF EntryInv, OwnerTimed, waitVars
  <2>2. ServiceTimed(s)' /\ WaitTimed(s)'
    BY <2>1 DEF ServiceTimed, WaitTimed
  <2>3. RunningTimed(s)'
    BY <1>1 DEF RunningTimed, threadVars
  <2> QED
    BY <2>2, <2>3 DEF SpotTimed
<1>4. ASSUME NEW u \in Spots, u # s PROVE SpotTimed(u)'
  BY <1>1, <1>2, <1>4, SameTimesKeep, AwayFromEnter
     DEF EntryInv, SameTimes, waitVars, threadVars
<1>5. OwnerTimed' /\ \A u \in Spots : PushedTimed(u)'
  BY <1>1 DEF OwnerTimed, EntryInv, PushedTimed
<1> QED
  BY <1>3, <1>4, <1>5 DEF EntryInv

-----------------------------------------------------------------------------
\* The deadline passes, after enter() if it is of this stay.
LEMMA ExpireTimes ==
    ASSUME TypeOK, EntryInv, NEW s \in Spots, Expire(s)
    PROVE  EntryInv'
<1> DEFINE h == [wait |-> mParkingTimer[s], cause |-> "expired"]
           q == mService[s]
<1>1. /\ mParkingTimer[s] # NoWait
      /\ mParkingTimer[s].seconds > 0 => ~InEnter(s)
      /\ UNCHANGED <<pc, cur, mEntryTime, threadVars, pushed, stay>>
  BY DEF Expire, mainVars, historyVars
<1>2. /\ mService'[s] = Append(q, h)
      /\ mParkingTimer'[s] = NoWait
      /\ \A u \in Spots \ {s} : mService'[u] = mService[u]
                                /\ mParkingTimer'[u] = mParkingTimer[u]
  BY DEF Expire, TypeOK
<1>3. ExpiredTimed(s, h)
  BY <1>1 DEF EntryInv, SpotTimed, WaitTimed, ExpiredTimed
<1>4. SpotTimed(s)'
  <2>1. WaitTimed(s)'
    BY <1>2 DEF WaitTimed
  <2>2. ServiceTimed(s)'
    <3>1. q \in Seq(Handlers) /\ h \in Handlers
      BY DEF TypeOK, Handlers
    <3>2. \A i \in DOMAIN q : ExpiredTimed(s, q[i])
      BY DEF EntryInv, SpotTimed, ServiceTimed
    <3> HIDE DEF h, q
    <3>3. /\ DOMAIN Append(q, h) = 1 .. Len(q) + 1
          /\ DOMAIN q = 1 .. Len(q)
          /\ Len(q) \in Nat
          /\ \A j \in 1 .. Len(q) : Append(q, h)[j] = q[j]
          /\ Append(q, h)[Len(q) + 1] = h
      BY <3>1, AppendProperties
    <3>4. ASSUME NEW i \in DOMAIN Append(q, h), NEW g, g = Append(q, h)[i]
          PROVE  ExpiredTimed(s, g)'
      <4>1. i \in 1 .. Len(q) \/ i = Len(q) + 1
        BY <3>3
      <4>2. ExpiredTimed(s, g)
        BY <1>3, <3>2, <3>3, <3>4, <4>1
      <4> QED
        BY <1>1, <4>2 DEF ExpiredTimed
    <3> QED
      BY <1>2, <3>4 DEF ServiceTimed, ExpiredTimed
  <2>3. RunningTimed(s)'
    BY <1>1 DEF EntryInv, SpotTimed, RunningTimed, ExpiredTimed, threadVars
  <2> QED
    BY <2>1, <2>2, <2>3 DEF SpotTimed
<1>5. ASSUME NEW u \in Spots, u # s PROVE SpotTimed(u)'
  BY <1>1, <1>2, <1>5, SameTimesKeep, AwayFromEnter
     DEF EntryInv, SameTimes, threadVars
<1>6. \A u \in Spots : PushedTimed(u)'
  BY <1>1 DEF EntryInv, PushedTimed
<1>7. OwnerTimed'
  <2>1. pc = "join" => cur # s
    BY <1>1 DEF EntryInv, OwnerTimed
  <2>2. cur \in Spots
    BY DEF TypeOK
  <2> QED
    BY <1>1, <1>2, <2>1, <2>2 DEF EntryInv, OwnerTimed
<1> QED
  BY <1>4, <1>5, <1>6, <1>7 DEF EntryInv

\* notifyExpiration starts with a handler that was due.
LEMMA NotifyTimes ==
    ASSUME TypeOK, EntryInv, NEW s \in Spots, NotifyExpiration(s)
    PROVE  EntryInv'
<1> DEFINE q == mService[s]
<1>1. /\ UNCHANGED <<pc, cur, mEntryTime, mParkingTimer, time, pushed, stay>>
      /\ mTimerThread[s] = "run" /\ q # <<>>
  BY DEF NotifyExpiration, mainVars, historyVars
<1>2. /\ mService'[s] = Tail(q)
      /\ \/ mTimerThread'[s] = "run"
         \/ mTimerThread'[s] = "time" /\ running'[s] = Head(q)
      /\ \A u \in Spots \ {s} : /\ mService'[u] = mService[u]
                                /\ mTimerThread'[u] = mTimerThread[u]
                                /\ running'[u] = running[u]
  BY <1>1 DEF NotifyExpiration, TypeOK
<1>3. SpotTimed(s)
  BY DEF EntryInv
<1>4. SpotTimed(s)'
  <2>1. /\ q \in Seq(Handlers) /\ Len(q) \in Nat /\ Len(q) > 0
        /\ DOMAIN q = 1 .. Len(q)
        /\ Head(q) = q[1]
        /\ DOMAIN Tail(q) = 1 .. Len(q) - 1
        /\ \A i \in 1 .. Len(q) - 1 : Tail(q)[i] = q[i + 1]
    <3>1. q \in Seq(Handlers)
      BY DEF TypeOK
    <3> HIDE DEF q
    <3> QED
      BY <1>1, <3>1, EmptySeq, HeadTailProperties
  <2>2. \A i \in DOMAIN q : ExpiredTimed(s, q[i])
    BY <1>3 DEF SpotTimed, ServiceTimed
  <2> HIDE DEF q
  <2>3. ServiceTimed(s)'
    <3>1. ASSUME NEW i \in DOMAIN Tail(q), NEW g, g = Tail(q)[i]
          PROVE  ExpiredTimed(s, g)'
      <4>1. ExpiredTimed(s, g)
        BY <2>1, <2>2, <3>1
      <4> QED
        BY <1>1, <4>1 DEF ExpiredTimed
    <3> QED
      BY <1>2, <3>1 DEF ServiceTimed, ExpiredTimed
  <2>4. RunningTimed(s)'
    <3>1. ExpiredTimed(s, Head(q))
      BY <2>1, <2>2
    <3> QED
      BY <1>1, <1>2, <3>1 DEF RunningTimed, ExpiredTimed
  <2>5. WaitTimed(s)'
    BY <1>1, <1>3 DEF SpotTimed, WaitTimed, InEnter
  <2> QED
    BY <2>3, <2>4, <2>5 DEF SpotTimed
<1>5. ASSUME NEW u \in Spots, u # s PROVE SpotTimed(u)'
  BY <1>1, <1>2, <1>5, SameTimesKeep, AwayFromEnter
     DEF EntryInv, SameTimes
<1>6. \A u \in Spots : PushedTimed(u)'
  BY <1>1 DEF EntryInv, PushedTimed
<1>7. OwnerTimed'
  <2>1. pc = "join" => cur # s
    BY <1>1 DEF EntryInv, OwnerTimed
  <2>2. cur \in Spots
    BY DEF TypeOK
  <2> QED
    BY <1>1, <1>2, <2>1, <2>2 DEF EntryInv, OwnerTimed
<1> QED
  BY <1>4, <1>5, <1>6, <1>7 DEF EntryInv

\* It reads the entry time, then sets the flag ...
LEMMA ReadTimes ==
    ASSUME TypeOK, EntryInv, NEW s \in Spots, ComputeTime(s) \/ OverFlag(s)
    PROVE  EntryInv'
<1>1. UNCHANGED <<pc, cur, mEntryTime, waitVars, running, pushed, stay>>
  BY DEF ComputeTime, OverFlag, mainVars, historyVars
<1>2. /\ \/ /\ mTimerThread[s] = "time" /\ mTimerThread'[s] = "flag"
            /\ time'[s].entry = mEntryTime[s]
         \/ /\ mTimerThread[s] = "flag" /\ mTimerThread'[s] = "push"
            /\ time'[s] = time[s]
      /\ \A u \in Spots \ {s} : /\ mTimerThread'[u] = mTimerThread[u]
                                /\ time'[u] = time[u]
  BY DEF ComputeTime, OverFlag, TypeOK
<1>3. SpotTimed(s)'
  <2>1. SpotTimed(s)
    BY DEF EntryInv
  <2>2. WaitTimed(s)' /\ ServiceTimed(s)'
    BY <1>1, <2>1
       DEF SpotTimed, WaitTimed, ServiceTimed, ExpiredTimed, InEnter, waitVars
  <2>3. RunningTimed(s)'
    BY <1>1, <1>2, <2>1 DEF SpotTimed, RunningTimed, ExpiredTimed
  <2> QED
    BY <2>2, <2>3 DEF SpotTimed
<1>4. ASSUME NEW u \in Spots, u # s PROVE SpotTimed(u)'
  BY <1>1, <1>2, <1>4, SameTimesKeep, AwayFromEnter
     DEF EntryInv, SameTimes, waitVars
<1>5. OwnerTimed' /\ \A u \in Spots : PushedTimed(u)'
  BY <1>1 DEF OwnerTimed, EntryInv, PushedTimed, waitVars
<1> QED
  BY <1>3, <1>4, <1>5 DEF EntryInv

\* ... and pushes OVER.
LEMMA OverTimes ==
    ASSUME TypeOK, EntryInv, NEW s \in Spots, OverPush(s)
    PROVE  EntryInv'
<1>1. /\ UNCHANGED <<pc, cur, mEntryTime, waitVars, stay>>
      /\ mTimerThread[s] = "push"
      /\ Push(s, "OVER", time[s], running[s])
  BY DEF OverPush, mainVars
<1>2. /\ mTimerThread'[s] = "run"
      /\ \A u \in Spots \ {s} : /\ mTimerThread'[u] = mTimerThread[u]
                                /\ running'[u] = running[u]
                                /\ time'[u] = time[u]
  BY DEF OverPush, TypeOK
<1>3. SpotTimed(s)
  BY DEF EntryInv
<1>4. \A u \in Spots : PushedTimed(u)'
  <2>1. /\ "OVER" \in Requests
        /\ time[s] \in Instants /\ running[s] \in Handlers
    BY DEF TypeOK, Requests
  <2>2. running[s].cause = "expired" /\ stay[s] = running[s].wait.stay
          => time[s].entry = running[s].wait.stay
    BY <1>1, <1>3 DEF SpotTimed, RunningTimed
  <2> QED
    BY <1>1, <2>1, <2>2, PushTimes DEF EntryInv
<1>5. SpotTimed(s)'
  <2>1. WaitTimed(s)' /\ ServiceTimed(s)'
    BY <1>1, <1>3
       DEF SpotTimed, WaitTimed, ServiceTimed, ExpiredTimed, InEnter, waitVars
  <2>2. RunningTimed(s)'
    BY <1>2 DEF RunningTimed
  <2> QED
    BY <2>1, <2>2 DEF SpotTimed
<1>6. ASSUME NEW u \in Spots, u # s PROVE SpotTimed(u)'
  BY <1>1, <1>2, <1>6, SameTimesKeep, AwayFromEnter
     DEF EntryInv, SameTimes, waitVars
<1>7. OwnerTimed'
  BY <1>1 DEF EntryInv, OwnerTimed, waitVars
<1> QED
  BY <1>4, <1>5, <1>6, <1>7 DEF EntryInv

-----------------------------------------------------------------------------
\* The wait of a stay runs out after its entry time is stored, and what its
\* handler reads is that time until the next vehicle enters.
THEOREM EntryCorrect ==
    ASSUME Positive
    PROVE  Spec => []EntryInv
<1>1. Init => EntryInv
  <2> SUFFICES ASSUME Init PROVE EntryInv
    OBVIOUS
  <2>1. OwnerTimed
    BY DEF Init, OwnerTimed
  <2>2. ASSUME NEW s \in Spots PROVE SpotTimed(s) /\ PushedTimed(s)
    BY DEF Init, SpotTimed, WaitTimed, ServiceTimed, RunningTimed,
           PushedTimed
  <2> QED
    BY <2>1, <2>2 DEF EntryInv
<1>2. TypeOK /\ EntryInv /\ [Next]_vars => EntryInv'
  <2> SUFFICES ASSUME TypeOK, EntryInv, [Next]_vars PROVE EntryInv'
    OBVIOUS
  <2> DEFINE Quiet ==
        /\ pc \notin {"pushEnter", "entryTime"} \/ UNCHANGED <<pc, cur>>
        /\ pc' # "join" \/ UNCHANGED <<pc, cur>>
        /\ UNCHANGED <<stay, mEntryTime, waitVars, threadVars, pushed>>
  <2>1. CASE Quiet
    BY <2>1, QuietTimes
  <2>2. CASE Frame \/ EndSpots \/ NoKey \/ Clear
    <3>1. Quiet
      BY <2>2 DEF Frame, EndSpots, NoKey, Clear, historyVars
    <3> QED
      BY <2>1, <3>1
  <2>3. ASSUME NEW s \in Spots, VoteStep(s) PROVE EntryInv'
    BY <2>3, VoteTimes DEF VoteStep
  <2>4. ASSUME NEW s \in Spots, EnterStep(s) PROVE EntryInv'
    BY <2>4, Positive, ArmTimes, OwnerPushTimes, SetTimeTimes DEF EnterStep
  <2>5. ASSUME NEW s \in Spots, ExitClear(s) \/ KeyExit(s) \/ Erase(s)
        PROVE  EntryInv'
    <3>1. Quiet
      BY <2>5 DEF ExitClear, KeyExit, Erase, historyVars
    <3> QED
      BY <2>1, <3>1
  <2>6. ASSUME NEW s \in Spots, ExitStep(s) PROVE EntryInv'
    BY <2>5, <2>6, OwnerPushTimes, StopTimerTimes DEF ExitStep
  <2>7. ASSUME NEW s \in Spots, ResetStatus(s) PROVE EntryInv'
    <3>1. Quiet
      BY <2>7 DEF ResetStatus
    <3> QED
      BY <2>1, <3>1
  <2>8. ASSUME NEW s \in Spots, EraseStep(s) PROVE EntryInv'
    BY <2>7, <2>8, StopTimerTimes, StopTimes, JoinTimes DEF EraseStep
  <2>9. ASSUME NEW s \in Spots, NEW limit \in Limits,
               UpdateAttributes(s, limit) \/ Add(s, limit)
        PROVE  EntryInv'
    <3>1. Quiet
      BY <2>9 DEF UpdateAttributes, Add, mainVars, historyVars
    <3> QED
      BY <2>1, <3>1
  <2>10. CASE \/ \E n \in EnterCounts : SetPositiveThreshold(n)
              \/ \E n \in ExitCounts : SetNegativeThreshold(n)
    <3>1. Quiet
      BY <2>10 DEF SetPositiveThreshold, SetNegativeThreshold, mainVars,
         historyVars
    <3> QED
      BY <2>1, <3>1
  <2>11. ASSUME NEW s \in Spots, Expire(s) \/ TimerStep(s) PROVE EntryInv'
    BY <2>11, ExpireTimes, NotifyTimes, ReadTimes, OverTimes DEF TimerStep
  <2>12. CASE UNCHANGED vars
    <3>1. Quiet
      BY <2>12 DEF vars, mainVars, historyVars
    <3> QED
      BY <2>1, <3>1
  <2> QED
    BY <2>2, <2>3, <2>4, <2>5, <2>6, <2>8, <2>9, <2>10, <2>11, <2>12
       DEF Next, OwnerStep, Request
<1>3. Spec => []TypeOK
  BY TypeCorrect
<1> QED
  BY <1>1, <1>2, <1>3, PTL DEF Spec

\* The time of an OVER whose timer ran out, pushed before the next vehicle
\* entered, counts from the entry of the vehicle it is about (enter,
\* notifyExpiration, overstayed), for positive time limits.
THEOREM OverCountsCorrect ==
    ASSUME Positive
    PROVE  Spec => []OverCountsFromEntry
<1>1. EntryInv => OverCountsFromEntry
  BY DEF EntryInv, PushedTimed, MessageTimed, OverCountsFromEntry
<1>2. Spec => []EntryInv
  BY EntryCorrect
<1> QED
  BY <1>1, <1>2, PTL

-----------------------------------------------------------------------------
(***************************************************************************)
(* The contract: the parking spots, with the timer threads beside the      *)
(* thread that owns them, implement SpotReports.                           *)
(***************************************************************************)

\* The stay a message is about, and the messages there are.
About(m) == IF m.req = "OVER" THEN m.handler.wait.stay ELSE m.stay

Said(s, req, k, n) ==
    \E i \in DOMAIN pushed[s] :
        /\ pushed[s][i].req = req
        /\ About(pushed[s][i]) = k
        /\ pushed[s][i].incarnation = n

Entered(s, k) == Said(s, "ENTER", k, incarnation[s])
Left(s, k)    == Said(s, "EXIT", k, incarnation[s])

\* A vehicle between its vote and its ENTER; between its vote and its EXIT;
\* and from its ENTER to its EXIT.
Coming(s)  == cur = s /\ pc \in {"startTimer", "pushEnter"}
Leaving(s) == cur = s /\ pc \in {"exit", "pushExit"}
Staying(s) == (mOccupied[s] /\ ~Coming(s)) \/ Leaving(s)

\* The spot is gone, or clear() and the destructor have begun with it.
Gone(s) ==
    \/ ~exists[s]
    \/ pc \in {"destroy", "join"} /\ s \in todo
    \/ pc \in {"reset", "resetStatus"} /\ s \notin todo

\* Where the owning thread works, there is a spot.
OwnerSound ==
    /\ todo \subseteq Present
    /\ pc \in {"startTimer", "pushEnter", "entryTime", "exit", "pushExit",
               "stopTimer"} => exists[cur]
    /\ pc \in {"startTimer", "pushEnter"} => mOccupied[cur] /\ stay[cur] > 0

Counted(s) == stay[s] <= MaxStays /\ incarnation[s] \in 1 .. MaxIncarnations

\* Nothing is said of a stay that has yet to be entered.
PastOnly(s) ==
    \A i \in DOMAIN pushed[s] :
        /\ pushed[s][i].incarnation <= incarnation[s]
        /\ About(pushed[s][i]) <= stay[s]
        /\ Coming(s) => About(pushed[s][i]) < stay[s]
        /\ pushed[s][i].req = "ENTER" => About(pushed[s][i]) > 0

\* The stay that is open is the last one, while the vehicle is there.
OneOpen(s) ==
    /\ \A k \in 0 .. MaxStays : Entered(s, k) /\ ~Left(s, k) =>
          k = stay[s] /\ (Staying(s) \/ Gone(s))
    /\ exists[s] /\ Staying(s) => Entered(s, stay[s]) /\ ~Left(s, stay[s])

\* Every overstay that was reported is of an earlier stay than k.
After(s, k) ==
    \A i \in DOMAIN pushed[s] :
        pushed[s][i].req = "OVER" /\ pushed[s][i].incarnation = incarnation[s]
            => About(pushed[s][i]) < k

\* ... and so is the one that is being reported.
Behind(s, k) ==
    /\ After(s, k)
    /\ mTimerThread[s] # "run" => running[s].wait.stay < k

\* The waits are for stays that were entered, in their order: the reported
\* ones, the running handler, the handlers that are due, the pending wait.
RunningDue(s) ==
    mTimerThread[s] # "run" =>
        Entered(s, running[s].wait.stay) /\ After(s, running[s].wait.stay)

ServiceDue(s) ==
    \A i \in DOMAIN mService[s] :
        /\ Entered(s, mService[s][i].wait.stay)
        /\ Behind(s, mService[s][i].wait.stay)
        /\ \A j \in DOMAIN mService[s] : j < i =>
              mService[s][j].wait.stay < mService[s][i].wait.stay

TimerDue(s) ==
    mParkingTimer[s] # NoWait =>
        /\ \/ Entered(s, mParkingTimer[s].stay)
           \/ cur = s /\ pc = "pushEnter" /\ mParkingTimer[s].stay = stay[s]
        /\ Behind(s, mParkingTimer[s].stay)
        /\ \A i \in DOMAIN mService[s] :
              mService[s][i].wait.stay < mParkingTimer[s].stay

\* A spot that is not in the map has no thread and no vehicle.
Absent(s) ==
    ~exists[s] =>
        /\ ~mOccupied[s]
        /\ mTimerThread[s] = "run"
        /\ mService[s] = <<>>
        /\ mParkingTimer[s] = NoWait

ThreadSound(s) == RunningDue(s) /\ ServiceDue(s) /\ TimerDue(s) /\ Absent(s)

SpotSound(s) == Counted(s) /\ PastOnly(s) /\ OneOpen(s) /\ ThreadSound(s)

ContractInv == OwnerSound /\ \A s \in Spots : SpotSound(s)

-----------------------------------------------------------------------------
LEMMA AppendParts ==
    ASSUME NEW S, NEW q \in Seq(S), NEW e \in S
    PROVE  /\ DOMAIN q = 1 .. Len(q) /\ Len(q) \in Nat
           /\ DOMAIN Append(q, e) = 1 .. Len(q) + 1
           /\ Append(q, e)[Len(q) + 1] = e
           /\ \A i \in DOMAIN q : /\ i \in DOMAIN Append(q, e)
                                  /\ i <= Len(q)
                                  /\ Append(q, e)[i] = q[i]
           /\ \A i \in DOMAIN Append(q, e) : i \in DOMAIN q \/ i = Len(q) + 1
<1>1. /\ DOMAIN q = 1 .. Len(q) /\ Len(q) \in Nat
      /\ DOMAIN Append(q, e) = 1 .. Len(q) + 1
      /\ Append(q, e)[Len(q) + 1] = e
      /\ \A i \in 1 .. Len(q) : Append(q, e)[i] = q[i]
  BY AppendProperties
<1> QED
  BY <1>1

\* Numbers that the conditions compare.
LEMMA SpotTypes ==
    ASSUME TypeOK, NEW s \in Spots
    PROVE  /\ stay[s] \in Nat /\ incarnation[s] \in Nat
           /\ mOccupied[s] \in BOOLEAN /\ exists[s] \in BOOLEAN
           /\ running[s] \in Handlers /\ running[s].wait.stay \in Nat
           /\ mParkingTimer[s] \in Waits /\ mParkingTimer[s].stay \in Nat
           /\ mService[s] \in Seq(Handlers)
           /\ \A i \in DOMAIN mService[s] :
                 i \in Nat /\ mService[s][i].wait.stay \in Nat
           /\ pushed[s] \in Seq(Messages)
           /\ \A i \in DOMAIN pushed[s] :
                 /\ pushed[s][i] \in Messages
                 /\ About(pushed[s][i]) \in Nat
                 /\ pushed[s][i].incarnation \in Nat
<1>1. /\ stay[s] \in Nat /\ incarnation[s] \in Nat
      /\ mOccupied[s] \in BOOLEAN /\ exists[s] \in BOOLEAN
      /\ running[s] \in Handlers
      /\ mParkingTimer[s] \in Waits
      /\ mService[s] \in Seq(Handlers)
      /\ pushed[s] \in Seq(Messages)
  BY DEF TypeOK
<1>2. \A m \in Messages : About(m) \in Nat /\ m.incarnation \in Nat
  BY DEF Messages, Handlers, Waits, About
<1>3. ASSUME NEW i \in DOMAIN pushed[s]
      PROVE  /\ pushed[s][i] \in Messages
             /\ About(pushed[s][i]) \in Nat
             /\ pushed[s][i].incarnation \in Nat
  <2>1. pushed[s][i] \in Messages
    BY <1>1
  <2> QED
    BY <1>2, <2>1
<1>4. ASSUME NEW i \in DOMAIN mService[s] PROVE i \in Nat
  BY <1>1
<1> QED
  BY <1>1, <1>3, <1>4, HandlerTypes

\* What was entered is not ahead of the vehicle that is coming.
LEMMA EnteredPast ==
    ASSUME TypeOK, NEW s \in Spots, NEW k, PastOnly(s), Entered(s, k)
    PROVE  /\ k \in Nat /\ k <= stay[s] /\ k > 0
           /\ Coming(s) => k < stay[s]
BY SpotTypes DEF PastOnly, Entered, Said

-----------------------------------------------------------------------------
AtPush(s) == cur = s /\ pc = "pushEnter"

\* The step leaves alone the messages and the waits of the spot.
Still(s) ==
    /\ pushed'[s] = pushed[s]
    /\ stay'[s] = stay[s]
    /\ incarnation'[s] = incarnation[s]
    /\ mParkingTimer'[s] = mParkingTimer[s]
    /\ mService'[s] = mService[s]
    /\ mTimerThread'[s] # "run" =>
          mTimerThread[s] # "run" /\ running'[s] = running[s]

LEMMA StillKeeps ==
    ASSUME NEW s \in Spots, SpotSound(s), Still(s),
           exists'[s] = exists[s],
           Coming(s)' => Coming(s),
           AtPush(s) => AtPush(s)',
           Gone(s) => Gone(s)',
           Staying(s) => Staying(s)' \/ Gone(s)',
           Staying(s)' => Staying(s),
           ~exists[s] => ~mOccupied'[s],
           mTimerThread[s] = "run" => mTimerThread'[s] = "run"
    PROVE  SpotSound(s)'
<1>1. Counted(s)'
  BY DEF SpotSound, Still, Counted
<1>2. PastOnly(s)'
  BY DEF SpotSound, Still, PastOnly
<1>3. \A req, k, n : Said(s, req, k, n)' <=> Said(s, req, k, n)
  BY DEF Still, Said
<1>4. \A k : /\ Entered(s, k)' <=> Entered(s, k)
             /\ Left(s, k)' <=> Left(s, k)
             /\ After(s, k)' <=> After(s, k)
             /\ Behind(s, k) => Behind(s, k)'
  BY <1>3 DEF Still, Entered, Left, After, Behind
<1>5. OneOpen(s)'
  BY <1>4 DEF SpotSound, Still, OneOpen
<1>6. RunningDue(s)'
  BY <1>4 DEF SpotSound, ThreadSound, Still, RunningDue
<1>7. ServiceDue(s)'
  BY <1>4 DEF SpotSound, ThreadSound, Still, ServiceDue
<1>8. TimerDue(s)'
  BY <1>4 DEF SpotSound, ThreadSound, Still, TimerDue, AtPush
<1>9. Absent(s)'
  BY DEF SpotSound, ThreadSound, Still, Absent
<1> QED
  BY <1>1, <1>2, <1>5, <1>6, <1>7, <1>8, <1>9 DEF SpotSound, ThreadSound

-----------------------------------------------------------------------------
\* A step of the owning thread between the calls of a spot, or into exit(),
\* the destructor or clear().
LEMMA QuietContract ==
    ASSUME TypeOK, ContractInv,
           pc \in {"frame", "spots", "keys", "entryTime"},
           pc' \in {"frame", "spots", "keys", "exit", "destroy", "reset"},
           todo' \subseteq Present,
           pc' = "exit" => exists[cur'] /\ mOccupied[cur'],
           UNCHANGED <<exists, mOccupied, waitVars, mTimerThread, running,
                       pushed, stay, incarnation>>
    PROVE  ContractInv'
<1>1. OwnerSound'
  BY DEF OwnerSound, Present
<1>2. ASSUME NEW s \in Spots PROVE SpotSound(s)'
  <2>1. Still(s)
    BY DEF Still, waitVars
  <2>2. ~Coming(s) /\ ~Coming(s)' /\ ~AtPush(s) /\ ~Leaving(s)
    BY DEF Coming, AtPush, Leaving
  <2>3. Leaving(s)' => mOccupied[s]
    BY DEF Leaving
  <2>4. Gone(s) => Gone(s)'
    BY DEF Gone
  <2>5. SpotSound(s) /\ (~exists[s] => ~mOccupied'[s])
    BY DEF ContractInv, SpotSound, ThreadSound, Absent
  <2> QED
    BY <2>1, <2>2, <2>3, <2>4, <2>5, StillKeeps DEF Staying
<1> QED
  BY <1>1, <1>2 DEF ContractInv

\* Nothing of the spots and of the owning thread moves but the handler.
LEMMA HandlerContract ==
    ASSUME TypeOK, ContractInv,
           UNCHANGED <<mainVars, exists, mOccupied, waitVars, pushed, stay,
                       incarnation>>,
           \A s \in Spots :
              \/ mTimerThread'[s] = mTimerThread[s] /\ running'[s] = running[s]
              \/ /\ mTimerThread[s] # "run" /\ mTimerThread'[s] # "run"
                 /\ running'[s] = running[s]
    PROVE  ContractInv'
<1>1. OwnerSound'
  BY DEF ContractInv, OwnerSound, Present, mainVars
<1>2. ASSUME NEW s \in Spots PROVE SpotSound(s)'
  <2>1. Still(s)
    BY DEF Still, waitVars
  <2>2. /\ Coming(s)' <=> Coming(s)
        /\ AtPush(s)' <=> AtPush(s)
        /\ Staying(s)' <=> Staying(s)
        /\ Gone(s)' <=> Gone(s)
    BY DEF Coming, AtPush, Leaving, Staying, Gone, mainVars
  <2>3. SpotSound(s) /\ (~exists[s] => ~mOccupied'[s])
    BY DEF ContractInv, SpotSound, ThreadSound, Absent
  <2> QED
    BY <2>1, <2>2, <2>3, StillKeeps
<1> QED
  BY <1>1, <1>2 DEF ContractInv

\* update(bool): a new stay begins where none is open.
LEMMA VoteContract ==
    ASSUME TypeOK, ContractInv, NEW s \in Spots, NEW v \in BOOLEAN,
           Vote(s, v)
    PROVE  ContractInv'
<1> DEFINE flips == Confirms(mOccupiedFrameCounter[s], v) /\ mOccupied[s] # v
<1>1. /\ pc = "spots" /\ cur' = s /\ s \in todo
      /\ todo' \subseteq todo
      /\ flips /\ v => stay[s] < MaxStays
      /\ pc' = CASE flips /\ v  -> "startTimer"
                 [] flips /\ ~v -> "exit"
                 [] OTHER       -> "spots"
      /\ UNCHANGED <<exists, waitVars, mTimerThread, running, pushed,
                     incarnation>>
  BY DEF Vote, IsNext, attrVars, threadVars
<1>2. /\ mOccupied'[s] = IF flips THEN v ELSE mOccupied[s]
      /\ stay'[s] = IF flips /\ v THEN stay[s] + 1 ELSE stay[s]
      /\ \A u \in Spots \ {s} : mOccupied'[u] = mOccupied[u]
                                /\ stay'[u] = stay[u]
  <2>1. mOccupied \in [Spots -> BOOLEAN] /\ stay \in [Spots -> Nat]
    BY DEF TypeOK
  <2> QED
    BY <2>1 DEF Vote
<1>3. flips => mOccupied[s] = ~v
  BY DEF TypeOK
<1> HIDE DEF flips
<1>4. exists[s] /\ todo' \subseteq Present' /\ SpotSound(s)
  BY <1>1 DEF ContractInv, OwnerSound, Present
<1>5. ASSUME NEW u \in Spots
      PROVE  /\ ~Coming(u) /\ ~AtPush(u) /\ ~Leaving(u)
             /\ Gone(u) <=> ~exists[u]
             /\ u # s => ~Coming(u)' /\ ~Leaving(u)'
             /\ Gone(u)' <=> ~exists[u]
  BY <1>1 DEF Coming, AtPush, Leaving, Gone
<1>6. ASSUME NEW u \in Spots, u # s PROVE SpotSound(u)'
  <2>1. Still(u)
    BY <1>1, <1>2, <1>6 DEF Still, waitVars
  <2>2. SpotSound(u) /\ (~exists[u] => ~mOccupied'[u])
    BY <1>2, <1>6 DEF ContractInv, SpotSound, ThreadSound, Absent
  <2> QED
    BY <1>1, <1>2, <1>5, <1>6, <2>1, <2>2, StillKeeps DEF Staying
<1>7. CASE ~(flips /\ v)
  <2>1. pc' \in {"exit", "spots"} /\ (flips => pc' = "exit")
    BY <1>1, <1>7
  <2>2. Still(s)
    BY <1>1, <1>2, <1>7 DEF Still, waitVars
  <2>3. /\ ~Coming(s)'
        /\ flips => Leaving(s)'
        /\ ~flips => ~Leaving(s)' /\ mOccupied'[s] = mOccupied[s]
        /\ flips => mOccupied[s]
    BY <1>1, <1>2, <1>3, <1>7, <2>1 DEF Coming, Leaving
  <2>4. SpotSound(s)'
    BY <1>1, <1>4, <1>5, <2>2, <2>3, StillKeeps DEF Staying
  <2>5. OwnerSound'
    BY <1>1, <1>4, <2>1 DEF OwnerSound
  <2> QED
    BY <1>6, <2>4, <2>5 DEF ContractInv
<1>8. CASE flips /\ v
  <2>1. pc' = "startTimer" /\ Coming(s)' /\ ~Leaving(s)' /\ mOccupied'[s]
    BY <1>1, <1>2, <1>8 DEF Coming, Leaving
  <2>2. stay'[s] = stay[s] + 1 /\ stay[s] < MaxStays /\ ~mOccupied[s]
    BY <1>1, <1>2, <1>3, <1>8
  <2>3. stay[s] \in Nat /\ MaxStays \in Nat
    BY SpotTypes, ParkingSpotAssumption
  <2>4. Counted(s)'
    BY <1>1, <1>4, <2>2, <2>3 DEF SpotSound, Counted
  <2>5. PastOnly(s)'
    BY <1>1, <1>4, <2>2, <2>3, SpotTypes DEF SpotSound, PastOnly
  <2>6. \A k : /\ Entered(s, k)' <=> Entered(s, k)
               /\ Left(s, k)' <=> Left(s, k)
               /\ After(s, k)' <=> After(s, k)
               /\ Behind(s, k)' <=> Behind(s, k)
    BY <1>1 DEF Entered, Left, Said, Behind, After
  <2>7. OneOpen(s)'
    <3>1. \A k \in 0 .. MaxStays : ~(Entered(s, k) /\ ~Left(s, k))
      BY <1>4, <1>5, <2>2 DEF SpotSound, OneOpen, Staying
    <3> QED
      BY <2>1, <2>6, <3>1 DEF OneOpen, Staying
  <2>8. ThreadSound(s)'
    <3>1. RunningDue(s)' /\ ServiceDue(s)'
      BY <1>1, <1>4, <2>6
         DEF SpotSound, ThreadSound, RunningDue, ServiceDue, waitVars
    <3>2. TimerDue(s)'
      BY <1>1, <1>4, <1>5, <2>6
         DEF SpotSound, ThreadSound, TimerDue, AtPush, waitVars
    <3>3. Absent(s)'
      BY <1>1, <1>4 DEF Absent
    <3> QED
      BY <3>1, <3>2, <3>3 DEF ThreadSound
  <2>9. OwnerSound'
    BY <1>1, <1>4, <2>1, <2>2, <2>3 DEF OwnerSound
  <2> QED
    BY <1>6, <2>4, <2>5, <2>7, <2>8, <2>9 DEF ContractInv, SpotSound
<1> QED
  BY <1>7, <1>8

-----------------------------------------------------------------------------
\* The pending wait ends: its handler is the last one that is due.
LEMMA QueuedDue ==
    ASSUME TypeOK, NEW s \in Spots, ThreadSound(s), ~AtPush(s),
           mParkingTimer[s] # NoWait,
           NEW h \in Handlers, h.wait = mParkingTimer[s],
           mService'[s] = Append(mService[s], h),
           UNCHANGED <<pushed, incarnation, mTimerThread, running>>
    PROVE  RunningDue(s)' /\ ServiceDue(s)'
<1> DEFINE q == mService[s]
<1>1. \A k : /\ Entered(s, k)' <=> Entered(s, k)
             /\ After(s, k)' <=> After(s, k)
             /\ Behind(s, k)' <=> Behind(s, k)
  BY DEF Entered, Said, Behind, After
<1>2. RunningDue(s)'
  BY <1>1 DEF ThreadSound, RunningDue
<1>3. /\ Entered(s, h.wait.stay)
      /\ Behind(s, h.wait.stay)
      /\ \A i \in DOMAIN q : q[i].wait.stay < h.wait.stay
  BY DEF ThreadSound, TimerDue, AtPush
<1>4. \A i \in DOMAIN q :
         /\ Entered(s, q[i].wait.stay)
         /\ Behind(s, q[i].wait.stay)
         /\ \A j \in DOMAIN q : j < i => q[j].wait.stay < q[i].wait.stay
  BY DEF ThreadSound, ServiceDue
<1>5. q \in Seq(Handlers)
  BY DEF TypeOK
<1> HIDE DEF q
<1>6. /\ DOMAIN q = 1 .. Len(q) /\ Len(q) \in Nat
      /\ DOMAIN Append(q, h) = 1 .. Len(q) + 1
      /\ Append(q, h)[Len(q) + 1] = h
      /\ \A i \in DOMAIN q : /\ i \in DOMAIN Append(q, h)
                             /\ i <= Len(q)
                             /\ Append(q, h)[i] = q[i]
      /\ \A i \in DOMAIN Append(q, h) : i \in DOMAIN q \/ i = Len(q) + 1
  BY <1>5, AppendParts
<1>7. ASSUME NEW i \in DOMAIN Append(q, h)
      PROVE  /\ Entered(s, Append(q, h)[i].wait.stay)
             /\ Behind(s, Append(q, h)[i].wait.stay)
  BY <1>3, <1>4, <1>6
<1>8. ASSUME NEW i \in DOMAIN Append(q, h), NEW j \in DOMAIN Append(q, h),
             j < i
      PROVE  Append(q, h)[j].wait.stay < Append(q, h)[i].wait.stay
  <2>1. j \in DOMAIN q
    BY <1>6, <1>8
  <2> QED
    BY <1>3, <1>4, <1>6, <1>8, <2>1
<1>9. mService'[s] = Append(q, h)
  BY DEF q
<1>10. ServiceDue(s)'
  BY <1>1, <1>7, <1>8, <1>9 DEF ServiceDue
<1> QED
  BY <1>2, <1>10

\* cancel() leaves the waits in their order.
LEMMA CancelDue ==
    ASSUME TypeOK, NEW s \in Spots, ThreadSound(s), ~AtPush(s),
           mService'[s] = Cancelled(s),
           UNCHANGED <<pushed, incarnation, mTimerThread, running>>
    PROVE  RunningDue(s)' /\ ServiceDue(s)'
<1>1. CASE mParkingTimer[s] = NoWait
  <2>1. mService'[s] = mService[s]
    BY <1>1 DEF Cancelled
  <2>2. \A k : /\ Entered(s, k)' <=> Entered(s, k)
               /\ After(s, k)' <=> After(s, k)
               /\ Behind(s, k)' <=> Behind(s, k)
    BY DEF Entered, Said, Behind, After
  <2> QED
    BY <2>1, <2>2 DEF ThreadSound, RunningDue, ServiceDue
<1>2. CASE mParkingTimer[s] # NoWait
  <2> DEFINE h == [wait |-> mParkingTimer[s], cause |-> "cancelled"]
  <2>1. h \in Handlers /\ h.wait = mParkingTimer[s]
    BY DEF TypeOK, Handlers
  <2>2. mService'[s] = Append(mService[s], h)
    BY <1>2 DEF Cancelled
  <2> HIDE DEF h
  <2> QED
    BY <1>2, <2>1, <2>2, QueuedDue
<1> QED
  BY <1>1, <1>2

\* What a step of one spot leaves alone in the others.
LEMMA OthersKeep ==
    ASSUME ContractInv, NEW u \in Spots, Still(u),
           exists'[u] = exists[u], mOccupied'[u] = mOccupied[u],
           mTimerThread'[u] = mTimerThread[u],
           ~Coming(u), ~Coming(u)', ~Leaving(u), ~Leaving(u)',
           Gone(u) => Gone(u)'
    PROVE  SpotSound(u)'
<1>1. SpotSound(u) /\ (~exists[u] => ~mOccupied'[u])
  BY DEF ContractInv, SpotSound, ThreadSound, Absent
<1>2. ~AtPush(u)
  BY DEF AtPush, Coming
<1> QED
  BY <1>1, <1>2, StillKeeps DEF Staying

\* startTimer in enter(): the new wait is for the vehicle that is coming.
LEMMA ArmContract ==
    ASSUME TypeOK, ContractInv, NEW s \in Spots, EnterStartTimer(s)
    PROVE  ContractInv'
<1>1. /\ pc = "startTimer" /\ cur = s /\ pc' = "pushEnter" /\ cur' = s
      /\ UNCHANGED <<todo, exists, threadVars, pushed, stay, incarnation>>
  BY DEF EnterStartTimer, historyVars
<1>2. /\ mOccupied'[s] /\ mOccupied[s]
      /\ \A u \in Spots \ {s} : mOccupied'[u] = mOccupied[u]
  BY <1>1 DEF EnterStartTimer, TypeOK, ContractInv, OwnerSound
<1>3. PICK seconds : Arm(s, seconds)
  BY DEF EnterStartTimer, StartTimer, StartReservedTimer
<1>4. /\ mService'[s] = Cancelled(s)
      /\ mParkingTimer'[s] = [stay |-> stay[s], seconds |-> seconds]
      /\ \A u \in Spots \ {s} : mService'[u] = mService[u]
                                /\ mParkingTimer'[u] = mParkingTimer[u]
  BY <1>3 DEF Arm, TypeOK
<1>5. SpotSound(s) /\ Coming(s) /\ ~AtPush(s) /\ exists[s] /\ Coming(s)'
  BY <1>1 DEF ContractInv, OwnerSound, Coming, AtPush
<1>6. RunningDue(s)' /\ ServiceDue(s)'
  BY <1>1, <1>4, <1>5, CancelDue DEF SpotSound, threadVars
<1>7. \A k : /\ Entered(s, k)' <=> Entered(s, k)
             /\ Left(s, k)' <=> Left(s, k)
             /\ After(s, k)' <=> After(s, k)
             /\ Behind(s, k)' <=> Behind(s, k)
  BY <1>1 DEF Entered, Left, Said, Behind, After, threadVars
<1>8. \A k : Entered(s, k) => k < stay[s]
  BY <1>5, EnteredPast DEF SpotSound
<1>9. TimerDue(s)'
  <2>1. After(s, stay[s])
    BY <1>5 DEF SpotSound, PastOnly, After
  <2>2. Behind(s, stay[s])
    BY <1>5, <1>8, <2>1 DEF SpotSound, ThreadSound, RunningDue, Behind
  <2>3. \A i \in DOMAIN mService'[s] : mService'[s][i].wait.stay < stay[s]
    BY <1>6, <1>7, <1>8 DEF ServiceDue
  <2> QED
    BY <1>1, <1>4, <1>7, <2>2, <2>3 DEF TimerDue
<1>10. SpotSound(s)'
  <2>1. ThreadSound(s)'
    BY <1>1, <1>5, <1>6, <1>9 DEF ThreadSound, Absent
  <2>2. Counted(s)' /\ PastOnly(s)'
    BY <1>1, <1>5 DEF SpotSound, Counted, PastOnly
  <2>3. OneOpen(s)'
    <3>1. ~Leaving(s) /\ ~Leaving(s)' /\ ~Gone(s)
      BY <1>1, <1>5 DEF Leaving, Gone
    <3> QED
      BY <1>1, <1>5, <1>7, <3>1 DEF SpotSound, OneOpen, Staying
  <2> QED
    BY <2>1, <2>2, <2>3 DEF SpotSound
<1>11. ASSUME NEW u \in Spots, u # s PROVE SpotSound(u)'
  <2>1. Still(u)
    BY <1>1, <1>4, <1>11 DEF Still, threadVars
  <2>2. /\ ~Coming(u) /\ ~Coming(u)' /\ ~Leaving(u) /\ ~Leaving(u)'
        /\ Gone(u) => Gone(u)'
    BY <1>1, <1>11 DEF Coming, Leaving, Gone
  <2> QED
    BY <1>1, <1>2, <1>11, <2>1, <2>2, OthersKeep DEF threadVars
<1>12. OwnerSound'
  BY <1>1, <1>2 DEF ContractInv, OwnerSound, Present
<1> QED
  BY <1>10, <1>11, <1>12 DEF ContractInv

-----------------------------------------------------------------------------
\* A pushed message is said, and nothing else that was not.
LEMMA PushSays ==
    ASSUME TypeOK, NEW s \in Spots, NEW req \in Requests,
           NEW when \in Instants, NEW handler \in Handlers,
           Push(s, req, when, handler)
    PROVE  LET k0 == IF req = "OVER" THEN handler.wait.stay ELSE stay[s]
           IN /\ \A u \in Spots \ {s} : pushed'[u] = pushed[u]
              /\ \A r, k, n : Said(s, r, k, n)' <=>
                    \/ Said(s, r, k, n)
                    \/ r = req /\ k = k0 /\ n = incarnation[s]
              /\ \A i \in DOMAIN pushed'[s] :
                    \/ /\ i \in DOMAIN pushed[s]
                       /\ pushed'[s][i] = pushed[s][i]
                    \/ /\ pushed'[s][i].req = req
                       /\ About(pushed'[s][i]) = k0
                       /\ pushed'[s][i].incarnation = incarnation[s]
<1> DEFINE m == [req |-> req, stay |-> stay[s],
                 incarnation |-> incarnation[s], time |-> when,
                 handler |-> handler]
           q == pushed[s]
           k0 == IF req = "OVER" THEN handler.wait.stay ELSE stay[s]
<1>1. m \in Messages /\ q \in Seq(Messages)
  BY DEF TypeOK, Messages
<1>2. /\ pushed'[s] = Append(q, m)
      /\ \A u \in Spots \ {s} : pushed'[u] = pushed[u]
  BY DEF Push, TypeOK
<1>3. m.req = req /\ About(m) = k0 /\ m.incarnation = incarnation[s]
  BY DEF About
<1> HIDE DEF m, q, k0
<1>4. /\ DOMAIN q = 1 .. Len(q) /\ Len(q) \in Nat
      /\ DOMAIN Append(q, m) = 1 .. Len(q) + 1
      /\ Append(q, m)[Len(q) + 1] = m
      /\ \A i \in DOMAIN q : /\ i \in DOMAIN Append(q, m)
                             /\ i <= Len(q)
                             /\ Append(q, m)[i] = q[i]
      /\ \A i \in DOMAIN Append(q, m) : i \in DOMAIN q \/ i = Len(q) + 1
  BY <1>1, AppendParts
<1>5. \A i \in DOMAIN pushed'[s] :
         \/ i \in DOMAIN q /\ pushed'[s][i] = q[i]
         \/ pushed'[s][i] = m
  BY <1>2, <1>4
<1>6. /\ \A i \in DOMAIN q : i \in DOMAIN pushed'[s] /\ pushed'[s][i] = q[i]
      /\ \E i \in DOMAIN pushed'[s] : pushed'[s][i] = m
  <2>1. Len(q) + 1 \in DOMAIN Append(q, m)
    BY <1>4
  <2> QED
    BY <1>2, <1>4, <2>1
<1>7. ASSUME NEW r, NEW k, NEW n
      PROVE  Said(s, r, k, n)' <=>
                \/ Said(s, r, k, n)
                \/ r = req /\ k = k0 /\ n = incarnation[s]
  <2>1. Said(s, r, k, n) <=> \E i \in DOMAIN q : /\ q[i].req = r
                                                /\ About(q[i]) = k
                                                /\ q[i].incarnation = n
    BY DEF Said, q
  <2>2. Said(s, r, k, n)' <=>
           \E i \in DOMAIN pushed'[s] : /\ pushed'[s][i].req = r
                                        /\ About(pushed'[s][i]) = k
                                        /\ pushed'[s][i].incarnation = n
    BY DEF Said, About
  <2> QED
    BY <1>3, <1>5, <1>6, <2>1, <2>2
<1>8. \A i \in DOMAIN pushed'[s] :
         \/ /\ i \in DOMAIN pushed[s]
            /\ pushed'[s][i] = pushed[s][i]
         \/ /\ pushed'[s][i].req = req
            /\ About(pushed'[s][i]) = k0
            /\ pushed'[s][i].incarnation = incarnation[s]
  BY <1>3, <1>5 DEF q
<1> QED
  BY <1>2, <1>7, <1>8 DEF k0

\* Only what is said of overstays matters to the waits.
LEMMA AfterSaid ==
    ASSUME NEW s \in Spots
    PROVE  \A k : /\ After(s, k) <=>
                        \A j : Said(s, "OVER", j, incarnation[s]) => j < k
                  /\ After(s, k)' <=>
                        \A j : Said(s, "OVER", j, incarnation[s])' => j < k
<1>1. ASSUME NEW k
      PROVE  After(s, k) <=>
                \A j : Said(s, "OVER", j, incarnation[s]) => j < k
  BY DEF After, Said
<1>2. ASSUME NEW k
      PROVE  After(s, k)' <=>
                \A j : Said(s, "OVER", j, incarnation[s])' => j < k
  <2> DEFINE q == pushed'[s]
             n == incarnation'[s]
  <2>1. After(s, k)' <=>
           \A i \in DOMAIN q : q[i].req = "OVER" /\ q[i].incarnation = n
                                  => About(q[i]) < k
    BY DEF After, About
  <2>2. \A j : Said(s, "OVER", j, incarnation[s])' <=>
           \E i \in DOMAIN q : /\ q[i].req = "OVER"
                               /\ About(q[i]) = j
                               /\ q[i].incarnation = n
    BY DEF Said, About
  <2> HIDE DEF q, n
  <2> QED
    BY <2>1, <2>2
<1> QED
  BY <1>1, <1>2

\* enter() announces the vehicle: from here its stay is open.
LEMMA EnterContract ==
    ASSUME TypeOK, ContractInv, NEW s \in Spots, EnterPush(s)
    PROVE  ContractInv'
<1>1. /\ pc = "pushEnter" /\ cur = s /\ pc' = "entryTime" /\ cur' = s
      /\ Push(s, "ENTER", [entry |-> stay[s], seconds |-> 0], NoHandler)
      /\ UNCHANGED <<todo, exists, mOccupied, waitVars, threadVars, stay,
                     incarnation>>
  BY DEF EnterPush, statusVars, attrVars
<1>2. /\ \A u \in Spots \ {s} : pushed'[u] = pushed[u]
      /\ \A r, k, n : Said(s, r, k, n)' <=>
            \/ Said(s, r, k, n)
            \/ r = "ENTER" /\ k = stay[s] /\ n = incarnation[s]
      /\ \A i \in DOMAIN pushed'[s] :
            \/ i \in DOMAIN pushed[s] /\ pushed'[s][i] = pushed[s][i]
            \/ /\ pushed'[s][i].req = "ENTER"
               /\ About(pushed'[s][i]) = stay[s]
               /\ pushed'[s][i].incarnation = incarnation[s]
  <2>1. [entry |-> stay[s], seconds |-> 0] \in Instants
    BY SpotTypes DEF Instants
  <2>2. "ENTER" \in Requests
    BY DEF Requests
  <2> QED
    BY <1>1, <2>1, <2>2, NoneTypes, PushSays
<1>3. /\ SpotSound(s) /\ Coming(s) /\ exists[s] /\ mOccupied[s]
      /\ stay[s] > 0 /\ ~Leaving(s) /\ ~Gone(s) /\ ~Staying(s)
  BY <1>1 DEF ContractInv, OwnerSound, Coming, Leaving, Staying, Gone
<1>4. ~Coming(s)' /\ Staying(s)'
  BY <1>1, <1>3 DEF Coming, Staying
<1>5. PastOnly(s)'
  <2>1. ASSUME NEW i \in DOMAIN pushed'[s]
        PROVE  /\ pushed'[s][i].incarnation <= incarnation[s]
               /\ About(pushed'[s][i]) <= stay[s]
               /\ pushed'[s][i].req = "ENTER" => About(pushed'[s][i]) > 0
    BY <1>2, <1>3, SpotTypes DEF SpotSound, PastOnly
  <2> QED
    BY <1>1, <1>4, <2>1 DEF PastOnly, About
<1>6. \A k : /\ Entered(s, k)' <=> Entered(s, k) \/ k = stay[s]
             /\ Left(s, k)' <=> Left(s, k)
  BY <1>1, <1>2 DEF Entered, Left
<1>7. \A k : After(s, k)' <=> After(s, k)
  <2>1. \A j, n : Said(s, "OVER", j, n)' <=> Said(s, "OVER", j, n)
    BY <1>2
  <2> QED
    BY <1>1, <2>1, AfterSaid
<1>8. \A k : Behind(s, k)' <=> Behind(s, k)
  BY <1>1, <1>7 DEF Behind, threadVars
<1>9. OneOpen(s)'
  <2>1. ~Left(s, stay[s])
    BY <1>3, SpotTypes DEF Left, Said, SpotSound, PastOnly
  <2>2. \A k \in 0 .. MaxStays : ~(Entered(s, k) /\ ~Left(s, k))
    BY <1>3 DEF SpotSound, OneOpen
  <2> QED
    BY <1>1, <1>4, <1>6, <2>1, <2>2 DEF OneOpen
<1>10. ThreadSound(s)'
  <2>1. RunningDue(s)' /\ ServiceDue(s)' /\ TimerDue(s)'
    BY <1>1, <1>3, <1>6, <1>7, <1>8
       DEF SpotSound, ThreadSound, RunningDue, ServiceDue, TimerDue,
           waitVars, threadVars
  <2> QED
    BY <1>1, <1>3, <2>1 DEF ThreadSound, Absent
<1>11. Counted(s)'
  BY <1>1, <1>3 DEF SpotSound, Counted
<1>12. ASSUME NEW u \in Spots, u # s PROVE SpotSound(u)'
  <2>1. Still(u)
    BY <1>1, <1>2, <1>12 DEF Still, waitVars, threadVars
  <2>2. /\ ~Coming(u) /\ ~Coming(u)' /\ ~Leaving(u) /\ ~Leaving(u)'
        /\ Gone(u) => Gone(u)'
    BY <1>1, <1>12 DEF Coming, Leaving, Gone
  <2> QED
    BY <1>1, <1>12, <2>1, <2>2, OthersKeep DEF threadVars
<1>13. OwnerSound'
  BY <1>1 DEF ContractInv, OwnerSound, Present
<1> QED
  BY <1>5, <1>9, <1>10, <1>11, <1>12, <1>13 DEF ContractInv, SpotSound

\* exit() announces that it left: its stay is closed.
LEMMA ExitContract ==
    ASSUME TypeOK, LateInv, ContractInv, NEW s \in Spots, ExitPush(s)
    PROVE  ContractInv'
<1>1. /\ pc = "pushExit" /\ cur = s /\ pc' = "stopTimer" /\ cur' = s
      /\ Push(s, "EXIT", NoTime, NoHandler)
      /\ UNCHANGED <<todo, exists, mOccupied, waitVars, threadVars, stay,
                     incarnation>>
  BY DEF ExitPush, statusVars, attrVars
<1>2. /\ \A u \in Spots \ {s} : pushed'[u] = pushed[u]
      /\ \A r, k, n : Said(s, r, k, n)' <=>
            \/ Said(s, r, k, n)
            \/ r = "EXIT" /\ k = stay[s] /\ n = incarnation[s]
      /\ \A i \in DOMAIN pushed'[s] :
            \/ i \in DOMAIN pushed[s] /\ pushed'[s][i] = pushed[s][i]
            \/ /\ pushed'[s][i].req = "EXIT"
               /\ About(pushed'[s][i]) = stay[s]
               /\ pushed'[s][i].incarnation = incarnation[s]
  <2>1. "EXIT" \in Requests
    BY DEF Requests
  <2> QED
    BY <1>1, <2>1, NoneTypes, PushSays
<1>3. SpotSound(s) /\ ~Coming(s) /\ ~Coming(s)' /\ exists[s] /\ ~AtPush(s)
  BY <1>1 DEF ContractInv, OwnerSound, Coming, AtPush
<1>4. ~Staying(s)'
  BY <1>1 DEF LateInv, OwnerLate, Staying, Leaving
<1>5. PastOnly(s)'
  <2>1. ASSUME NEW i \in DOMAIN pushed'[s]
        PROVE  /\ pushed'[s][i].incarnation <= incarnation[s]
               /\ About(pushed'[s][i]) <= stay[s]
               /\ pushed'[s][i].req = "ENTER" => About(pushed'[s][i]) > 0
    BY <1>2, <1>3, SpotTypes DEF SpotSound, PastOnly
  <2> QED
    BY <1>1, <1>3, <2>1 DEF PastOnly, About
<1>6. \A k : /\ Entered(s, k)' <=> Entered(s, k)
             /\ Left(s, k)' <=> Left(s, k) \/ k = stay[s]
  BY <1>1, <1>2 DEF Entered, Left
<1>7. \A k : After(s, k)' <=> After(s, k)
  <2>1. \A j, n : Said(s, "OVER", j, n)' <=> Said(s, "OVER", j, n)
    BY <1>2
  <2> QED
    BY <1>1, <2>1, AfterSaid
<1>8. \A k : Behind(s, k)' <=> Behind(s, k)
  BY <1>1, <1>7 DEF Behind, threadVars
<1>9. OneOpen(s)'
  BY <1>1, <1>3, <1>4, <1>6 DEF SpotSound, OneOpen
<1>10. ThreadSound(s)'
  <2>1. RunningDue(s)' /\ ServiceDue(s)' /\ TimerDue(s)'
    BY <1>1, <1>3, <1>6, <1>7, <1>8
       DEF SpotSound, ThreadSound, RunningDue, ServiceDue, TimerDue, AtPush,
           waitVars, threadVars
  <2> QED
    BY <1>1, <1>3, <2>1 DEF ThreadSound, Absent
<1>11. Counted(s)'
  BY <1>1, <1>3 DEF SpotSound, Counted
<1>12. ASSUME NEW u \in Spots, u # s PROVE SpotSound(u)'
  <2>1. Still(u)
    BY <1>1, <1>2, <1>12 DEF Still, waitVars, threadVars
  <2>2. /\ ~Coming(u) /\ ~Coming(u)' /\ ~Leaving(u) /\ ~Leaving(u)'
        /\ Gone(u) => Gone(u)'
    BY <1>1, <1>12 DEF Coming, Leaving, Gone
  <2> QED
    BY <1>1, <1>12, <2>1, <2>2, OthersKeep DEF threadVars
<1>13. OwnerSound'
  BY <1>1 DEF ContractInv, OwnerSound, Present
<1> QED
  BY <1>5, <1>9, <1>10, <1>11, <1>12, <1>13 DEF ContractInv, SpotSound

\* overstayed() reports a stay that was entered, and the waits behind it are
\* for later ones.
LEMMA OverContract ==
    ASSUME TypeOK, ContractInv, NEW s \in Spots, OverPush(s)
    PROVE  ContractInv'
<1> DEFINE w == running[s].wait.stay
<1>1. /\ mTimerThread[s] = "push"
      /\ Push(s, "OVER", time[s], running[s])
      /\ UNCHANGED <<mainVars, exists, mOccupied, waitVars, stay,
                     incarnation>>
  BY DEF OverPush, statusVars, attrVars
<1>2. /\ mTimerThread'[s] = "run"
      /\ \A u \in Spots \ {s} : /\ mTimerThread'[u] = mTimerThread[u]
                                /\ running'[u] = running[u]
  BY DEF OverPush, TypeOK
<1>3. /\ \A u \in Spots \ {s} : pushed'[u] = pushed[u]
      /\ \A r, k, n : Said(s, r, k, n)' <=>
            \/ Said(s, r, k, n)
            \/ r = "OVER" /\ k = w /\ n = incarnation[s]
      /\ \A i \in DOMAIN pushed'[s] :
            \/ i \in DOMAIN pushed[s] /\ pushed'[s][i] = pushed[s][i]
            \/ /\ pushed'[s][i].req = "OVER"
               /\ About(pushed'[s][i]) = w
               /\ pushed'[s][i].incarnation = incarnation[s]
  <2>1. "OVER" \in Requests /\ time[s] \in Instants /\ running[s] \in Handlers
    BY DEF Requests, TypeOK
  <2> QED
    BY <1>1, <2>1, PushSays
<1>4. SpotSound(s) /\ Entered(s, w)
  BY <1>1 DEF ContractInv, SpotSound, ThreadSound, RunningDue
<1>5. w \in Nat /\ w <= stay[s] /\ (Coming(s) => w < stay[s])
  BY <1>4, EnteredPast DEF SpotSound
<1>6. ASSUME NEW u \in Spots
      PROVE  /\ Coming(u)' <=> Coming(u)
             /\ Leaving(u)' <=> Leaving(u)
             /\ Staying(u)' <=> Staying(u)
             /\ AtPush(u)' <=> AtPush(u)
             /\ Gone(u)' <=> Gone(u)
  BY <1>1 DEF Coming, Leaving, Staying, AtPush, Gone, mainVars
<1>7. PastOnly(s)'
  <2>1. ASSUME NEW i \in DOMAIN pushed'[s]
        PROVE  /\ pushed'[s][i].incarnation <= incarnation[s]
               /\ About(pushed'[s][i]) <= stay[s]
               /\ Coming(s) => About(pushed'[s][i]) < stay[s]
               /\ pushed'[s][i].req = "ENTER" => About(pushed'[s][i]) > 0
    BY <1>3, <1>4, <1>5, SpotTypes DEF SpotSound, PastOnly
  <2> QED
    BY <1>1, <1>6, <2>1 DEF PastOnly, About
<1>8. \A k : /\ Entered(s, k)' <=> Entered(s, k)
             /\ Left(s, k)' <=> Left(s, k)
  BY <1>1, <1>3 DEF Entered, Left
<1>9. \A k : Behind(s, k) => Behind(s, k)'
  <2>1. \A j : Said(s, "OVER", j, incarnation[s])' <=>
                  Said(s, "OVER", j, incarnation[s]) \/ j = w
    BY <1>1, <1>3
  <2>2. ASSUME NEW k, Behind(s, k) PROVE Behind(s, k)'
    <3>1. After(s, k) /\ w < k
      BY <1>1, <2>2 DEF Behind
    <3>2. After(s, k)'
      BY <1>1, <2>1, <3>1, AfterSaid
    <3> QED
      BY <1>2, <3>2 DEF Behind
  <2> QED
    BY <2>2
<1>10. OneOpen(s)'
  BY <1>1, <1>4, <1>6, <1>8 DEF SpotSound, OneOpen
<1>11. ThreadSound(s)'
  <2>1. RunningDue(s)'
    BY <1>2 DEF RunningDue
  <2>2. ServiceDue(s)' /\ TimerDue(s)'
    BY <1>1, <1>4, <1>6, <1>8, <1>9
       DEF SpotSound, ThreadSound, ServiceDue, TimerDue, AtPush, waitVars
  <2>3. Absent(s)'
    BY <1>1, <1>2, <1>4 DEF SpotSound, ThreadSound, Absent, waitVars
  <2> QED
    BY <2>1, <2>2, <2>3 DEF ThreadSound
<1>12. Counted(s)'
  BY <1>1, <1>4 DEF SpotSound, Counted
<1>13. ASSUME NEW u \in Spots, u # s PROVE SpotSound(u)'
  <2>1. Still(u)
    BY <1>1, <1>2, <1>3, <1>13 DEF Still, waitVars
  <2>2. SpotSound(u) /\ (~exists[u] => ~mOccupied'[u])
    BY <1>1 DEF ContractInv, SpotSound, ThreadSound, Absent
  <2> QED
    BY <1>1, <1>2, <1>6, <1>13, <2>1, <2>2, StillKeeps
<1>14. OwnerSound'
  BY <1>1 DEF ContractInv, OwnerSound, Present, mainVars
<1> QED
  BY <1>7, <1>10, <1>11, <1>12, <1>13, <1>14 DEF ContractInv, SpotSound

-----------------------------------------------------------------------------
\* The deadline passes: never inside enter(), for positive time limits.
LEMMA ExpireContract ==
    ASSUME TypeOK, EntryInv, ContractInv, NEW s \in Spots, Expire(s)
    PROVE  ContractInv'
<1> DEFINE h == [wait |-> mParkingTimer[s], cause |-> "expired"]
<1>1. /\ mParkingTimer[s] # NoWait
      /\ mParkingTimer[s].seconds > 0 => ~InEnter(s)
      /\ UNCHANGED <<mainVars, exists, mOccupied, threadVars, pushed, stay,
                     incarnation>>
  BY DEF Expire, statusVars, attrVars, historyVars
<1>2. /\ mService'[s] = Append(mService[s], h)
      /\ mParkingTimer'[s] = NoWait
      /\ \A u \in Spots \ {s} : mService'[u] = mService[u]
                                /\ mParkingTimer'[u] = mParkingTimer[u]
  BY DEF Expire, TypeOK
<1>3. ~AtPush(s) /\ SpotSound(s)
  BY <1>1 DEF EntryInv, SpotTimed, WaitTimed, InEnter, AtPush, ContractInv
<1>4. RunningDue(s)' /\ ServiceDue(s)'
  <2>1. h \in Handlers /\ h.wait = mParkingTimer[s]
    BY DEF TypeOK, Handlers
  <2> HIDE DEF h
  <2> QED
    BY <1>1, <1>2, <1>3, <2>1, QueuedDue DEF SpotSound, threadVars
<1>5. ASSUME NEW u \in Spots
      PROVE  /\ Coming(u)' <=> Coming(u)
             /\ Staying(u)' <=> Staying(u)
             /\ AtPush(u)' <=> AtPush(u)
             /\ Gone(u)' <=> Gone(u)
  BY <1>1 DEF Coming, Leaving, Staying, AtPush, Gone, mainVars
<1>6. SpotSound(s)'
  <2>1. \A k : /\ Entered(s, k)' <=> Entered(s, k)
               /\ Left(s, k)' <=> Left(s, k)
    BY <1>1 DEF Entered, Left, Said
  <2>2. Counted(s)' /\ PastOnly(s)'
    BY <1>1, <1>3, <1>5 DEF SpotSound, Counted, PastOnly
  <2>3. OneOpen(s)'
    BY <1>1, <1>3, <1>5, <2>1 DEF SpotSound, OneOpen
  <2>4. TimerDue(s)'
    BY <1>2 DEF TimerDue
  <2>5. Absent(s)'
    BY <1>1, <1>3 DEF SpotSound, ThreadSound, Absent
  <2> QED
    BY <1>4, <2>2, <2>3, <2>4, <2>5 DEF SpotSound, ThreadSound
<1>7. ASSUME NEW u \in Spots, u # s PROVE SpotSound(u)'
  <2>1. Still(u)
    BY <1>1, <1>2, <1>7 DEF Still, threadVars
  <2>2. SpotSound(u) /\ (~exists[u] => ~mOccupied'[u])
    BY <1>1 DEF ContractInv, SpotSound, ThreadSound, Absent
  <2> QED
    BY <1>1, <1>5, <2>1, <2>2, StillKeeps DEF threadVars
<1>8. OwnerSound'
  BY <1>1 DEF ContractInv, OwnerSound, Present, mainVars
<1> QED
  BY <1>6, <1>7, <1>8 DEF ContractInv

\* notifyExpiration takes the first handler that is due, or drops it.
LEMMA NotifyContract ==
    ASSUME TypeOK, ContractInv, NEW s \in Spots, NotifyExpiration(s)
    PROVE  ContractInv'
<1> DEFINE q == mService[s]
<1>1. /\ mTimerThread[s] = "run" /\ q # <<>>
      /\ UNCHANGED <<mainVars, exists, mOccupied, mParkingTimer, pushed,
                     stay, incarnation>>
  BY DEF NotifyExpiration, statusVars, attrVars, historyVars
<1>2. /\ mService'[s] = Tail(q)
      /\ \/ mTimerThread'[s] = "run"
         \/ running'[s] = Head(q)
      /\ \A u \in Spots \ {s} : /\ mService'[u] = mService[u]
                                /\ mTimerThread'[u] = mTimerThread[u]
                                /\ running'[u] = running[u]
  BY <1>1 DEF NotifyExpiration, TypeOK
<1>3. SpotSound(s)
  BY DEF ContractInv
<1>4. \A k : /\ Entered(s, k)' <=> Entered(s, k)
             /\ Left(s, k)' <=> Left(s, k)
             /\ After(s, k)' <=> After(s, k)
  BY <1>1 DEF Entered, Left, Said, After
<1>5. exists[s]
  BY <1>1, <1>3 DEF SpotSound, ThreadSound, Absent, TypeOK
<1>6. \A i \in DOMAIN q :
         /\ Entered(s, q[i].wait.stay)
         /\ After(s, q[i].wait.stay)
         /\ \A j \in DOMAIN q : j < i => q[j].wait.stay < q[i].wait.stay
  BY <1>3 DEF SpotSound, ThreadSound, ServiceDue, Behind
<1>7. mParkingTimer[s] # NoWait =>
         /\ \/ Entered(s, mParkingTimer[s].stay)
            \/ cur = s /\ pc = "pushEnter" /\ mParkingTimer[s].stay = stay[s]
         /\ After(s, mParkingTimer[s].stay)
         /\ \A i \in DOMAIN q : q[i].wait.stay < mParkingTimer[s].stay
  BY <1>3 DEF SpotSound, ThreadSound, TimerDue, Behind
<1>8. q \in Seq(Handlers)
  BY DEF TypeOK
<1> HIDE DEF q
<1>9. /\ Len(q) \in Nat /\ Len(q) > 0
      /\ DOMAIN q = 1 .. Len(q)
      /\ Head(q) = q[1]
      /\ DOMAIN Tail(q) = 1 .. Len(q) - 1
      /\ \A i \in 1 .. Len(q) - 1 : Tail(q)[i] = q[i + 1]
  BY <1>1, <1>8, EmptySeq, HeadTailProperties
<1>10. ASSUME NEW i \in DOMAIN Tail(q)
       PROVE  /\ i + 1 \in DOMAIN q /\ Tail(q)[i] = q[i + 1]
              /\ 1 \in DOMAIN q /\ 1 < i + 1
  BY <1>9
<1>11. RunningDue(s)'
  <2>1. CASE mTimerThread'[s] = "run"
    BY <2>1 DEF RunningDue
  <2>2. CASE running'[s] = q[1]
    <3>1. 1 \in DOMAIN q
      BY <1>9
    <3> QED
      BY <1>4, <1>6, <2>2, <3>1 DEF RunningDue
  <2> QED
    BY <1>2, <1>9, <2>1, <2>2
<1>12. ServiceDue(s)'
  <2>1. ASSUME NEW i \in DOMAIN Tail(q)
        PROVE  /\ Entered(s, Tail(q)[i].wait.stay)
               /\ After(s, Tail(q)[i].wait.stay)
               /\ q[1].wait.stay < Tail(q)[i].wait.stay
               /\ \A j \in DOMAIN Tail(q) : j < i =>
                     Tail(q)[j].wait.stay < Tail(q)[i].wait.stay
    <3>1. ASSUME NEW j \in DOMAIN Tail(q), j < i
          PROVE  Tail(q)[j].wait.stay < Tail(q)[i].wait.stay
      <4>1. j + 1 < i + 1
        BY <1>9, <3>1
      <4> QED
        BY <1>6, <1>10, <4>1
    <3> QED
      BY <1>6, <1>10, <3>1
  <2>2. PICK p : p = Tail(q)
    OBVIOUS
  <2>3. \A i \in DOMAIN p : Behind(s, p[i].wait.stay)'
    BY <1>2, <1>4, <1>9, <2>1, <2>2 DEF Behind
  <2>4. \A i \in DOMAIN p : Entered(s, p[i].wait.stay)'
    BY <1>4, <2>1, <2>2
  <2>5. mService'[s] = p
    BY <1>2, <2>2
  <2>6. \A i, j \in DOMAIN p : j < i => p[j].wait.stay < p[i].wait.stay
    BY <2>1, <2>2
  <2> QED
    BY <2>3, <2>4, <2>5, <2>6 DEF ServiceDue
<1>13. TimerDue(s)'
  <2>1. ASSUME mParkingTimer[s] # NoWait
        PROVE  /\ Behind(s, mParkingTimer[s].stay)'
               /\ \A i \in DOMAIN Tail(q) :
                     Tail(q)[i].wait.stay < mParkingTimer[s].stay
    <3>1. 1 \in DOMAIN q
      BY <1>9
    <3>2. q[1].wait.stay < mParkingTimer[s].stay
      BY <1>7, <2>1, <3>1
    <3>3. Behind(s, mParkingTimer[s].stay)'
      BY <1>1, <1>2, <1>4, <1>7, <1>9, <2>1, <3>2 DEF Behind
    <3> QED
      BY <1>7, <1>10, <2>1, <3>3
  <2> QED
    BY <1>1, <1>2, <1>4, <1>7, <2>1 DEF TimerDue, mainVars
<1>14. ASSUME NEW u \in Spots
       PROVE  /\ Coming(u)' <=> Coming(u)
              /\ Staying(u)' <=> Staying(u)
              /\ AtPush(u)' <=> AtPush(u)
              /\ Gone(u)' <=> Gone(u)
  BY <1>1 DEF Coming, Leaving, Staying, AtPush, Gone, mainVars
<1>15. SpotSound(s)'
  <2>1. Counted(s)' /\ PastOnly(s)'
    BY <1>1, <1>3, <1>14 DEF SpotSound, Counted, PastOnly
  <2>2. OneOpen(s)'
    BY <1>1, <1>3, <1>4, <1>14 DEF SpotSound, OneOpen
  <2>3. Absent(s)'
    BY <1>1, <1>5 DEF Absent
  <2> QED
    BY <1>11, <1>12, <1>13, <2>1, <2>2, <2>3 DEF SpotSound, ThreadSound
<1>16. ASSUME NEW u \in Spots, u # s PROVE SpotSound(u)'
  <2>1. Still(u)
    BY <1>1, <1>2, <1>16 DEF Still
  <2>2. SpotSound(u) /\ (~exists[u] => ~mOccupied'[u])
    BY <1>1 DEF ContractInv, SpotSound, ThreadSound, Absent
  <2> QED
    BY <1>1, <1>2, <1>14, <1>16, <2>1, <2>2, StillKeeps
<1>17. OwnerSound'
  BY <1>1 DEF ContractInv, OwnerSound, Present, mainVars
<1> QED
  BY <1>15, <1>16, <1>17 DEF ContractInv

-----------------------------------------------------------------------------
\* exit() begins: the vehicle is leaving.
LEMMA ExitClearContract ==
    ASSUME TypeOK, ContractInv, NEW s \in Spots, ExitClear(s)
    PROVE  ContractInv'
<1>1. /\ pc = "exit" /\ cur = s /\ pc' = "pushExit" /\ cur' = s
      /\ UNCHANGED <<todo, exists, waitVars, threadVars, pushed, stay,
                     incarnation>>
      /\ \A u \in Spots \ {s} : mOccupied'[u] = mOccupied[u]
  BY DEF ExitClear, TypeOK, attrVars, historyVars
<1>2. ASSUME NEW u \in Spots
      PROVE  ~Coming(u) /\ ~Coming(u)' /\ (Gone(u) <=> Gone(u)') /\ Still(u)
  BY <1>1 DEF Coming, Gone, Still, waitVars, threadVars
<1>3. SpotSound(s) /\ exists[s] /\ ~AtPush(s)
  BY <1>1 DEF ContractInv, OwnerSound, AtPush
<1>4. Leaving(s) /\ Leaving(s)'
  BY <1>1 DEF Leaving
<1>5. SpotSound(s)'
  BY <1>1, <1>2, <1>3, <1>4, StillKeeps DEF Staying, threadVars
<1>6. ASSUME NEW u \in Spots, u # s PROVE SpotSound(u)'
  <2>1. ~Leaving(u) /\ ~Leaving(u)'
    BY <1>1, <1>6 DEF Leaving
  <2> QED
    BY <1>1, <1>2, <1>6, <2>1, OthersKeep DEF threadVars
<1>7. OwnerSound'
  BY <1>1 DEF ContractInv, OwnerSound, Present
<1> QED
  BY <1>5, <1>6, <1>7 DEF ContractInv

\* cancel() and the destructor leave no pending wait.
LEMMA ClearedContract ==
    ASSUME TypeOK, ContractInv, NEW s \in Spots,
           exists[s],
           mService'[s] \in {Cancelled(s), <<>>},
           mParkingTimer'[s] = NoWait,
           \A u \in Spots \ {s} : /\ mService'[u] = mService[u]
                                  /\ mParkingTimer'[u] = mParkingTimer[u],
           \A u \in Spots : /\ ~Coming(u) /\ ~Coming(u)'
                            /\ ~Leaving(u) /\ ~Leaving(u)'
                            /\ Gone(u) => Gone(u)',
           todo' \subseteq todo,
           pc' \in {"spots", "frame", "resetStatus", "join"},
           UNCHANGED <<exists, mOccupied, threadVars, pushed, stay,
                       incarnation>>
    PROVE  ContractInv'
<1>1. SpotSound(s) /\ ~AtPush(s)
  BY DEF ContractInv, AtPush, Coming
<1>2. RunningDue(s)' /\ ServiceDue(s)'
  <2>1. CASE mService'[s] = Cancelled(s)
    BY <1>1, <2>1, CancelDue DEF SpotSound, threadVars
  <2>2. CASE mService'[s] = <<>>
    <3>1. ServiceDue(s)'
      BY <2>2 DEF ServiceDue
    <3>2. RunningDue(s)'
      BY <1>1 DEF SpotSound, ThreadSound, RunningDue, Entered, Said, After,
         About, threadVars
    <3> QED
      BY <3>1, <3>2
  <2> QED
    BY <2>1, <2>2
<1>3. \A k : /\ Entered(s, k)' <=> Entered(s, k)
             /\ Left(s, k)' <=> Left(s, k)
  BY DEF Entered, Left, Said
<1>4. SpotSound(s)'
  <2>1. Counted(s)' /\ PastOnly(s)'
    BY <1>1 DEF SpotSound, Counted, PastOnly
  <2>2. OneOpen(s)'
    BY <1>1, <1>3 DEF SpotSound, OneOpen, Staying
  <2>3. TimerDue(s)' /\ Absent(s)'
    BY DEF TimerDue, Absent
  <2> QED
    BY <1>2, <2>1, <2>2, <2>3 DEF SpotSound, ThreadSound
<1>5. ASSUME NEW u \in Spots, u # s PROVE SpotSound(u)'
  <2>1. Still(u)
    BY <1>5 DEF Still, threadVars
  <2> QED
    BY <2>1, OthersKeep DEF threadVars
<1>6. OwnerSound'
  BY DEF ContractInv, OwnerSound, Present
<1> QED
  BY <1>4, <1>5, <1>6 DEF ContractInv

\* stopTimer in exit() and in reset(), and the service that is stopped.
LEMMA StopContract ==
    ASSUME TypeOK, ContractInv, NEW s \in Spots,
           ExitStopTimer(s) \/ ResetTimer(s) \/ Stop(s)
    PROVE  ContractInv'
<1>1. /\ \/ /\ pc = "stopTimer" /\ cur = s /\ pc' \in {"spots", "frame"}
            /\ todo' \subseteq todo
         \/ pc = "reset" /\ s \in todo /\ pc' = "resetStatus" /\ todo' = todo
         \/ pc = "destroy" /\ s \in todo /\ pc' = "join" /\ todo' = todo
      /\ UNCHANGED <<exists, mOccupied, threadVars, pushed, stay,
                     incarnation>>
  BY DEF ExitStopTimer, ResetTimer, Stop, IsNext, statusVars, attrVars,
     historyVars
<1>2. /\ mService'[s] \in {Cancelled(s), <<>>}
      /\ mParkingTimer'[s] = NoWait
      /\ \A u \in Spots \ {s} : mService'[u] = mService[u]
                                /\ mParkingTimer'[u] = mParkingTimer[u]
  BY DEF ExitStopTimer, ResetTimer, Stop, StopTimer, TypeOK
<1>3. exists[s]
  BY <1>1 DEF ContractInv, OwnerSound, Present
<1>4. ASSUME NEW u \in Spots
      PROVE  /\ ~Coming(u) /\ ~Coming(u)' /\ ~Leaving(u) /\ ~Leaving(u)'
             /\ Gone(u) => Gone(u)'
  BY <1>1 DEF Coming, Leaving, Gone
<1>5. todo' \subseteq todo /\ pc' \in {"spots", "frame", "resetStatus", "join"}
  BY <1>1
<1> QED
  BY <1>1, <1>2, <1>3, <1>4, <1>5, ClearedContract

\* reset() clears the status of a spot that clear() is going to destroy.
LEMMA ResetContract ==
    ASSUME TypeOK, LateInv, ContractInv, NEW s \in Spots, ResetStatus(s)
    PROVE  ContractInv'
<1>1. /\ pc = "resetStatus" /\ cur = s /\ cur' = s
      /\ s \in todo /\ todo \subseteq Present
      /\ \/ todo = {s} /\ todo' = Present /\ pc' = "destroy"
         \/ todo # {s} /\ todo' = todo \ {s} /\ pc' = "reset"
      /\ UNCHANGED <<exists, waitVars, threadVars, pushed, stay, incarnation>>
  BY DEF ResetStatus, LateInv, OwnerLate, attrVars
<1>2. /\ ~mOccupied'[s]
      /\ \A u \in Spots \ {s} : mOccupied'[u] = mOccupied[u]
  BY DEF ResetStatus, ClearStatus, TypeOK
<1>3. ASSUME NEW u \in Spots
      PROVE  /\ ~Coming(u) /\ ~Coming(u)' /\ ~Leaving(u) /\ ~Leaving(u)'
             /\ Still(u) /\ ~AtPush(u)
             /\ Gone(u) => Gone(u)'
  <2>1. Still(u)
    BY <1>1 DEF Still, waitVars, threadVars
  <2>2. Gone(u) => Gone(u)'
    BY <1>1 DEF Gone, Present
  <2> QED
    BY <1>1, <2>1, <2>2 DEF Coming, Leaving, AtPush
<1>4. SpotSound(s)'
  <2>1. Gone(s)'
    BY <1>1 DEF Gone, Present
  <2>2. SpotSound(s)
    BY DEF ContractInv
  <2>3. /\ ~Staying(s)' /\ ~Coming(s)' /\ ~AtPush(s) /\ Still(s)
        /\ exists'[s] = exists[s] /\ mTimerThread'[s] = mTimerThread[s]
    BY <1>1, <1>2, <1>3 DEF Staying, threadVars
  <2> QED
    BY <1>2, <2>1, <2>2, <2>3, StillKeeps
<1>5. ASSUME NEW u \in Spots, u # s PROVE SpotSound(u)'
  <2>1. /\ exists'[u] = exists[u] /\ mTimerThread'[u] = mTimerThread[u]
        /\ mOccupied'[u] = mOccupied[u]
    BY <1>1, <1>2, <1>5 DEF threadVars
  <2>2. /\ ~Coming(u) /\ ~Coming(u)' /\ ~Leaving(u) /\ ~Leaving(u)'
        /\ Still(u)
        /\ Gone(u) => Gone(u)'
    BY <1>3
  <2> QED
    BY <2>1, <2>2, OthersKeep
<1>6. OwnerSound'
  BY <1>1 DEF ContractInv, OwnerSound, Present
<1> QED
  BY <1>4, <1>5, <1>6 DEF ContractInv

\* The destructor has joined the timer thread: the spot takes its open stay
\* with it.
LEMMA JoinContract ==
    ASSUME TypeOK, EntryInv, ContractInv, NEW s \in Spots, Join(s)
    PROVE  ContractInv'
<1>1. /\ pc = "join" /\ cur = s /\ mTimerThread[s] = "run"
      /\ todo' = todo \ {s}
      /\ \/ todo = {s} /\ pc' = "frame"
         \/ todo # {s} /\ pc' = "destroy"
      /\ UNCHANGED <<waitVars, threadVars, pushed, stay, incarnation>>
  BY DEF Join
<1>2. /\ ~exists'[s] /\ ~mOccupied'[s]
      /\ \A u \in Spots \ {s} : /\ exists'[u] = exists[u]
                                /\ mOccupied'[u] = mOccupied[u]
  BY DEF Join, ClearStatus, TypeOK
<1>3. mService[s] = <<>> /\ mParkingTimer[s] = NoWait
  BY <1>1 DEF EntryInv, OwnerTimed
<1>4. todo \subseteq Present /\ SpotSound(s)
  BY DEF ContractInv, OwnerSound
<1>5. ASSUME NEW u \in Spots
      PROVE  ~Coming(u) /\ ~Coming(u)' /\ ~Leaving(u) /\ ~Leaving(u)'
  BY <1>1 DEF Coming, Leaving
<1>6. \A k : /\ Entered(s, k)' <=> Entered(s, k)
             /\ Left(s, k)' <=> Left(s, k)
  BY <1>1 DEF Entered, Left, Said
<1>7. SpotSound(s)'
  <2>1. Counted(s)' /\ PastOnly(s)'
    BY <1>1, <1>4, <1>5 DEF SpotSound, Counted, PastOnly
  <2>2. OneOpen(s)'
    BY <1>1, <1>2, <1>4, <1>6 DEF SpotSound, OneOpen, Gone
  <2>3. ThreadSound(s)'
    BY <1>1, <1>2, <1>3
       DEF ThreadSound, RunningDue, ServiceDue, TimerDue, Absent, waitVars,
           threadVars
  <2> QED
    BY <2>1, <2>2, <2>3 DEF SpotSound
<1>8. ASSUME NEW u \in Spots, u # s PROVE SpotSound(u)'
  <2>1. Still(u)
    BY <1>1 DEF Still, waitVars, threadVars
  <2>2. Gone(u) => Gone(u)'
    BY <1>1, <1>2, <1>8 DEF Gone
  <2> QED
    BY <1>1, <1>2, <1>5, <1>8, <2>1, <2>2, OthersKeep DEF threadVars
<1>9. OwnerSound'
  <2>1. todo' \subseteq Present'
    BY <1>1, <1>2, <1>4 DEF Present
  <2> QED
    BY <1>1, <2>1 DEF OwnerSound
<1> QED
  BY <1>7, <1>8, <1>9 DEF ContractInv

\* A spot is constructed: nothing was said of its new incarnation.
LEMMA AddContract ==
    ASSUME TypeOK, ContractInv, NEW s \in Spots, NEW limit, Add(s, limit)
    PROVE  ContractInv'
<1>1. /\ pc = "frame" /\ ~exists[s] /\ incarnation[s] < MaxIncarnations
      /\ UNCHANGED <<mainVars, mOccupied, waitVars, threadVars, pushed, stay>>
  BY DEF Add, statusVars
<1>2. /\ exists'[s] /\ incarnation'[s] = incarnation[s] + 1
      /\ \A u \in Spots \ {s} : /\ exists'[u] = exists[u]
                                /\ incarnation'[u] = incarnation[u]
  BY DEF Add, TypeOK
<1>3. SpotSound(s)
  BY DEF ContractInv
<1>4. /\ ~mOccupied[s] /\ mTimerThread[s] = "run"
      /\ mService[s] = <<>> /\ mParkingTimer[s] = NoWait
  BY <1>1, <1>3 DEF SpotSound, ThreadSound, Absent
<1>5. ASSUME NEW u \in Spots
      PROVE  ~Coming(u) /\ ~Coming(u)' /\ ~Leaving(u) /\ ~Leaving(u)'
  BY <1>1 DEF Coming, Leaving, mainVars
<1>6. incarnation[s] \in Nat /\ MaxIncarnations \in Nat
  BY SpotTypes, ParkingSpotAssumption
<1>7. SpotSound(s)'
  <2>1. Counted(s)'
    BY <1>1, <1>2, <1>3, <1>6 DEF SpotSound, Counted
  <2>2. PastOnly(s)'
    BY <1>1, <1>2, <1>3, <1>5, <1>6, SpotTypes DEF SpotSound, PastOnly, About
  <2>3. \A k : ~Entered(s, k)'
    <3>1. \A i \in DOMAIN pushed[s] :
             pushed[s][i].incarnation # incarnation[s] + 1
      BY <1>3, <1>6, SpotTypes DEF SpotSound, PastOnly
    <3> QED
      BY <1>1, <1>2, <3>1 DEF Entered, Said
  <2>4. OneOpen(s)'
    BY <1>1, <1>4, <1>5, <2>3 DEF OneOpen, Staying
  <2>5. ThreadSound(s)'
    BY <1>1, <1>2, <1>4
       DEF ThreadSound, RunningDue, ServiceDue, TimerDue, Absent, waitVars,
           threadVars
  <2> QED
    BY <2>1, <2>2, <2>4, <2>5 DEF SpotSound
<1>8. ASSUME NEW u \in Spots, u # s PROVE SpotSound(u)'
  <2>1. Still(u)
    BY <1>1, <1>2, <1>8 DEF Still, waitVars, threadVars
  <2>2. Gone(u) => Gone(u)'
    BY <1>1, <1>2, <1>8 DEF Gone, mainVars
  <2> QED
    BY <1>1, <1>2, <1>5, <1>8, <2>1, <2>2, OthersKeep DEF threadVars
<1>9. OwnerSound'
  <2>1. todo' \subseteq Present'
    BY <1>1, <1>2 DEF ContractInv, OwnerSound, Present, mainVars
  <2> QED
    BY <1>1, <2>1 DEF OwnerSound, mainVars
<1> QED
  BY <1>7, <1>8, <1>9 DEF ContractInv

-----------------------------------------------------------------------------
\* What was said of every stay of a spot, and what its thread is about to
\* say, with the owning thread in the middle of any call.
THEOREM ContractCorrect ==
    ASSUME Positive
    PROVE  Spec => []ContractInv
<1>1. Init => ContractInv
  <2> SUFFICES ASSUME Init PROVE ContractInv
    OBVIOUS
  <2>1. OwnerSound
    BY DEF Init, OwnerSound
  <2>2. ASSUME NEW s \in Spots PROVE SpotSound(s)
    <3>1. Counted(s)
      BY ParkingSpotAssumption DEF Init, Counted
    <3>2. pushed[s] = <<>> /\ mService[s] = <<>>
      BY DEF Init
    <3>3. PastOnly(s)
      BY <3>2 DEF PastOnly
    <3>4. \A k : ~Entered(s, k)
      BY <3>2 DEF Entered, Said
    <3>5. ~Staying(s)
      BY DEF Init, Staying, Leaving
    <3>6. OneOpen(s)
      BY <3>4, <3>5 DEF OneOpen
    <3>7. ThreadSound(s)
      BY <3>2 DEF Init, ThreadSound, RunningDue, ServiceDue, TimerDue, Absent
    <3> QED
      BY <3>1, <3>3, <3>6, <3>7 DEF SpotSound
  <2> QED
    BY <2>1, <2>2 DEF ContractInv
<1>2. TypeOK /\ LateInv /\ EntryInv /\ ContractInv /\ [Next]_vars
        => ContractInv'
  <2> SUFFICES ASSUME TypeOK, LateInv, EntryInv, ContractInv, [Next]_vars
               PROVE  ContractInv'
    OBVIOUS
  <2> DEFINE Quiet ==
        /\ pc \in {"frame", "spots", "keys", "entryTime"}
        /\ pc' \in {"frame", "spots", "keys", "exit", "destroy", "reset"}
        /\ todo' \subseteq Present
        /\ pc' = "exit" => exists[cur'] /\ mOccupied[cur']
        /\ UNCHANGED <<exists, mOccupied, waitVars, mTimerThread, running,
                       pushed, stay, incarnation>>
  <2>1. CASE Quiet
    BY <2>1, QuietContract
  <2>2. todo \subseteq Present
    BY DEF ContractInv, OwnerSound
  <2>3. CASE Frame \/ EndSpots \/ NoKey \/ Clear
    <3>1. Quiet
      BY <2>2, <2>3 DEF Frame, EndSpots, NoKey, Clear, statusVars, attrVars,
         threadVars, historyVars
    <3> QED
      BY <2>1, <3>1
  <2>4. ASSUME NEW s \in Spots, VoteStep(s) PROVE ContractInv'
    BY <2>4, VoteContract DEF VoteStep
  <2>5. ASSUME NEW s \in Spots, EnterSetTime(s) PROVE ContractInv'
    <3>1. Quiet
      BY <2>2, <2>5 DEF EnterSetTime, statusVars, attrVars, threadVars,
         historyVars
    <3> QED
      BY <2>1, <3>1
  <2>6. ASSUME NEW s \in Spots, EnterStep(s) PROVE ContractInv'
    BY <2>5, <2>6, ArmContract, EnterContract DEF EnterStep
  <2>7. ASSUME NEW s \in Spots, ExitStep(s) PROVE ContractInv'
    BY <2>7, ExitClearContract, ExitContract, StopContract DEF ExitStep
  <2>8. ASSUME NEW s \in Spots, EraseStep(s) PROVE ContractInv'
    BY <2>8, StopContract, ResetContract, JoinContract DEF EraseStep
  <2>9. ASSUME NEW s \in Spots, KeyExit(s) \/ Erase(s) PROVE ContractInv'
    <3>1. Quiet
      BY <2>2, <2>9 DEF KeyExit, Erase, Present, statusVars, attrVars,
         threadVars, historyVars
    <3> QED
      BY <2>1, <3>1
  <2>10. ASSUME NEW s \in Spots, NEW limit \in Limits,
                UpdateAttributes(s, limit)
         PROVE  ContractInv'
    <3>1. Quiet
      BY <2>2, <2>10 DEF UpdateAttributes, mainVars, statusVars, threadVars,
         historyVars
    <3> QED
      BY <2>1, <3>1
  <2>11. ASSUME NEW s \in Spots, NEW limit \in Limits, Add(s, limit)
         PROVE  ContractInv'
    BY <2>11, AddContract
  <2>12. CASE \/ \E n \in EnterCounts : SetPositiveThreshold(n)
              \/ \E n \in ExitCounts : SetNegativeThreshold(n)
    <3>1. Quiet
      BY <2>2, <2>12 DEF SetPositiveThreshold, SetNegativeThreshold,
         mainVars, statusVars, attrVars, threadVars, historyVars
    <3> QED
      BY <2>1, <3>1
  <2>13. ASSUME NEW s \in Spots, ComputeTime(s) \/ OverFlag(s)
         PROVE  ContractInv'
    <3>1. UNCHANGED <<mainVars, exists, mOccupied, waitVars, pushed, stay,
                      incarnation, running>>
      BY <2>13 DEF ComputeTime, OverFlag, statusVars, attrVars, historyVars
    <3>2. /\ mTimerThread[s] # "run" /\ mTimerThread'[s] # "run"
          /\ \A u \in Spots \ {s} : mTimerThread'[u] = mTimerThread[u]
      BY <2>13 DEF ComputeTime, OverFlag, TypeOK
    <3> QED
      BY <3>1, <3>2, HandlerContract
  <2>14. ASSUME NEW s \in Spots, Expire(s) \/ TimerStep(s)
         PROVE  ContractInv'
    BY <2>13, <2>14, ExpireContract, NotifyContract, OverContract
       DEF TimerStep
  <2>15. CASE UNCHANGED vars
    BY <2>15, HandlerContract DEF vars, statusVars, attrVars, threadVars,
       historyVars
  <2> QED
    BY <2>3, <2>4, <2>6, <2>7, <2>8, <2>9, <2>10, <2>11, <2>12, <2>14, <2>15
       DEF Next, OwnerStep, Request
<1>3. /\ Spec => []TypeOK
      /\ Spec => []LateInv
      /\ Spec => []EntryInv
  BY TypeCorrect, LateCorrect, EntryCorrect
<1> QED
  BY <1>1, <1>2, <1>3, PTL DEF Spec

-----------------------------------------------------------------------------
\* A message as the server understands it.
Report(m) == [req |-> m.req, stay |-> About(m), incarnation |-> m.incarnation]

LEMMA ReportsMessages ==
    /\ Reports = [s \in Spots |-> [i \in DOMAIN pushed[s] |->
                                      Report(pushed[s][i])]]
    /\ Reports' = [s \in Spots |-> [i \in DOMAIN pushed'[s] |->
                                       Report(pushed'[s][i])]]
BY DEF Reports, Report, About

\* A pushed message is one more report.
LEMMA PushReports ==
    ASSUME TypeOK, NEW s \in Spots, NEW req \in Requests,
           NEW when \in Instants, NEW handler \in Handlers,
           Push(s, req, when, handler)
    PROVE  Contract!Add(s, [req |-> req,
                            stay |-> IF req = "OVER" THEN handler.wait.stay
                                                     ELSE stay[s],
                            incarnation |-> incarnation[s]])
<1> DEFINE m == [req |-> req, stay |-> stay[s],
                 incarnation |-> incarnation[s], time |-> when,
                 handler |-> handler]
           q == pushed[s]
           p == [i \in DOMAIN q |-> Report(q[i])]
           T == {Report(x) : x \in Messages}
<1>1. m \in Messages /\ q \in Seq(Messages)
  BY DEF TypeOK, Messages
<1>2. pushed' = [pushed EXCEPT ![s] = Append(q, m)]
  BY DEF Push
<1>3. Report(m) = [req |-> req,
                   stay |-> IF req = "OVER" THEN handler.wait.stay
                                            ELSE stay[s],
                   incarnation |-> incarnation[s]]
  BY DEF Report, About
<1>4. pushed \in [Spots -> Seq(Messages)]
  BY DEF TypeOK
<1>5. Reports[s] = p
  BY ReportsMessages
<1> HIDE DEF m, q
<1>6. p \in Seq(T) /\ Len(p) = Len(q) /\ DOMAIN p = DOMAIN q
  <2>1. \A i \in 1 .. Len(q) : Report(q[i]) \in T
    BY <1>1
  <2>2. Len(q) \in Nat /\ DOMAIN q = 1 .. Len(q)
    BY <1>1
  <2> QED
    BY <2>1, <2>2
<1>7. Report(m) \in T
  BY <1>1
<1> HIDE DEF p, T
<1>8. Append(p, Report(m)) =
        [i \in DOMAIN Append(q, m) |-> Report(Append(q, m)[i])]
  <2>1. /\ DOMAIN p = 1 .. Len(p) /\ Len(p) \in Nat
        /\ DOMAIN Append(p, Report(m)) = 1 .. Len(p) + 1
        /\ Append(p, Report(m))[Len(p) + 1] = Report(m)
        /\ \A i \in DOMAIN p : Append(p, Report(m))[i] = p[i]
        /\ \A i \in DOMAIN Append(p, Report(m)) :
              i \in DOMAIN p \/ i = Len(p) + 1
        /\ Append(p, Report(m)) \in Seq(T)
    BY <1>6, <1>7, AppendParts, AppendProperties
  <2>2. /\ DOMAIN Append(q, m) = 1 .. Len(q) + 1
        /\ Append(q, m)[Len(q) + 1] = m
        /\ \A i \in DOMAIN q : Append(q, m)[i] = q[i]
    BY <1>1, AppendParts
  <2>3. \A i \in DOMAIN q : p[i] = Report(q[i])
    BY DEF p
  <2>4. ASSUME NEW i \in DOMAIN Append(q, m)
        PROVE  Append(p, Report(m))[i] = Report(Append(q, m)[i])
    BY <1>6, <2>1, <2>2, <2>3
  <2>5. \A e \in Seq(T) : e = [i \in DOMAIN e |-> e[i]]
    OBVIOUS
  <2> QED
    BY <1>6, <2>1, <2>2, <2>4, <2>5
<1>9. /\ pushed'[s] = Append(q, m)
      /\ \A u \in Spots \ {s} : pushed'[u] = pushed[u]
  BY <1>2, <1>4
<1>10. Reports' = [Reports EXCEPT ![s] = Append(p, Report(m))]
  BY <1>8, <1>9, ReportsMessages
<1> QED
  BY <1>3, <1>5, <1>10 DEF Contract!Add

\* What the server was told is what was said.
LEMMA ReportedSaid ==
    ASSUME NEW s \in Spots
    PROVE  /\ \A r, k, n :
                 Contract!Reported(s, [req |-> r, stay |-> k,
                                       incarnation |-> n])
                   <=> Said(s, r, k, n)
           /\ DOMAIN Reports[s] = DOMAIN pushed[s]
           /\ \A i \in DOMAIN pushed[s] :
                 /\ Reports[s][i].stay = About(pushed[s][i])
                 /\ Reports[s][i].incarnation = pushed[s][i].incarnation
<1>1. /\ DOMAIN Reports[s] = DOMAIN pushed[s]
      /\ \A i \in DOMAIN pushed[s] : Reports[s][i] = Report(pushed[s][i])
  BY ReportsMessages
<1>2. ASSUME NEW r, NEW k, NEW n, NEW i \in DOMAIN pushed[s]
      PROVE  Reports[s][i] = [req |-> r, stay |-> k, incarnation |-> n] <=>
                /\ pushed[s][i].req = r
                /\ About(pushed[s][i]) = k
                /\ pushed[s][i].incarnation = n
  <2>1. \A a, b, c : [req |-> a, stay |-> b, incarnation |-> c] =
                     [req |-> r, stay |-> k, incarnation |-> n] <=>
                        a = r /\ b = k /\ c = n
    OBVIOUS
  <2> DEFINE a == pushed[s][i].req
             b == About(pushed[s][i])
             c == pushed[s][i].incarnation
  <2>2. Reports[s][i] = [req |-> a, stay |-> b, incarnation |-> c]
    BY <1>1 DEF Report
  <2>3. Reports[s][i] = [req |-> r, stay |-> k, incarnation |-> n] <=>
           a = r /\ b = k /\ c = n
    <3> HIDE DEF a, b, c
    <3> QED
      BY <2>1, <2>2
  <2> QED
    BY <2>3
<1>3. ASSUME NEW r, NEW k, NEW n
      PROVE  Contract!Reported(s, [req |-> r, stay |-> k,
                                   incarnation |-> n])
               <=> Said(s, r, k, n)
  <2> DEFINE e == [req |-> r, stay |-> k, incarnation |-> n]
  <2>1. Contract!Reported(s, e) <=> \E i \in DOMAIN Reports[s] :
                                       Reports[s][i] = e
    BY DEF Contract!Reported
  <2>2. \A i \in DOMAIN pushed[s] : Reports[s][i] = e <=>
                /\ pushed[s][i].req = r
                /\ About(pushed[s][i]) = k
                /\ pushed[s][i].incarnation = n
    BY <1>2
  <2> HIDE DEF e
  <2>3. Contract!Reported(s, e) <=> Said(s, r, k, n)
    BY <1>1, <2>1, <2>2 DEF Said
  <2> QED
    BY <2>3 DEF e
<1>4. \A m : Report(m).stay = About(m) /\ Report(m).incarnation = m.incarnation
  BY DEF Report
<1> QED
  BY <1>1, <1>3, <1>4

\* enter() reports a new stay, while none is open.
LEMMA EnterReports ==
    ASSUME TypeOK, ContractInv, NEW s \in Spots, EnterPush(s)
    PROVE  Contract!Next
<1> DEFINE k == stay[s]
           n == incarnation[s]
<1>1. /\ pc = "pushEnter" /\ cur = s
      /\ Push(s, "ENTER", [entry |-> stay[s], seconds |-> 0], NoHandler)
  BY DEF EnterPush
<1>2. Contract!Add(s, [req |-> "ENTER", stay |-> k, incarnation |-> n])
  <2>1. [entry |-> stay[s], seconds |-> 0] \in Instants
    BY SpotTypes DEF Instants
  <2>2. "ENTER" \in Requests
    BY DEF Requests
  <2> QED
    BY <1>1, <2>1, <2>2, NoneTypes, PushReports
<1>3. /\ SpotSound(s) /\ Coming(s) /\ exists[s] /\ stay[s] > 0
      /\ ~Staying(s) /\ ~Gone(s)
  BY <1>1 DEF ContractInv, OwnerSound, Coming, Leaving, Staying, Gone
<1>4. k \in 1 .. MaxStays /\ n \in 1 .. MaxIncarnations
  BY <1>3, SpotTypes DEF SpotSound, Counted
<1>5. ASSUME NEW i \in DOMAIN Reports[s]
      PROVE  /\ Reports[s][i].stay < k
             /\ Reports[s][i].incarnation <= n
             /\ ~Contract!Parked(s, Reports[s][i].stay, n)
  <2> DEFINE j == About(pushed[s][i])
  <2>1. /\ i \in DOMAIN pushed[s]
        /\ Reports[s][i].stay = j
        /\ Reports[s][i].incarnation = pushed[s][i].incarnation
    BY ReportedSaid
  <2>2. j < k /\ pushed[s][i].incarnation <= n /\ j \in Nat
    BY <1>3, <2>1, SpotTypes DEF SpotSound, PastOnly
  <2>3. j \in 0 .. MaxStays
    BY <1>4, <2>2, ParkingSpotAssumption
  <2> HIDE DEF j
  <2>4. ~(Entered(s, j) /\ ~Left(s, j))
    BY <1>3, <2>3 DEF SpotSound, OneOpen
  <2>5. ~Contract!Parked(s, j, n)
    BY <2>4, ReportedSaid DEF Contract!Parked, Entered, Left
  <2> QED
    BY <2>1, <2>2, <2>5
<1>6. Contract!Enter(s, k, n)
  BY <1>2, <1>5 DEF Contract!Enter
<1> QED
  BY <1>4, <1>6 DEF Contract!Next

\* exit() reports that the vehicle left which is parked.
LEMMA ExitReports ==
    ASSUME TypeOK, ContractInv, NEW s \in Spots, ExitPush(s)
    PROVE  Contract!Next
<1> DEFINE k == stay[s]
           n == incarnation[s]
<1>1. pc = "pushExit" /\ cur = s /\ Push(s, "EXIT", NoTime, NoHandler)
  BY DEF ExitPush
<1>2. Contract!Add(s, [req |-> "EXIT", stay |-> k, incarnation |-> n])
  <2>1. "EXIT" \in Requests
    BY DEF Requests
  <2> QED
    BY <1>1, <2>1, NoneTypes, PushReports
<1>3. SpotSound(s) /\ exists[s] /\ Staying(s)
  BY <1>1 DEF ContractInv, OwnerSound, Leaving, Staying
<1>4. Entered(s, k) /\ ~Left(s, k)
  BY <1>3 DEF SpotSound, OneOpen
<1>5. k \in 1 .. MaxStays /\ n \in 1 .. MaxIncarnations
  BY <1>3, <1>4, SpotTypes, EnteredPast DEF SpotSound, Counted
<1>6. Contract!Exit(s, k, n)
  BY <1>2, <1>4, ReportedSaid
     DEF Contract!Exit, Contract!Parked, Entered, Left
<1> QED
  BY <1>5, <1>6 DEF Contract!Next

\* overstayed() reports a stay that was entered, for the first time.
LEMMA OverReports ==
    ASSUME TypeOK, ContractInv, NEW s \in Spots, OverPush(s)
    PROVE  Contract!Next
<1> DEFINE k == running[s].wait.stay
           n == incarnation[s]
<1>1. mTimerThread[s] = "push" /\ Push(s, "OVER", time[s], running[s])
  BY DEF OverPush
<1>2. Contract!Add(s, [req |-> "OVER", stay |-> k, incarnation |-> n])
  <2>1. "OVER" \in Requests /\ time[s] \in Instants /\ running[s] \in Handlers
    BY DEF Requests, TypeOK
  <2> QED
    BY <1>1, <2>1, PushReports
<1>3. SpotSound(s) /\ Entered(s, k) /\ After(s, k)
  BY <1>1 DEF ContractInv, SpotSound, ThreadSound, RunningDue
<1>4. k \in 1 .. MaxStays /\ n \in 1 .. MaxIncarnations
  <2>1. k \in Nat /\ k <= stay[s] /\ k > 0
    BY <1>3, EnteredPast DEF SpotSound
  <2> QED
    BY <1>3, <2>1, SpotTypes, ParkingSpotAssumption DEF SpotSound, Counted
<1>5. ~Said(s, "OVER", k, n)
  BY <1>3, <1>4 DEF After, Said
<1>6. \A i \in DOMAIN Reports[s] : Reports[s][i].incarnation <= n
  BY <1>3, ReportedSaid DEF SpotSound, PastOnly
<1>7. Contract!Over(s, k, n)
  BY <1>2, <1>3, <1>5, <1>6, ReportedSaid DEF Contract!Over, Entered
<1> QED
  BY <1>4, <1>7 DEF Contract!Next

\* The other steps report nothing.
LEMMA SilentSteps ==
    ASSUME [Next]_vars
    PROVE  \/ pushed' = pushed
           \/ \E s \in Spots : EnterPush(s) \/ ExitPush(s) \/ OverPush(s)
<1>1. CASE Frame \/ EndSpots \/ NoKey \/ Clear
  BY <1>1 DEF Frame, EndSpots, NoKey, Clear, historyVars
<1>2. ASSUME NEW s \in Spots, VoteStep(s) PROVE pushed' = pushed
  BY <1>2 DEF VoteStep, Vote
<1>3. ASSUME NEW s \in Spots, EnterStartTimer(s) \/ EnterSetTime(s)
      PROVE  pushed' = pushed
  BY <1>3 DEF EnterStartTimer, EnterSetTime, historyVars
<1>4. ASSUME NEW s \in Spots, ExitClear(s) \/ ExitStopTimer(s)
      PROVE  pushed' = pushed
  BY <1>4 DEF ExitClear, ExitStopTimer, historyVars
<1>5. ASSUME NEW s \in Spots, EraseStep(s) PROVE pushed' = pushed
  BY <1>5 DEF EraseStep, ResetTimer, ResetStatus, Stop, Join, historyVars
<1>6. ASSUME NEW s \in Spots, KeyExit(s) \/ Erase(s) PROVE pushed' = pushed
  BY <1>6 DEF KeyExit, Erase, historyVars
<1>7. ASSUME NEW s \in Spots, NEW limit \in Limits,
             UpdateAttributes(s, limit) \/ Add(s, limit)
      PROVE  pushed' = pushed
  BY <1>7 DEF UpdateAttributes, Add, historyVars
<1>8. CASE \/ \E n \in EnterCounts : SetPositiveThreshold(n)
           \/ \E n \in ExitCounts : SetNegativeThreshold(n)
  BY <1>8 DEF SetPositiveThreshold, SetNegativeThreshold, historyVars
<1>9. ASSUME NEW s \in Spots,
             \/ Expire(s) \/ NotifyExpiration(s)
             \/ ComputeTime(s) \/ OverFlag(s)
      PROVE  pushed' = pushed
  BY <1>9 DEF Expire, NotifyExpiration, ComputeTime, OverFlag, historyVars
<1>10. CASE UNCHANGED vars
  BY <1>10 DEF vars, historyVars
<1> QED
  BY <1>1, <1>2, <1>3, <1>4, <1>5, <1>6, <1>7, <1>8, <1>9, <1>10
     DEF Next, OwnerStep, Request, EnterStep, ExitStep, TimerStep

\* The messages pushed by enter, exit and overstayed, on two threads, are
\* those of a spot where vehicles enter and leave in turn and every overstay
\* is reported once, after the entry and before the spot is removed, for
\* positive time limits.
THEOREM ContractKept ==
    ASSUME Positive
    PROVE  Spec => KeepsContract
<1>1. Init => Contract!Init
  <2> SUFFICES ASSUME Init PROVE Contract!Init
    OBVIOUS
  <2>1. \A s \in Spots : pushed[s] = <<>>
    BY DEF Init
  <2>2. \A s \in Spots : [i \in DOMAIN pushed[s] |-> Report(pushed[s][i])]
                            = <<>>
    BY <2>1
  <2> QED
    BY <2>2, ReportsMessages DEF Contract!Init
<1>2. TypeOK /\ ContractInv /\ [Next]_vars => [Contract!Next]_Reports
  <2> SUFFICES ASSUME TypeOK, ContractInv, [Next]_vars
               PROVE  [Contract!Next]_Reports
    OBVIOUS
  <2>1. CASE pushed' = pushed
    BY <2>1, ReportsMessages
  <2>2. ASSUME NEW s \in Spots, EnterPush(s) \/ ExitPush(s) \/ OverPush(s)
        PROVE  Contract!Next
    BY <2>2, EnterReports, ExitReports, OverReports
  <2> QED
    BY <2>1, <2>2, SilentSteps
<1>3. Spec => []TypeOK /\ []ContractInv
  BY TypeCorrect, ContractCorrect
<1> QED
  BY <1>1, <1>2, <1>3, PTL DEF Spec, KeepsContract, Contract!Spec
=============================================================================
