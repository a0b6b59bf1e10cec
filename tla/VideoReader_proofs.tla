------------------------- MODULE VideoReader_proofs -------------------------
(***************************************************************************)
(* Proofs about the index of frames, for an index of any size, any time    *)
(* and any faults: it is bounded, whatever the clock does, and the search  *)
(* for its oldest entry ends as long as the clock has not gone back.       *)
(***************************************************************************)
EXTENDS VideoReader, FiniteSetTheorems, WellFoundedInduction, TLAPS

\* What the reader's thread writes while it is at a frame: seconds.
TimeInv ==
    /\ clock \in Nat
    /\ prev \in Nat
    /\ latest \in Nat \cup {None}
    /\ reader = "index" => latest \in Nat
    /\ frontOfIndexerTime \in Nat
    /\ mFrameIndexer \subseteq Nat
    /\ IsFiniteSet(mFrameIndexer)
    /\ Cardinality(mFrameIndexer) <= Holding

\* While the clock has not gone back, the entries lie between the front and
\* the time stamp before, and the new time stamp is not before that.
OrderInv ==
    steady => /\ reader # "search"
              /\ prev <= clock
              /\ reader = "index" => prev <= latest /\ latest <= clock
              /\ frontOfIndexerTime <= prev
              /\ \A s \in mFrameIndexer : frontOfIndexerTime <= s /\ s <= prev

\* Whatever leaves the index alone and the thread out of a frame.
Quiet ==
    /\ UNCHANGED indexVars
    /\ clock' = clock
    /\ steady' = steady
    /\ \/ reader' = reader /\ latest' = latest
       \/ reader' \in {"poll", "test", "ended", "hung"} /\ latest' = latest

\* The steps that touch the index, the newest frame or the clock.
Timed ==
    \/ Tick
    \/ ClockGoesBack
    \/ TakeFrame
    \/ IndexFirst
    \/ IndexFrame
    \/ IndexFull
    \/ IndexSearches

-----------------------------------------------------------------------------
\* Every other step is quiet.
LEMMA QuietSteps == ASSUME [Next]_vars PROVE Timed \/ Quiet
<1> USE DEF Quiet, readVars, indexVars
<1>1. CASE VideoEnds \/ VideoReturns \/ ReaderHangs \/ WaitKey \/ Poll
           \/ Leave
  BY <1>1 DEF VideoEnds, VideoReturns, ReaderHangs, WaitKey, Poll, Leave
<1>2. CASE MainStep
  BY <1>2 DEF MainStep, Open, SetOperation, WaitReady, Read, DestroyServer,
              CloseVideo, ReleaseCamera, JoinTimer
<1>3. CASE Escape \/ HelperStep
  BY <1>3 DEF Escape, HelperStep
<1>4. CASE TimerStep
  BY <1>4 DEF TimerStep, Expire, ReadOverstay
<1>5. CASE Done \/ UNCHANGED vars
  BY <1>5 DEF Done, vars
<1> QED
  BY <1>1, <1>2, <1>3, <1>4, <1>5 DEF Next, ReaderStep, Timed

\* A set of natural numbers that has an element has a least one, which is
\* what the thread's search from the front finds.
LEMMA LeastIsFound ==
    ASSUME NEW S \in SUBSET Nat, S # {}
    PROVE  Min(S) \in S /\ \A s \in S : Min(S) <= s
<1> DEFINE R == {ss \in Nat \X Nat : ss[1] < ss[2]}
<1>1. IsWellFoundedOn(R, Nat)
  BY NatLessThanWellFounded DEF OpToRel
<1> HIDE DEF R
<1>2. PICK m \in S : \A s \in S : ~(<<s, m>> \in R)
  BY <1>1, WFMin
<1>3. ASSUME NEW s \in S PROVE m <= s
  <2>1. s < m => <<s, m>> \in R
    BY DEF R
  <2>2. ~(<<s, m>> \in R)
    BY <1>2
  <2>3. s \in Nat /\ m \in Nat
    OBVIOUS
  <2> QED
    BY <2>1, <2>2, <2>3
<1>4. \E x \in S : \A y \in S : x =< y
  BY <1>3
<1> QED
  BY <1>4 DEF Min

\* Adding a second, if there is one to add.
LEMMA AddSecond ==
    ASSUME NEW S, IsFiniteSet(S)
    PROVE  /\ IsFiniteSet(S \cup NewSecond)
           /\ Cardinality(S \cup NewSecond) <= Cardinality(S) + 1
<1>1. Cardinality(S) \in Nat
  BY FS_CardinalityType
<1>2. CASE NewSecond = {latest}
  <2>1. /\ IsFiniteSet(S \cup {latest})
        /\ Cardinality(S \cup {latest})
             = IF latest \in S THEN Cardinality(S) ELSE Cardinality(S) + 1
    BY FS_AddElement
  <2> QED
    BY <1>1, <1>2, <2>1
<1>3. CASE NewSecond = {}
  <2>1. S \cup NewSecond = S
    BY <1>3
  <2> QED
    BY <1>1, <2>1
<1> QED
  BY <1>2, <1>3 DEF NewSecond

\* Removing the oldest one.
LEMMA RemoveLeast ==
    ASSUME NEW S \in SUBSET Nat, IsFiniteSet(S), NEW x \in S
    PROVE  /\ IsFiniteSet(S \ {x})
           /\ Cardinality(S \ {x}) + 1 = Cardinality(S)
<1>1. Cardinality(S) \in Nat
  BY FS_CardinalityType
<1>2. Cardinality(S \ {x}) = Cardinality(S) - 1 /\ IsFiniteSet(S \ {x})
  BY FS_RemoveElement
<1> QED
  BY <1>1, <1>2

-----------------------------------------------------------------------------
\* Types of the times, and the size of the index: run() removes an entry
\* before it adds one to an index that is full.
THEOREM TimeCorrect == Spec => []TimeInv
<1> USE VideoReaderAssumption DEF TimeInv
<1>1. Init => TimeInv
  BY FS_EmptySet DEF Init
<1>2. TimeInv /\ [Next]_vars => TimeInv'
  <2> SUFFICES ASSUME TimeInv, [Next]_vars PROVE TimeInv'
    OBVIOUS
  <2>0. Cardinality(mFrameIndexer) \in Nat
    BY FS_CardinalityType
  <2>1. CASE Quiet
    BY <2>1 DEF Quiet, indexVars
  <2>2. CASE Tick \/ ClockGoesBack
    <3>1. clock' \in Nat
      BY <2>2 DEF Tick, ClockGoesBack
    <3> QED
      BY <2>2, <3>1 DEF Tick, ClockGoesBack, readVars, indexVars
  <2>3. CASE TakeFrame
    BY <2>3 DEF TakeFrame, indexVars
  <2>4. CASE IndexFirst
    <3>1. IsFiniteSet({latest}) /\ Cardinality({latest}) = 1
      BY FS_Singleton
    <3> QED
      BY <2>4, <3>1 DEF IndexFirst, Stamped
  <2>5. CASE IndexFrame
    <3>1. IsFiniteSet(mFrameIndexer')
          /\ Cardinality(mFrameIndexer') <= Cardinality(mFrameIndexer) + 1
      BY <2>5, AddSecond DEF IndexFrame, Index
    <3>2. Cardinality(mFrameIndexer') \in Nat
      BY <3>1, FS_CardinalityType
    <3>3. mFrameIndexer' \subseteq Nat
      BY <2>5 DEF IndexFrame, Index, NewSecond
    <3> QED
      BY <2>0, <2>5, <3>1, <3>2, <3>3 DEF IndexFrame, Stamped
  <2>6. CASE IndexFull
    <3>1. Ahead \in SUBSET Nat /\ Ahead # {} /\ Ahead \subseteq mFrameIndexer
      BY <2>6 DEF IndexFull, Ahead
    <3>2. Min(Ahead) \in mFrameIndexer /\ Min(Ahead) \in Nat
      BY <3>1, LeastIsFound
    <3> DEFINE rest == mFrameIndexer \ {Min(Ahead)}
    <3>3. IsFiniteSet(rest)
          /\ Cardinality(rest) + 1 = Cardinality(mFrameIndexer)
      BY <3>2, RemoveLeast
    <3> HIDE DEF rest
    <3>4. mFrameIndexer' = rest \cup NewSecond
      BY <2>6 DEF IndexFull, Index, rest
    <3>5. IsFiniteSet(mFrameIndexer')
          /\ Cardinality(mFrameIndexer') <= Cardinality(rest) + 1
      BY <3>3, <3>4, AddSecond
    <3>6. Cardinality(mFrameIndexer') <= Holding
      BY <2>0, <3>3, <3>5, FS_CardinalityType
    <3>7. mFrameIndexer' \subseteq Nat
      BY <2>6, <3>4 DEF IndexFull, NewSecond, rest
    <3> QED
      BY <2>6, <3>2, <3>5, <3>6, <3>7 DEF IndexFull, Stamped
  <2>7. CASE IndexSearches
    BY <2>7 DEF IndexSearches, indexVars
  <2> QED
    BY <2>1, <2>2, <2>3, <2>4, <2>5, <2>6, <2>7, QuietSteps DEF Timed
<1> QED
  BY <1>1, <1>2, PTL DEF Spec

\* The index never grows past its size (SerialVideoReader::run), however the
\* clock is set.
THEOREM IndexIsBoundedCorrect == Spec => []IndexIsBounded
<1>1. TimeInv => IndexIsBounded
  BY DEF TimeInv, IndexIsBounded
<1> QED
  BY <1>1, TimeCorrect, PTL

-----------------------------------------------------------------------------
\* The entries stay at or behind the front while the clock goes forward.
THEOREM OrderCorrect == Spec => []OrderInv
<1> USE DEF OrderInv
<1>1. Init => OrderInv
  BY DEF Init
<1>2. TimeInv /\ OrderInv /\ [Next]_vars => OrderInv'
  <2> SUFFICES ASSUME TimeInv, OrderInv, [Next]_vars PROVE OrderInv'
    OBVIOUS
  <2> USE VideoReaderAssumption DEF TimeInv
  <2>1. CASE Quiet
    BY <2>1 DEF Quiet, indexVars
  <2>2. CASE Tick
    BY <2>2 DEF Tick, readVars, indexVars
  <2>3. CASE ClockGoesBack
    BY <2>3 DEF ClockGoesBack
  <2>4. CASE TakeFrame
    BY <2>4 DEF TakeFrame, indexVars
  <2>5. CASE IndexFirst
    BY <2>5 DEF IndexFirst, Stamped
  <2>6. CASE IndexFrame
    BY <2>6 DEF IndexFrame, Index, Stamped, NewSecond
  <2>7. CASE IndexFull
    <3>1. Ahead \in SUBSET Nat /\ Ahead # {}
      BY <2>7 DEF IndexFull, Ahead
    <3>2. Min(Ahead) \in Ahead /\ \A s \in Ahead : Min(Ahead) <= s
      BY <3>1, LeastIsFound
    <3>3. steady => Ahead = mFrameIndexer
      BY DEF Ahead
    <3>4. /\ frontOfIndexerTime' = Min(Ahead) /\ prev' = latest
          /\ clock' = clock /\ steady' = steady /\ reader' = "test"
      BY <2>7 DEF IndexFull, Stamped
    <3>5. \A s \in mFrameIndexer' : s \in mFrameIndexer \/ s = latest
      BY <2>7 DEF IndexFull, Index, NewSecond
    <3>6. reader = "index" /\ latest \in Nat
      BY <2>7 DEF IndexFull
    <3>7. steady => Min(Ahead) \in Nat /\ Min(Ahead) <= prev
      BY <3>2, <3>3
    <3>8. steady => \A s \in mFrameIndexer' : Min(Ahead) <= s /\ s <= latest
      <4> SUFFICES ASSUME steady, NEW s \in mFrameIndexer'
                   PROVE  Min(Ahead) <= s /\ s <= latest
        OBVIOUS
      <4>1. CASE s \in mFrameIndexer
        BY <3>2, <3>3, <3>6, <4>1
      <4>2. CASE s = latest
        BY <3>6, <3>7, <4>2
      <4> QED
        BY <3>5, <4>1, <4>2
    <3> QED
      BY <3>4, <3>6, <3>7, <3>8
  <2>8. CASE IndexSearches
    <3>1. ~steady
      <4> SUFFICES ASSUME steady PROVE FALSE
        OBVIOUS
      <4>1. Ahead = mFrameIndexer
        BY DEF Ahead
      <4>2. Cardinality(mFrameIndexer) = 0
        BY <2>8, <4>1, FS_EmptySet DEF IndexSearches
      <4> QED
        BY <2>8, <4>2 DEF IndexSearches
    <3> QED
      BY <2>8, <3>1 DEF IndexSearches
  <2> QED
    BY <2>1, <2>2, <2>3, <2>4, <2>5, <2>6, <2>7, <2>8, QuietSteps DEF Timed
<1> QED
  BY <1>1, <1>2, TimeCorrect, PTL DEF Spec

\* While the clock has not gone back, the search for the oldest entry ends:
\* the thread does not keep the mutex that everybody else needs.
THEOREM SearchEndsCorrect == Spec => []SearchEnds
<1>1. OrderInv => SearchEnds
  BY DEF OrderInv, SearchEnds
<1> QED
  BY <1>1, OrderCorrect, PTL

-----------------------------------------------------------------------------
\* Labels, flags and times of the reader, the main thread and the timer keep
\* their types (SerialVideoReader, MainInterface's end, notifyExpiration).
THEOREM TypeCorrect == Spec => []TypeOK
<1> USE DEF TypeOK, ReaderLabels, MainLabels
<1>0. 0 \in Times /\ Times \subseteq Nat /\ None \notin Nat
  BY VideoReaderAssumption DEF Times, None
<1>1. Init => TypeOK
  BY <1>0 DEF Init
<1>2. TypeOK /\ TimeInv /\ [Next]_vars => TypeOK'
  <2> SUFFICES ASSUME TypeOK, TimeInv, [Next]_vars PROVE TypeOK'
    OBVIOUS
  <2> USE DEF readVars, indexVars, spotVars
  <2>1. CASE Tick
    <3>1. clock' \in Times
      BY <2>1, VideoReaderAssumption DEF Tick, Times
    <3> QED
      BY <2>1, <3>1 DEF Tick
  <2>2. CASE ClockGoesBack
    <3>1. clock' \in Times
      BY <2>2, VideoReaderAssumption DEF ClockGoesBack, Times
    <3>2. /\ steady' \in BOOLEAN /\ seen' \subseteq Times
          /\ dark' \subseteq Times
          /\ UNCHANGED <<camera, Operation, reader, latest, newest,
                         mFrameIndexer, blank, frontOfIndexerTime, prev, mReady, main,
                         deadline, timer, helper>>
      BY <2>2 DEF ClockGoesBack
    <3> QED
      BY <3>1, <3>2
  <2>3. CASE VideoEnds \/ VideoReturns \/ ReaderHangs \/ WaitKey \/ Poll
             \/ Leave
    BY <2>3 DEF VideoEnds, VideoReturns, ReaderHangs, WaitKey, Poll, Leave
  <2>4. CASE TakeFrame
    BY <2>4 DEF TakeFrame
  <2>5. CASE IndexFirst \/ IndexFrame \/ IndexFull
    <3>1. latest \in Times
      BY <1>0, <2>5 DEF IndexFirst, IndexFrame, IndexFull, TimeInv
    <3>2. frontOfIndexerTime' \in Nat
      <4>1. CASE IndexFirst
        BY <1>0, <3>1, <4>1 DEF IndexFirst
      <4>2. CASE IndexFrame
        BY <4>2 DEF IndexFrame
      <4>3. CASE IndexFull
        <5>1. Ahead \in SUBSET Nat /\ Ahead # {}
          BY <4>3 DEF IndexFull, Ahead, TimeInv
        <5>2. Min(Ahead) \in Nat
          BY <5>1, LeastIsFound
        <5> QED
          BY <4>3, <5>2 DEF IndexFull
      <4> QED
        BY <2>5, <4>1, <4>2, <4>3
    <3>3. mFrameIndexer' \subseteq Times /\ blank' \subseteq mFrameIndexer'
      BY <2>5, <3>1
         DEF IndexFirst, IndexFrame, IndexFull, Index, Empty, NewSecond
    <3>4. Stamped
      BY <2>5 DEF IndexFirst, IndexFrame, IndexFull
    <3>5. seen' \subseteq Times /\ dark' \subseteq Times
      BY <3>1, <3>4 DEF Stamped, Empty
    <3> QED
      BY <3>1, <3>2, <3>3, <3>4, <3>5 DEF Stamped
  <2>6. CASE IndexSearches
    BY <2>6 DEF IndexSearches
  <2>7. CASE Read
    <3>1. latest = None \/ latest \in Times
      OBVIOUS
    <3>2. deadline' \in 0..(MaxTime + Limit) \cup {None}
      BY <2>7, VideoReaderAssumption DEF Read, Times, None
    <3> QED
      BY <2>7, <3>2 DEF Read
  <2>8. CASE Open \/ SetOperation \/ WaitReady \/ DestroyServer \/ CloseVideo
             \/ ReleaseCamera \/ JoinTimer
    BY <2>8 DEF Open, SetOperation, WaitReady, DestroyServer, CloseVideo,
                ReleaseCamera, JoinTimer
  <2>9. CASE Escape \/ HelperStep \/ TimerStep
    BY <2>9 DEF Escape, HelperStep, TimerStep, Expire, ReadOverstay
  <2>10. CASE Done \/ UNCHANGED vars
    BY <2>10 DEF Done, vars
  <2> QED
    BY <2>1, <2>2, <2>3, <2>4, <2>5, <2>6, <2>7, <2>8, <2>9, <2>10
       DEF Next, ReaderStep, MainStep
<1> QED
  BY <1>1, <1>2, TimeCorrect, PTL DEF Spec

-----------------------------------------------------------------------------
\* While the clock has not gone back, a second that follows one with a frame,
\* or is the first of all, is in the index as long as it is young enough.
SeenInv ==
    steady => /\ seen \subseteq Nat
              /\ \A s \in seen : s <= prev
              /\ seen # {} => prev \in seen
              /\ mFrameIndexer \subseteq seen
              /\ \A s \in seen :
                    /\ s = 0 \/ s - 1 \in seen
                    /\ s > prev - (Holding - 1)
                    => s \in mFrameIndexer

\* The oldest of Holding entries is as many seconds behind the last frame.
LEMMA OldestIsOld ==
    ASSUME TimeInv, OrderInv, steady, Cardinality(mFrameIndexer) >= Holding,
           NEW x \in mFrameIndexer, \A s \in mFrameIndexer : x <= s
    PROVE  x <= prev - (Holding - 1)
<1>1. x \in Nat /\ prev \in Nat /\ x <= prev /\ Holding \in Nat
  BY VideoReaderAssumption DEF TimeInv, OrderInv
<1>2. mFrameIndexer \in SUBSET (x..prev)
  BY <1>1 DEF TimeInv, OrderInv
<1>3. IsFiniteSet(x..prev) /\ Cardinality(x..prev) = prev - x + 1
  BY <1>1, FS_Interval
<1>4. Cardinality(mFrameIndexer) <= prev - x + 1
  BY <1>2, <1>3, FS_Subset
<1>5. Cardinality(mFrameIndexer) \in Nat
  BY FS_CardinalityType DEF TimeInv
<1> QED
  BY <1>1, <1>4, <1>5

\* A frame whose second is new, and follows the one before or is the first,
\* comes while the index is empty or right after the second before.
LEMMA FrameIsIndexed ==
    ASSUME TimeInv, OrderInv, SeenInv, steady, reader = "index",
           mFrameIndexer # {}, latest \notin seen,
           latest = 0 \/ latest - 1 \in seen
    PROVE  NewSecond = {latest}
<1>1. latest \in Nat /\ prev \in Nat /\ prev <= latest /\ prev \in seen
  BY DEF TimeInv, OrderInv, SeenInv
<1>2. prev # latest
  BY <1>1
<1>3. latest - 1 <= prev
  BY <1>1, <1>2 DEF SeenInv
<1>4. latest - prev = 1
  BY <1>1, <1>2, <1>3
<1> QED
  BY <1>4 DEF NewSecond

\* A frame is stamped: its second is in the index when it should be, and what
\* left the index is too old.
LEMMA SeenGrows ==
    ASSUME TimeInv, OrderInv, SeenInv, steady, reader = "index", Stamped,
           mFrameIndexer' \subseteq mFrameIndexer \cup {latest},
           mFrameIndexer = {} \/ NewSecond = {latest}
               => latest \in mFrameIndexer',
           \A s \in mFrameIndexer \ mFrameIndexer' :
               s <= prev - (Holding - 1)
    PROVE  SeenInv'
<1> USE VideoReaderAssumption
<1>1. /\ latest \in Nat /\ prev \in Nat /\ prev <= latest
      /\ prev' = latest /\ steady' = steady /\ seen' = seen \cup {latest}
  BY DEF TimeInv, OrderInv, Stamped
<1>2. /\ seen \subseteq Nat /\ mFrameIndexer \subseteq seen
      /\ \A s \in seen : s <= prev
      /\ \A s \in seen : (s = 0 \/ s - 1 \in seen)
                         /\ s > prev - (Holding - 1) => s \in mFrameIndexer
  BY DEF SeenInv
<1>3. \A s \in seen' : s \in Nat /\ s <= latest
  BY <1>1, <1>2
<1>4. prev' \in seen' /\ mFrameIndexer' \subseteq seen'
  BY <1>1, <1>2
<1>5. ASSUME NEW s \in seen', s = 0 \/ s - 1 \in seen',
             s > latest - (Holding - 1)
      PROVE  s \in mFrameIndexer'
  <2>1. s \in Nat /\ s > prev - (Holding - 1) /\ s - 1 # latest
    BY <1>1, <1>3, <1>5
  <2>2. s = 0 \/ s - 1 \in seen
    BY <1>1, <1>5, <2>1
  <2>3. CASE s \in seen
    <3>1. s \in mFrameIndexer
      BY <1>2, <2>1, <2>2, <2>3
    <3>2. s <= prev - (Holding - 1) => FALSE
      BY <1>1, <2>1, VideoReaderAssumption
    <3> QED
      BY <3>1, <3>2
  <2>4. CASE s \notin seen
    <3>1. s = latest
      BY <1>1, <1>5, <2>4
    <3> QED
      BY <2>2, <2>4, <3>1, FrameIsIndexed
  <2> QED
    BY <2>3, <2>4
<1> QED
  BY <1>1, <1>3, <1>4, <1>5 DEF SeenInv

\* The seconds that had a frame and are not too old are in the index.
THEOREM SeenCorrect == Spec => []SeenInv
<1>1. Init => SeenInv
  BY DEF Init, SeenInv
<1>2. TimeInv /\ OrderInv /\ SeenInv /\ [Next]_vars => SeenInv'
  <2> SUFFICES ASSUME TimeInv, OrderInv, SeenInv, [Next]_vars, steady'
               PROVE  SeenInv'
    BY DEF SeenInv
  <2>1. CASE Quiet \/ Tick \/ TakeFrame \/ IndexSearches
    <3>1. UNCHANGED <<mFrameIndexer, prev, seen, steady>>
      BY <2>1 DEF Quiet, Tick, TakeFrame, IndexSearches, readVars, indexVars
    <3> QED
      BY <3>1 DEF SeenInv
  <2>2. CASE ClockGoesBack
    BY <2>2 DEF ClockGoesBack
  <2>3. CASE IndexFirst
    <3>1. steady /\ reader = "index" /\ Stamped /\ mFrameIndexer = {}
          /\ mFrameIndexer' = {latest}
      BY <2>3 DEF IndexFirst, Stamped
    <3> QED
      BY <3>1, SeenGrows
  <2>4. CASE IndexFrame
    <3>1. /\ steady /\ reader = "index" /\ Stamped /\ mFrameIndexer # {}
          /\ mFrameIndexer' = mFrameIndexer \cup NewSecond
      BY <2>4 DEF IndexFrame, Index, Stamped
    <3>2. NewSecond \subseteq {latest}
      BY DEF NewSecond
    <3> QED
      BY <3>1, <3>2, SeenGrows
  <2>5. CASE IndexFull
    <3>1. /\ steady /\ reader = "index" /\ Stamped
          /\ Cardinality(mFrameIndexer) >= Holding /\ Ahead # {}
          /\ mFrameIndexer' = (mFrameIndexer \ {Min(Ahead)}) \cup NewSecond
      BY <2>5 DEF IndexFull, Index, Stamped
    <3>2. NewSecond \subseteq {latest}
      BY DEF NewSecond
    <3>3. Ahead = mFrameIndexer
      BY <3>1 DEF Ahead, OrderInv, TimeInv
    <3>4. /\ Min(Ahead) \in mFrameIndexer
          /\ \A s \in mFrameIndexer : Min(Ahead) <= s
      BY <3>1, <3>3, LeastIsFound DEF TimeInv
    <3>5. Min(Ahead) <= prev - (Holding - 1)
      BY <3>1, <3>4, OldestIsOld
    <3>6. \A s \in mFrameIndexer \ mFrameIndexer' : s = Min(Ahead)
      BY <3>1
    <3>7. /\ mFrameIndexer' \subseteq mFrameIndexer \cup {latest}
          /\ mFrameIndexer # {}
          /\ NewSecond = {latest} => latest \in mFrameIndexer'
      BY <3>1, <3>2, <3>3
    <3> QED
      BY <3>1, <3>5, <3>6, <3>7, SeenGrows
  <2> QED
    BY <2>1, <2>2, <2>3, <2>4, <2>5, QuietSteps DEF Timed
<1> QED
  BY <1>1, <1>2, TimeCorrect, OrderCorrect, PTL DEF Spec

\* While the clock has not gone back, an entry without a picture is of a second
\* in which an empty frame was taken.
DarkInv == steady => blank \subseteq dark

THEOREM DarkCorrect == Spec => []DarkInv
<1>1. Init => DarkInv
  BY DEF Init, DarkInv
<1>2. DarkInv /\ [Next]_vars => DarkInv'
  <2> SUFFICES ASSUME DarkInv, [Next]_vars, steady' PROVE blank' \subseteq dark'
    BY DEF DarkInv
  <2>1. CASE Quiet \/ Tick \/ TakeFrame \/ IndexSearches
    <3>1. UNCHANGED <<blank, dark, steady>>
      BY <2>1 DEF Quiet, Tick, TakeFrame, IndexSearches, readVars, indexVars
    <3> QED
      BY <3>1 DEF DarkInv
  <2>2. CASE ClockGoesBack
    BY <2>2 DEF ClockGoesBack
  <2>3. CASE IndexFirst \/ IndexFrame \/ IndexFull
    <3>1. steady /\ dark' = dark \cup Empty({latest})
      BY <2>3 DEF IndexFirst, IndexFrame, IndexFull, Stamped
    <3>2. blank' \subseteq blank \cup Empty({latest})
      BY <2>3 DEF IndexFirst, IndexFrame, IndexFull, Index, Empty, NewSecond
    <3> QED
      BY <3>1, <3>2 DEF DarkInv
  <2> QED
    BY <2>1, <2>2, <2>3, QuietSteps DEF Timed
<1> QED
  BY <1>1, <1>2, PTL DEF Spec

\* While the clock has not gone back, a report is without its picture only when
\* an empty frame was taken in a second that readAt comes to, or no second had
\* a frame, followed one that had, and is young enough for the index
\* (SerialVideoReader::run, readAt, notifyExpiration).
THEOREM BlankHasReasonCorrect == Spec => BlankHasReason
<1> DEFINE Reason(s) == \/ \E u \in deadline..s : u \in dark
                        \/ s \notin seen
                        \/ s # 0 /\ s - 1 \notin seen
                        \/ s <= prev - (Holding - 1)
<1>1. TypeOK /\ SeenInv /\ DarkInv =>
        (ReadOverstay /\ ~readAt(deadline) /\ steady
           => \A s \in deadline..(deadline + Search) : Reason(s))
  <2> SUFFICES ASSUME TypeOK, SeenInv, DarkInv, ~readAt(deadline), steady,
                      NEW s \in deadline..(deadline + Search), ~Reason(s)
               PROVE  FALSE
    OBVIOUS
  <2>1. s \in Nat /\ prev \in Nat /\ Holding \in Nat
    BY VideoReaderAssumption DEF TypeOK, SeenInv, Times
  <2>2. s > prev - (Holding - 1)
    BY <2>1
  <2>3. s \in Found(deadline)
    BY <2>2 DEF SeenInv, Found
  <2>4. Found(deadline) \in SUBSET Nat
    BY VideoReaderAssumption DEF Found, TypeOK, Times
  <2>5. /\ Min(Found(deadline)) \in Found(deadline)
        /\ Min(Found(deadline)) <= s
    BY <2>3, <2>4, LeastIsFound
  <2>6. Min(Found(deadline)) \in dark
    BY <2>3 DEF readAt, DarkInv
  <2>7. deadline \in Int
    BY VideoReaderAssumption DEF TypeOK, None
  <2>8. Min(Found(deadline)) \in deadline..s
    <3> DEFINE m == Min(Found(deadline))
    <3>1. m \in Nat /\ m \in deadline..(deadline + Search) /\ m <= s
      BY <2>4, <2>5 DEF Found
    <3> HIDE DEF m
    <3>2. m \in deadline..s
      BY <2>1, <2>7, <3>1, VideoReaderAssumption
    <3> QED
      BY <3>2 DEF m
  <2> QED
    BY <2>6, <2>8
<1>2. TypeOK /\ SeenInv /\ DarkInv =>
        [ReadOverstay /\ ~readAt(deadline) /\ steady
           => \A s \in deadline..(deadline + Search) : Reason(s)]_vars
  BY <1>1
<1> QED
  BY <1>2, TypeCorrect, SeenCorrect, DarkCorrect, PTL DEF BlankHasReason
=============================================================================
