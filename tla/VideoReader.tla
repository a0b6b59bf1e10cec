---------------------------- MODULE VideoReader ----------------------------
(***************************************************************************)
(* SerialVideoReader: the thread that reads the camera, the latest frame   *)
(* and the index of one frame per second, with the threads that use them:  *)
(* the main loop, which opens the video, waits for it, detects and closes, *)
(* and the timer of a parking spot, which asks readAt for the frame of the *)
(* moment the vehicle overstayed.  Then the end of the program, which joins*)
(* the uploader, the listener, the video and the timer's thread.           *)
(*                                                                         *)
(* A frame is the second it was taken in, and a picture or empty: nobody   *)
(* looks whether the camera gave one.  The queue of frames is its          *)
(* newest one: nobody reads another.  The mutex is held over one step,     *)
(* except by a search of the index that does not end.                      *)
(***************************************************************************)
EXTENDS Integers, FiniteSets, FiniteSetsExt

CONSTANTS
    Holding,     \* mHoldingFramesSeconds: size of the index (100)
    Search,      \* seconds that readAt looks ahead (10)
    Limit,       \* time limit of the spot, in seconds
    Faults,      \* what may happen besides, out of AllFaults
    MaxTime,     \* bound: the clock
    MaxBack      \* bound: seconds that the clock is set back by

\* back: local_time() goes back; over: the camera gives empty frames, for a
\* while or, at the end of a video, for ever; hangs: the camera's driver
\* blocks, or the window that waits for a key never gets one.
AllFaults == {"back", "over", "hangs"}

ASSUME VideoReaderAssumption ==
    /\ Holding \in Nat \ {0}
    /\ Search \in Nat
    /\ Limit \in Nat
    /\ Faults \subseteq AllFaults
    /\ MaxTime \in Nat
    /\ MaxBack \in Nat

None == -1
Times == 0..MaxTime

VARIABLES
    clock,       \* second_clock::local_time()
    camera,      \* the VideoCapture
    Operation,   \* uninitialised until open() sets it
    reader,      \* where the reader's thread is
    latest,      \* the time of mFrameQueue.back(), None: the queue is empty
    newest,      \* mFrameQueue.back() is a picture, or empty
    prev,        \* the time stamp of the frame before
    mFrameIndexer,        \* seconds that have a frame
    blank,                \* those of them whose frame is empty
    frontOfIndexerTime,
    mReady,
    main,        \* where the main thread is
    deadline,    \* the moment of the overstay, None: no vehicle
    timer,       \* where the timer's thread is
    helper,      \* where the threads are that the server's destroy() waits for
    steady,      \* history: the clock has never gone back
    seen,        \* history: seconds with a frame, while steady
    dark         \* history: seconds with an empty frame, while steady

indexVars == <<mFrameIndexer, blank, frontOfIndexerTime, prev, mReady, seen,
               dark>>
readVars  == <<reader, latest, newest, indexVars>>
spotVars  == <<deadline, timer>>
vars == <<clock, camera, Operation, readVars, main, spotVars, helper, steady>>

ReaderLabels == {"key", "poll", "test", "index", "search", "hung", "ended"}
MainLabels   == {"open", "opened", "waitReady", "loop", "server", "video",
                 "interrupt", "spots", "gone"}

TypeOK ==
    /\ clock \in Times
    /\ camera \in {"closed", "open", "over", "released"}
    /\ Operation \in BOOLEAN
    /\ reader \in ReaderLabels
    /\ prev \in Times
    /\ latest \in Times \cup {None}
    /\ newest \in {"picture", "empty"}
    /\ mFrameIndexer \subseteq Times
    /\ blank \subseteq mFrameIndexer
    /\ frontOfIndexerTime \in Nat
    /\ mReady \in BOOLEAN
    /\ main \in MainLabels
    /\ deadline \in 0..(MaxTime + Limit) \cup {None}
    /\ timer \in {"waiting", "reading"}
    /\ helper \in {"works", "blocked", "ended"}
    /\ steady \in BOOLEAN
    /\ seen \subseteq Times
    /\ dark \subseteq Times

Init ==
    /\ clock = 0
    /\ camera = "closed"
    /\ Operation \in BOOLEAN
    /\ reader = "key"
    /\ prev = 0
    /\ latest = None
    /\ newest = "empty"
    /\ mFrameIndexer = {}
    /\ blank = {}
    /\ frontOfIndexerTime = 0
    /\ mReady = FALSE
    /\ main = "open"
    /\ deadline = None
    /\ timer = "waiting"
    /\ helper = "works"
    /\ steady = TRUE
    /\ seen = {}
    /\ dark = {}

-----------------------------------------------------------------------------
(***************************************************************************)
(* Time and the camera.                                                    *)
(***************************************************************************)
Tick ==
    /\ clock < MaxTime
    /\ clock' = clock + 1
    /\ UNCHANGED <<camera, Operation, readVars, main, spotVars, helper, steady>>

ClockGoesBack ==
    /\ "back" \in Faults
    /\ steady
    /\ \E n \in 1..MaxBack : clock >= n /\ clock' = clock - n
    /\ steady' = FALSE
    /\ seen' = {}
    /\ dark' = {}
    /\ UNCHANGED <<camera, Operation, reader, latest, newest, mFrameIndexer,
                   blank, frontOfIndexerTime, prev, mReady, main, spotVars, helper>>

\* Frames are empty now ...
VideoEnds ==
    /\ "over" \in Faults
    /\ camera = "open"
    /\ camera' = "over"
    /\ UNCHANGED <<clock, Operation, readVars, main, spotVars, helper, steady>>

\* ... and may be pictures again.
VideoReturns ==
    /\ camera = "over"
    /\ camera' = "open"
    /\ UNCHANGED <<clock, Operation, readVars, main, spotVars, helper, steady>>

-----------------------------------------------------------------------------
(***************************************************************************)
(* The reader's thread, which the constructor starts.                      *)
(***************************************************************************)
isOpened == camera \in {"open", "over"}

\* The mutex can be taken.
Unlocked == reader # "search"

\* waitKey(100), then waitKey(), which has no time limit.
WaitKey ==
    /\ reader = "key"
    /\ reader' = "poll"
    /\ UNCHANGED <<clock, camera, Operation, latest, newest, indexVars, main,
                   spotVars, helper, steady>>

Poll ==
    /\ reader = "poll"
    /\ isOpened
    /\ reader' = "test"
    /\ UNCHANGED <<clock, camera, Operation, latest, newest, indexVars, main,
                   spotVars, helper, steady>>

Leave ==
    /\ reader = "test"
    /\ ~Operation
    /\ reader' = "ended"
    /\ UNCHANGED <<clock, camera, Operation, latest, newest, indexVars, main,
                   spotVars, helper, steady>>

\* Mutant: the time stamp is rounded up.
TakeFrameAhead ==
    /\ reader = "test"
    /\ Operation
    /\ latest' = clock + 1
    /\ newest' = IF camera = "over" THEN "empty" ELSE "picture"
    /\ reader' = "index"
    /\ UNCHANGED <<clock, camera, Operation, indexVars, main, spotVars, helper,
                   steady>>

\* A frame is read, stamped and queued; the oldest one leaves a queue that is
\* full.
TakeFrame ==
    /\ reader = "test"
    /\ Operation
    /\ latest' = clock
    /\ newest' = IF camera = "over" THEN "empty" ELSE "picture"
    /\ reader' = "index"
    /\ UNCHANGED <<clock, camera, Operation, indexVars, main, spotVars, helper,
                   steady>>

ReaderHangs ==
    /\ "hangs" \in Faults
    /\ reader = "key" \/ (reader = "test" /\ Operation)
    /\ reader' = "hung"
    /\ UNCHANGED <<clock, camera, Operation, latest, newest, indexVars, main,
                   spotVars, helper, steady>>

\* Where the search for the oldest entry may end.
Ahead == {s \in mFrameIndexer : s >= frontOfIndexerTime}

\* Only the first frame of a second that follows the second before.
NewSecond == IF latest - prev = 1 THEN {latest} ELSE {}

\* The entries of these seconds that are empty, if the newest frame is.
Empty(seconds) == IF newest = "empty" THEN seconds ELSE {}

\* A second that is in the index keeps the frame it has.
Index(kept) ==
    /\ mFrameIndexer' = kept \cup NewSecond
    /\ blank' = (blank \cap kept) \cup Empty(NewSecond \ kept)

\* Mutant: nobody makes the reader ready.
StampedNotReady ==
    /\ prev' = latest
    /\ UNCHANGED mReady
    /\ seen' = IF steady THEN seen \cup {latest} ELSE {}
    /\ dark' = IF steady THEN dark \cup Empty({latest}) ELSE {}
    /\ reader' = "test"
    /\ UNCHANGED <<clock, camera, Operation, latest, newest, main, spotVars,
                   helper, steady>>

Stamped ==
    /\ prev' = latest
    /\ mReady' = TRUE
    /\ seen' = IF steady THEN seen \cup {latest} ELSE {}
    /\ dark' = IF steady THEN dark \cup Empty({latest}) ELSE {}
    /\ reader' = "test"
    /\ UNCHANGED <<clock, camera, Operation, latest, newest, main, spotVars,
                   helper, steady>>

IndexFirst ==
    /\ reader = "index"
    /\ mFrameIndexer = {}
    /\ mFrameIndexer' = {latest}
    /\ blank' = Empty({latest})
    /\ frontOfIndexerTime' = latest
    /\ Stamped

IndexFrame ==
    /\ reader = "index"
    /\ mFrameIndexer # {}
    /\ Cardinality(mFrameIndexer) < Holding
    /\ Index(mFrameIndexer)
    /\ UNCHANGED frontOfIndexerTime
    /\ Stamped

\* Mutant: the oldest entry stays.
IndexGrows ==
    /\ reader = "index"
    /\ Cardinality(mFrameIndexer) >= Holding
    /\ Ahead # {}
    /\ frontOfIndexerTime' = Min(Ahead)
    /\ Index(mFrameIndexer)
    /\ Stamped

\* Mutant: the front runs ahead of the frames.
IndexOvertakes ==
    /\ reader = "index"
    /\ Cardinality(mFrameIndexer) >= Holding
    /\ Ahead # {}
    /\ frontOfIndexerTime' = latest + 1
    /\ Index(mFrameIndexer \ {Min(Ahead)})
    /\ Stamped

IndexFull ==
    /\ reader = "index"
    /\ Cardinality(mFrameIndexer) >= Holding
    /\ Ahead # {}
    /\ frontOfIndexerTime' = Min(Ahead)
    /\ Index(mFrameIndexer \ {Min(Ahead)})
    /\ Stamped

\* No entry at or after the front: the search goes on for ever, and holds
\* the mutex.
IndexSearches ==
    /\ reader = "index"
    /\ Cardinality(mFrameIndexer) >= Holding
    /\ Ahead = {}
    /\ reader' = "search"
    /\ UNCHANGED <<clock, camera, Operation, latest, newest, indexVars, main,
                   spotVars, helper, steady>>

-----------------------------------------------------------------------------
(***************************************************************************)
(* The main thread.                                                        *)
(***************************************************************************)

\* open(): the camera first, Operation afterwards.
Open ==
    /\ main = "open"
    /\ camera' = "open"
    /\ main' = "opened"
    /\ UNCHANGED <<clock, Operation, readVars, spotVars, helper, steady>>

SetOperation ==
    /\ main = "opened"
    /\ Operation' = TRUE
    /\ main' = "waitReady"
    /\ UNCHANGED <<clock, camera, readVars, spotVars, helper, steady>>

isReady == latest # None /\ mFrameIndexer # {} /\ newest = "picture" /\ mReady

WaitReady ==
    /\ main = "waitReady"
    /\ Unlocked
    /\ isReady
    /\ main' = "loop"
    /\ UNCHANGED <<clock, camera, Operation, readVars, spotVars, helper, steady>>

\* An empty frame ends the main loop.  On a picture a vehicle may be found to
\* have arrived: its overstay is counted from the time of the frame.
Read ==
    /\ main = "loop"
    /\ Unlocked
    /\ \/ /\ newest = "empty"
          /\ main' = "server"
          /\ UNCHANGED deadline
       \/ /\ newest = "picture"
          /\ deadline = None
          /\ deadline' = latest + Limit
          /\ UNCHANGED main
    /\ UNCHANGED <<clock, camera, Operation, readVars, timer, helper, steady>>

\* After a frame, the key that ends the program.
Escape ==
    /\ main = "loop"
    /\ Unlocked
    /\ newest = "picture"
    /\ main' = "server"
    /\ UNCHANGED <<clock, camera, Operation, readVars, spotVars, helper, steady>>

\* Mutant: only the second itself.
readAtOnly(t) == t \in mFrameIndexer \ blank

\* The entries that readAt(t) looks for.
Found(t) == mFrameIndexer \cap t..(t + Search)

\* readAt gives a picture: the first entry of this second or the next ones
\* that there is, is one.  It returns true with an empty one, too.
readAt(t) == Found(t) # {} /\ Min(Found(t)) \notin blank

\* The timer is armed at or after the time of the frame.  It does not follow
\* a clock that is set.
Expire ==
    /\ timer = "waiting"
    /\ deadline # None
    /\ steady => deadline <= clock
    /\ timer' = "reading"
    /\ UNCHANGED <<clock, camera, Operation, readVars, main, deadline, helper,
                   steady>>

\* Found or not, the overstay is reported and that was it for this vehicle.
ReadOverstay ==
    /\ timer = "reading"
    /\ Unlocked
    /\ timer' = "waiting"
    /\ deadline' = None
    /\ UNCHANGED <<clock, camera, Operation, readVars, main, helper, steady>>

-----------------------------------------------------------------------------
(***************************************************************************)
(* The end.  Each destroy() clears the thread's flag, waits two seconds,   *)
(* interrupts the thread, waits three seconds and goes on.                 *)
(***************************************************************************)

\* The uploader's thread and the listener's, one after the other.  A thread
\* that finds its flag cleared, or is interrupted at a wait or a sleep, ends;
\* in a blocking read it does neither.
HelperStep ==
    /\ main = "server"
    /\ helper = "works"
    /\ helper' \in {"blocked", "ended"}
    /\ UNCHANGED <<clock, camera, Operation, readVars, main, spotVars, steady>>

\* Joined, or given up on.
DestroyServer ==
    /\ main = "server"
    /\ helper # "works"
    /\ main' = "video"
    /\ UNCHANGED <<clock, camera, Operation, readVars, spotVars, helper, steady>>

CloseVideo ==
    /\ main = "video"
    /\ Operation' = FALSE
    /\ main' = "interrupt"
    /\ UNCHANGED <<clock, camera, readVars, spotVars, helper, steady>>

\* Mutant: join() without a time limit.
JoinReader ==
    /\ main = "interrupt"
    /\ reader = "ended"
    /\ camera' = "released"
    /\ main' = "spots"
    /\ UNCHANGED <<clock, Operation, readVars, spotVars, helper, steady>>

\* The thread has ended; or it is where neither the flag nor an interruption
\* reaches it.  The camera is released either way.
ReleaseCamera ==
    /\ main = "interrupt"
    /\ reader \in {"ended", "hung", "search"}
    /\ camera' = "released"
    /\ main' = "spots"
    /\ UNCHANGED <<clock, Operation, readVars, spotVars, helper, steady>>

\* The destructor of a spot joins its timer's thread, without a time limit.
JoinTimer ==
    /\ main = "spots"
    /\ timer # "reading"
    /\ main' = "gone"
    /\ UNCHANGED <<clock, camera, Operation, readVars, spotVars, helper, steady>>

ReaderStep ==
    \/ WaitKey
    \/ Poll
    \/ Leave
    \/ TakeFrame
    \/ IndexFirst
    \/ IndexFrame
    \/ IndexFull
    \/ IndexSearches

MainStep ==
    \/ Open
    \/ SetOperation
    \/ WaitReady
    \/ Read
    \/ DestroyServer
    \/ CloseVideo
    \/ ReleaseCamera
    \/ JoinTimer

TimerStep == Expire \/ ReadOverstay

Done == main = "gone" /\ UNCHANGED vars

Next ==
    \/ Tick
    \/ ClockGoesBack
    \/ VideoEnds
    \/ VideoReturns
    \/ ReaderHangs
    \/ ReaderStep
    \/ MainStep
    \/ Escape
    \/ HelperStep
    \/ TimerStep
    \/ Done

Spec == Init /\ [][Next]_vars

\* Every thread goes on and time passes.  Whether somebody presses the key that
\* the reader's thread waits for is left open: it may hang.
Fairness ==
    /\ WF_vars(Tick)
    /\ WF_vars(ReaderStep)
    /\ WF_vars(MainStep)
    /\ WF_vars(HelperStep)
    /\ WF_vars(TimerStep)

FairSpec == Spec /\ Fairness

-----------------------------------------------------------------------------
(***************************************************************************)
(* Properties.                                                             *)
(***************************************************************************)

\* The index never grows past its size, whatever the clock does.
IndexIsBounded == Cardinality(mFrameIndexer) <= Holding

\* While the clock has not gone back, run()'s search for the oldest entry
\* ends: it cannot keep the mutex, on which everybody else waits.
SearchEnds == steady => reader # "search"

\* While the clock has not gone back, the report of an overstay goes without
\* its picture only when every second that readAt looks at has its reason: an
\* empty frame was taken in it or in one that readAt looks at before it, it had
\* no frame, there was none in the second before it, or it is older than the
\* last Holding - 1 seconds.
BlankHasReason ==
    [][ReadOverstay /\ ~readAt(deadline) /\ steady
         => \A s \in deadline..(deadline + Search) :
               \/ \E u \in deadline..s : u \in dark
               \/ s \notin seen
               \/ s # 0 /\ s - 1 \notin seen
               \/ s <= prev - (Holding - 1)]_vars

\* The main loop gets to its frames as soon as the camera gives them for long
\* enough, unless the reader's thread saw the flag before open() had set it,
\* hangs, or searches the index without end.
FramesArrive ==
    main = "waitReady"
        ~> \/ main # "waitReady"
           \/ reader \in {"ended", "hung", "search"}
           \/ camera = "over"

\* The end of the program ends: no thread that blocks, no hung camera and no
\* timer in readAt keeps the main thread, unless the clock has gone back.
ShutdownCompletes == main = "server" ~> main = "gone" \/ ~steady
=============================================================================
