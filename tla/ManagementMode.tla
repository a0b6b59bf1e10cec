-------------------------- MODULE ManagementMode --------------------------
(***************************************************************************)
(* The hand-over between the main loop (MainInterface::run) and the TCP    *)
(* listener (TCPSocketListener::update): two mutexes, two condition        *)
(* variables and a flag (MutualConditionVariable in types.h) suspend the   *)
(* detection while a client's update changes the settings, the thresholds  *)
(* and the parking spots; and the listener's session with the client, which*)
(* is the only one it serves meanwhile.                                    *)
(*                                                                         *)
(* The data are versions: update n writes n, the start-up values are 0.    *)
(*                                                                         *)
(* `Hazards' names what may happen besides the two threads' own steps:     *)
(*   senderWakes   SenderCV.wait returns without a notification            *)
(*   receiverWakes ReceiverCV.wait returns without a notification          *)
(*   fails         an update throws: the client goes away, its JSON lacks  *)
(*                 a key, the parking spot file cannot be written          *)
(*   overtakes     an update is over before the main loop, which has just  *)
(*                 notified the listener, has started to wait              *)
(*   ends          the main loop ends: ESC, end of the video               *)
(***************************************************************************)
EXTENDS Integers

CONSTANTS
    Hazards,      \* which of the events above may happen
    MaxUpdates    \* bound: updates requested by clients

AllHazards == {"senderWakes", "receiverWakes", "fails", "overtakes", "ends"}

ASSUME ManagementModeAssumption ==
    /\ Hazards \subseteq AllHazards
    /\ MaxUpdates \in Nat

VARIABLES
    main,             \* where the main loop is
    listener,         \* where the listener's thread is
    waiting,          \* a client has connected that is not accepted yet
    ManagementMode,
    MutexEntrace,     \* who holds the mutex
    MutexExit,
    updates,          \* number of updates begun
    settings,         \* mSettings->ParkingParams: enterCount and exitCount
    thresholds,       \* ParkingSpot's static thresholds: enter and exit
    spots,            \* ParkingSpotManager's spots
    spurious          \* history: SenderCV.wait returned without a notification

dataVars == <<settings, thresholds, spots>>
vars == <<main, listener, waiting, ManagementMode, MutexEntrace, MutexExit,
          updates, settings, thresholds, spots, spurious>>

Holders == {"nobody", "main", "listener"}

MainLabels == {"check", "detect", "lockEntrance", "lockExit", "notify",
               "wait", "parked", "woken", "ended"}

ListenerLabels == {"accept", "ended", "welcome", "session", "image", "lockEntrance",
                   "parked", "woken", "receive", "settings", "enter", "exit",
                   "spots", "clearMode", "notify"}

\* The listener's thread is between suspendMainThread and resumeMainThread.
Updating == {"receive", "settings", "enter", "exit", "spots"}

Versions == 0..MaxUpdates
Counts   == [enter : Versions, exit : Versions]

\* exitCount is stored negated.
Thresholds == [enter : Versions, exit : {-n : n \in Versions}]

TypeOK ==
    /\ main \in MainLabels
    /\ listener \in ListenerLabels
    /\ waiting \in BOOLEAN
    /\ ManagementMode \in BOOLEAN
    /\ MutexEntrace \in Holders
    /\ MutexExit \in Holders
    /\ updates \in Versions
    /\ settings \in Counts
    /\ thresholds \in Thresholds
    /\ spots \in Versions
    /\ spurious \in BOOLEAN

Init ==
    /\ main = "check"
    /\ listener = "accept"
    /\ waiting = FALSE
    /\ ManagementMode = FALSE
    /\ MutexEntrace = "nobody"
    /\ MutexExit = "nobody"
    /\ updates = 0
    /\ settings = [enter |-> 0, exit |-> 0]
    /\ thresholds = [enter |-> 0, exit |-> 0]
    /\ spots = 0
    /\ spurious = FALSE

-----------------------------------------------------------------------------
(* The main loop.                                                          *)

\* A frame has been read.  The flag is read without a lock.
MainCheck ==
    /\ main = "check"
    /\ main' = IF ManagementMode THEN "lockEntrance" ELSE "detect"
    /\ UNCHANGED <<waiting, listener, ManagementMode, MutexEntrace, MutexExit,
                   updates, dataVars, spurious>>

\* The frame is processed: updateSpots, drawing, the operator's keys.
MainDetect ==
    /\ main = "detect"
    /\ main' = "check"
    /\ UNCHANGED <<waiting, listener, ManagementMode, MutexEntrace, MutexExit,
                   updates, dataVars, spurious>>

\* No more frames, or ESC.
MainEnd ==
    /\ "ends" \in Hazards
    /\ main \in {"check", "detect"}
    /\ main' = "ended"
    /\ UNCHANGED <<waiting, listener, ManagementMode, MutexEntrace, MutexExit,
                   updates, dataVars, spurious>>

MainLockEntrance ==
    /\ main = "lockEntrance" /\ MutexEntrace = "nobody"
    /\ MutexEntrace' = "main"
    /\ main' = "lockExit"
    /\ UNCHANGED <<waiting, listener, ManagementMode, MutexExit, updates,
                   dataVars, spurious>>

\* The second mutex is taken, then the first one is released.
MainLockExit ==
    /\ main = "lockExit" /\ MutexExit = "nobody"
    /\ MutexExit' = "main"
    /\ MutexEntrace' = "nobody"
    /\ main' = "notify"
    /\ UNCHANGED <<waiting, listener, ManagementMode, updates, dataVars,
                   spurious>>

\* Mutant: the main loop waits without telling the listener.
MainForgetsNotify ==
    /\ main = "notify"
    /\ main' = "wait"
    /\ UNCHANGED <<waiting, listener, ManagementMode, MutexEntrace, MutexExit,
                   updates, dataVars, spurious>>

\* SenderCV.notify_all()
MainNotify ==
    /\ main = "notify"
    /\ listener' = IF listener = "parked" THEN "woken" ELSE listener
    /\ main' = "wait"
    /\ UNCHANGED <<waiting, ManagementMode, MutexEntrace, MutexExit, updates,
                   dataVars, spurious>>

\* ReceiverCV.wait(lockExit): the mutex is released, and the thread waits.
MainWait ==
    /\ main = "wait"
    /\ MutexExit' = "nobody"
    /\ main' = "parked"
    /\ UNCHANGED <<waiting, listener, ManagementMode, MutexEntrace, updates,
                   dataVars, spurious>>

MainWakes ==
    /\ "receiverWakes" \in Hazards
    /\ main = "parked"
    /\ main' = "woken"
    /\ UNCHANGED <<waiting, listener, ManagementMode, MutexEntrace, MutexExit,
                   updates, dataVars, spurious>>

\* The wait returns with the mutex, which the end of the block releases.
MainReturn ==
    /\ main = "woken" /\ MutexExit = "nobody"
    /\ main' = "check"
    /\ UNCHANGED <<waiting, listener, ManagementMode, MutexEntrace, MutexExit,
                   updates, dataVars, spurious>>

-----------------------------------------------------------------------------
(* The listener's thread.                                                  *)

Connect ==
    /\ ~waiting
    /\ waiting' = TRUE
    /\ UNCHANGED <<main, listener, ManagementMode, MutexEntrace, MutexExit,
                   updates, dataVars, spurious>>

\* run(): one client at a time.
Accept ==
    /\ listener = "accept" /\ waiting
    /\ waiting' = FALSE
    /\ listener' = "welcome"
    /\ UNCHANGED <<main, ManagementMode, MutexEntrace, MutexExit, updates,
                   dataVars, spurious>>

\* The try block is around the loop: an exception of accept(), or of
\* remote_endpoint() for a client that has gone again, ends the thread, as
\* destroy() does between two clients.
ListenerEnds ==
    /\ listener = "accept"
    /\ waiting' \in {waiting, FALSE}
    /\ listener' = "ended"
    /\ UNCHANGED <<main, ManagementMode, MutexEntrace, MutexExit, updates,
                   dataVars, spurious>>

\* send(): the welcome goes out when the client has acknowledged its length.
Welcome ==
    /\ listener = "welcome"
    /\ listener' = "session"
    /\ UNCHANGED <<waiting, main, ManagementMode, MutexEntrace, MutexExit,
                   updates, dataVars, spurious>>

Streaming ==
    /\ listener = "session"
    /\ listener' = "image"
    /\ UNCHANGED <<waiting, main, ManagementMode, MutexEntrace, MutexExit,
                   updates, dataVars, spurious>>

\* Errors of the socket are logged, no more; encoding an empty frame throws.
sendImageFrame ==
    /\ listener = "image"
    /\ listener' \in {"session", "accept"}
    /\ UNCHANGED <<waiting, main, ManagementMode, MutexEntrace, MutexExit,
                   updates, dataVars, spurious>>

\* The client disconnects or is gone, or sends what cannot be parsed.
SessionEnds ==
    /\ listener \in {"welcome", "session"}
    /\ listener' = "accept"
    /\ UNCHANGED <<waiting, main, ManagementMode, MutexEntrace, MutexExit,
                   updates, dataVars, spurious>>

\* An update request with its length.
UpdateRequest ==
    /\ listener = "session" /\ updates < MaxUpdates
    /\ updates' = updates + 1
    /\ listener' = "lockEntrance"
    /\ UNCHANGED <<waiting, main, ManagementMode, MutexEntrace, MutexExit,
                   dataVars, spurious>>

\* Mutant: the flag is set, but nobody waits for the main loop.
SuspendWithoutWait ==
    /\ listener = "lockEntrance" /\ MutexEntrace = "nobody"
    /\ ManagementMode' = TRUE
    /\ listener' = "receive"
    /\ UNCHANGED <<waiting, main, MutexEntrace, MutexExit, updates, dataVars,
                   spurious>>

\* suspendMainThread: the flag is set under the mutex, which the wait
\* releases.
Suspend ==
    /\ listener = "lockEntrance" /\ MutexEntrace = "nobody"
    /\ ManagementMode' = TRUE
    /\ listener' = "parked"
    /\ UNCHANGED <<waiting, main, MutexEntrace, MutexExit, updates, dataVars,
                   spurious>>

ListenerWakes ==
    /\ "senderWakes" \in Hazards
    /\ listener = "parked"
    /\ listener' = "woken"
    /\ spurious' = TRUE
    /\ UNCHANGED <<waiting, main, ManagementMode, MutexEntrace, MutexExit,
                   updates, dataVars>>

\* Mutant: the flag is put down as soon as the main loop has answered.
SuspendReturnClears ==
    /\ listener = "woken" /\ MutexEntrace = "nobody"
    /\ ManagementMode' = FALSE
    /\ listener' = "receive"
    /\ UNCHANGED <<waiting, main, MutexEntrace, MutexExit, updates, dataVars,
                   spurious>>

\* The wait returns with the mutex, which the end of the call releases.
SuspendReturn ==
    /\ listener = "woken" /\ MutexEntrace = "nobody"
    /\ listener' = "receive"
    /\ UNCHANGED <<waiting, main, ManagementMode, MutexEntrace, MutexExit,
                   updates, dataVars, spurious>>

\* The client's data arrive.  An empty JSON object changes no settings, and
\* then has no "ROI" either.
Receive ==
    /\ listener = "receive"
    /\ "overtakes" \in Hazards \/ main # "wait"
    /\ listener' \in {"settings", "spots"}
    /\ UNCHANGED <<waiting, main, ManagementMode, MutexEntrace, MutexExit,
                   updates, dataVars, spurious>>

\* Settings::updateParkingParams
UpdateSettings ==
    /\ listener = "settings"
    /\ settings' = [enter |-> updates, exit |-> updates]
    /\ listener' = "enter"
    /\ UNCHANGED <<waiting, main, ManagementMode, MutexEntrace, MutexExit,
                   updates, thresholds, spots, spurious>>

\* Mutant: only the positive threshold is set.
UpdateEnterOnly ==
    /\ listener = "enter"
    /\ thresholds' = [thresholds EXCEPT !.enter = updates]
    /\ listener' = "spots"
    /\ UNCHANGED <<waiting, main, ManagementMode, MutexEntrace, MutexExit,
                   updates, settings, spots, spurious>>

\* setPositiveThreshold, setNegativeThreshold: the keys are there, or
\* updateParkingParams would have thrown.
UpdateEnter ==
    /\ listener = "enter"
    /\ thresholds' = [thresholds EXCEPT !.enter = updates]
    /\ listener' = "exit"
    /\ UNCHANGED <<waiting, main, ManagementMode, MutexEntrace, MutexExit,
                   updates, settings, spots, spurious>>

\* Mutant: the count is passed on without its sign.
UpdateExitUnsigned ==
    /\ listener = "exit"
    /\ thresholds' = [thresholds EXCEPT !.exit = updates]
    /\ listener' = "spots"
    /\ UNCHANGED <<waiting, main, ManagementMode, MutexEntrace, MutexExit,
                   updates, settings, spots, spurious>>

UpdateExit ==
    /\ listener = "exit"
    /\ thresholds' = [thresholds EXCEPT !.exit = -updates]
    /\ listener' = "spots"
    /\ UNCHANGED <<waiting, main, ManagementMode, MutexEntrace, MutexExit,
                   updates, settings, spots, spurious>>

\* ParkingSpotManager::clear or updateParkingSpots
UpdateSpots ==
    /\ listener = "spots"
    /\ spots' = updates
    /\ listener' = "clearMode"
    /\ UNCHANGED <<waiting, main, ManagementMode, MutexEntrace, MutexExit,
                   updates, settings, thresholds, spurious>>

\* An exception leaves update(); session() catches it and ends.  Receiving
\* and parsing leave the data alone, updateParkingParams may have stored
\* enterCount before it misses exitCount, and updateParkingSpots has changed
\* the spots when their file cannot be written.
UpdateFails ==
    /\ "fails" \in Hazards
    /\ \/ listener = "receive" /\ UNCHANGED dataVars
       \/ /\ listener = "settings"
          /\ \/ UNCHANGED settings
             \/ settings' = [settings EXCEPT !.enter = updates]
          /\ UNCHANGED <<thresholds, spots>>
       \/ /\ listener = "spots"
          /\ spots' = updates
          /\ UNCHANGED <<settings, thresholds>>
    /\ listener' = "accept"
    /\ UNCHANGED <<waiting, main, ManagementMode, MutexEntrace, MutexExit,
                   updates, spurious>>

\* resumeMainThread: the flag first ...
ResumeClear ==
    /\ listener = "clearMode"
    /\ ManagementMode' = FALSE
    /\ listener' = "notify"
    /\ UNCHANGED <<waiting, main, MutexEntrace, MutexExit, updates, dataVars,
                   spurious>>

\* Mutant: the main loop is left in its wait.
ResumeForgetsNotify ==
    /\ listener = "notify"
    /\ listener' = "session"
    /\ UNCHANGED <<waiting, main, ManagementMode, MutexEntrace, MutexExit,
                   updates, dataVars, spurious>>

\* ... then ReceiverCV.notify_all().
ResumeNotify ==
    /\ listener = "notify"
    /\ main' = IF main = "parked" THEN "woken" ELSE main
    /\ listener' = "session"
    /\ UNCHANGED <<waiting, ManagementMode, MutexEntrace, MutexExit, updates,
                   dataVars, spurious>>

-----------------------------------------------------------------------------
MainStep ==
    \/ MainCheck \/ MainDetect \/ MainLockEntrance \/ MainLockExit
    \/ MainNotify \/ MainWait \/ MainReturn

ListenerStep ==
    \/ Accept \/ Welcome \/ sendImageFrame
    \/ Suspend \/ SuspendReturn \/ Receive \/ UpdateSettings \/ UpdateEnter
    \/ UpdateExit \/ UpdateSpots \/ ResumeClear \/ ResumeNotify

Next ==
    \/ MainStep \/ MainEnd \/ MainWakes
    \/ ListenerStep \/ ListenerEnds \/ UpdateRequest \/ ListenerWakes
    \/ UpdateFails \/ Connect \/ Streaming \/ SessionEnds

Spec == Init /\ [][Next]_vars

\* Both threads are scheduled, and clients send what they announced.  Nothing
\* makes a client leave: read_some has no time limit.
Fairness ==
    /\ WF_vars(MainStep)
    /\ WF_vars(ListenerStep)

FairSpec == Spec /\ Fairness

-----------------------------------------------------------------------------
(* Properties.                                                             *)

\* "Use this variable to update critical data that may causes the error if
\* update without suspending the main thread's processing"
\* (TCPSocketListener.h:31): no frame is processed while an update is being
\* applied, unless SenderCV.wait, around which there is no loop, has returned
\* without being notified.
MutualExclusion ==
    main = "detect" /\ listener \in Updating => spurious

\* What a frame is processed with is the work of whole updates: both
\* thresholds of one update, and spots at least as recent as they are.
\* Updates that failed half way, or that were followed by others, included.
WholeUpdates ==
    main = "detect" /\ ~spurious =>
        thresholds.enter = -thresholds.exit /\ thresholds.enter <= spots

\* Outside of an update, however the last one ended and whatever woke the
\* threads: both thresholds are of one update, the settings hold that
\* exitCount and an enterCount at least as recent, and the spots are at least
\* as recent as the thresholds (TCPSocketListener::update).
BetweenUpdates ==
    listener \notin Updating =>
        /\ thresholds.enter = -thresholds.exit
        /\ thresholds.exit = -settings.exit
        /\ thresholds.enter <= settings.enter
        /\ thresholds.enter <= spots

\* resumeMainThread(): "Release main thread. Must be called after
\* suspendMainThread() has called" (TCPSocketListener.h:122): when no client
\* is being served the main loop is not held suspended.
ReleasedAfterUpdate ==
    listener \in {"accept", "session"} => ~ManagementMode

\* The detection never stops for good (ReceiverCV.notify_all() "resume the
\* main thread", TCPSocketListener.cpp:339).
DetectionGoesOn == []<>(main = "detect")
=============================================================================
