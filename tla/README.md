# Verification of the parking sensor

TLA+ models of the edge program that watches parking spots with a camera:
modules for TLC and proofs for TLAPS.  Paths and line numbers are those of the
repository; `ParkingSpot.cpp:453` means line 453 of `src/ParkingSpot.cpp`.

* [Inventory](#inventory) — the parts of the system
* [Modules](#modules) — what is modelled, and how it corresponds to the code
* [Runs](#runs) — what TLC checks, bounds, fairness
* [Proofs](#proofs) — what TLAPS proves, and along which argument
* [Limits of the code](#limits-of-the-code) — what turned out not to hold
* [Not modelled](#not-modelled) and [Plan](#plan)

## Inventory

The program reads a video, asks neural networks (embedded Python) where
vehicles are, decides for every parking spot whether it is occupied, and reports
entries, exits and overstays to a server, each with a picture.  A TCP port lets
an operator's client change the settings and the spots, and look at the video.

Threads: the main loop (`MainInterface::run`); one timer thread per spot
(`boost::asio::io_service::run`); the listener (`TCPSocketListener::run`), which
serves one client at a time; the uploader (`ServerNetworkHandler::run`); the
video reader (`SerialVideoReader::run`).

| Part | State | Operations | Talks to | Hard | Correct when |
|---|---|---|---|---|---|
| Parking spot (`ParkingSpot`) | `mOccupied`, `mOverstayed`, `mOccupiedFrameCounter`, `mEntryTime`, `mTimeLimit`, the static thresholds, a deadline timer with its io_service and thread | `update(bool)`, `enter`, `exit`, `reset`, `update(attributes)`, `startTimer`, `stopTimer`, `notifyExpiration`, `overstayed`, destructor | pushes on the message queue, looks for a frame in the video reader | the timer thread and the main loop share every field without a lock; a cancelled wait calls its handler too | a status changes only on enough votes, messages form a sensible story, an overstay is reported for a vehicle that stays and for no other |
| Main loop (`MainInterface`) | the current frame, the keys, the console's rectangle | construction, `updateSpots`, debug keys, `initParkingSpots`, suspension, destruction | calls the spots, waits for the listener | suspension by an unlocked flag and two condition variables | no frame is processed during an update; it always goes on |
| Spot manager (`ParkingSpotManager`) | the map of spots, `parkingspots.json`, database rows | `add`, `erase`, `clear`, `update`, `updateParkingSpots` | owns the spots | a request half applied; a spot destroyed while its timer runs | the spots are those of the last complete request, in memory, in the file and after a restart; every spot gets its time limit |
| Listener (`TCPSocketListener`) | the session | `session`, `update`, `suspendMainThread`, `resumeMainThread`, `stream` | writes settings, thresholds and spots | exceptions in the middle of an update; lost or spurious wake-ups | the main loop is released after every update, the update is whole |
| Message queue (`MessageQueue`) | `mQueue`, `mNumStoredData`, the folder `./MessageData/` | `push`, `wait_and_pop`, `loadStoredData` | filled by two kinds of threads, emptied by the uploader | overflow to disk, a counter beside the folder it counts, restarts | no message is lost or duplicated in the sensor |
| Uploader (`ServerNetworkHandler`) | the message being sent | `run`, `upload`, `sendHTTP` | the server | repetition after an answer that was lost | every message arrives; a repetition can be recognised |
| Settings, sensor and camera info | the values of an INI file | `loadSettings`, `updateParkingParams`, `writeSettings` | read by everyone | a partial update; a file truncated and not yet written | memory, thresholds and file agree; a start with any file the program leaves |
| Video reader (`SerialVideoReader`) | bounded queue of frames, index of one frame per second | `run`, `read`, `readAt` | timer threads ask it for an old frame | a thread that starts before what it waits for; eviction by a clock that can be set back | the picture of an overstay is there if it was recorded in time; the mutex is given back |
| Localizer (`MainInterface`, Python) | the list of boxes being filtered | detect, two filters of overlapping boxes, `localizer_detect` | gives the votes | loops over a list they shorten; borders | a vehicle on a spot is seen, a spot found occupied has a vehicle |
| Start and shutdown | the files, the threads | construction, destructors that write files, joins with a time limit | all threads | threads that block for ever; a crash between two files | the start gets to the frames, the end ends, what was saved comes back |

Files that are compiled but unused, or not in the build at all, are listed in
PROJECT.json as components that are not modelled.

## Modules

| Module | Content |
|---|---|
| `SpotReports` | abstract: what the server may rely on in one spot's stream of messages |
| `ParkingSpot` | the spots, the main loop that drives them, the timer threads, the changes a client or operator makes |
| `ParkingSpot_proofs` | theorems about `ParkingSpot`: types, the frame counter, cancelled timers |
| `ParkingSpotReports_proofs` | the same for the messages: the time an overstay counts from, and the refinement of `SpotReports` |
| `ManagementMode` | the hand-over between main loop and listener, the update it protects, and the sessions of the clients |
| `ManagementMode_proofs` | theorems about `ManagementMode` |
| `Delivery` | abstract: what the upload path promises for a set of messages |
| `MessageQueue` | queue, folder, uploader, faults and restarts |
| `MessageQueue_proofs` | theorems about `MessageQueue` |
| `SpotManager` | spots, limits and parameters over starts, updates, console, crashes: memory, files, database |
| `VideoReader` | the reader's thread, the index of frames, the threads that use them, start and end of the program |
| `Localizer` | from the network's boxes to the votes |
| `SpotManager_proofs`, `VideoReader_proofs`, `Localizer_proofs` | theorems about these three |
| `Base64`, `Base64_proofs` | the text of a picture, and theorems about it |
| `MCParkingSpot`, `MCManagementMode`, `MCMessageQueue`, `MCSpotManager`, `MCVideoReader`, `MCLocalizer`, `MCBase64` | instances for TLC |

`ManagementMode` and `ParkingSpot` meet in one assumption: in `ParkingSpot` the
actions of a client (`UpdateAttributes`, `SetPositiveThreshold`, `Add`, `Erase`,
`Clear`) happen only at `pc = "frame"`, between two frames.  `ManagementMode`
shows when this is so (`MutualExclusion`), and when it is not (a spurious
wake-up of `SenderCV`).  `MessageQueue` takes over where `pushed` of
`ParkingSpot` ends: `MessageQueue::push` runs under its own mutex, so the order
of `pushed` is the order of the calls.  `SpotManager` uses the same exclusion
from the other side: the main loop is suspended from `UpdateBegin` to `Resume`,
so one program counter serves both threads.  `Localizer` is where the votes
come from that `ParkingSpot` takes as arbitrary, and `VideoReader` has the other
side of `notifyExpiration`: what `readAt` finds for the time that `ParkingSpot`
computes.
`Base64` stands alone: a message of `MessageQueue` carries its text as a value.

### ParkingSpot

State variables have the names of the fields.  `pc`, `cur` and `todo` are the
position of the thread that owns the spots: the frame loop, the loop of
`updateSpots` over the spots, and the parts of `enter`, `exit`, `reset` and the
destructor.  `mTimerThread[s]` is the position of a timer thread in
`notifyExpiration`.  `mParkingTimer` is the pending wait, `mService` the
handlers that are due.  `stay`, `incarnation`, `votes` and `pushed` are history.

| Code | Actions |
|---|---|
| `MainInterface::run`, `updateSpots` | `Frame`, `Vote`, `EndSpots` |
| `ParkingSpot::update(bool)` | `Vote` with `Counts`, `Confirms`, `Moved` |
| `enter` | `EnterStartTimer` (with `startTimer`), `EnterPush`, `EnterSetTime` |
| `exit` | `ExitClear`, `ExitPush`, `ExitStopTimer` |
| debug keys | `NoKey`, `KeyExit` |
| `update(attributes)`, thresholds | `UpdateAttributes`, `SetPositiveThreshold`, `SetNegativeThreshold` |
| manager's `add`, erasing in `updateParkingSpots`, `clear` | `Add`, `Erase`, `Clear` |
| `reset`, `~ParkingSpot` | `ResetTimer`, `ResetStatus`; `Stop`, `Join` |
| asio's deadline timer (external) | `Expire`, `Cancelled`, `Arm` |
| `notifyExpiration`, `overstayed` | `NotifyExpiration`, `ComputeTime`, `OverFlag`, `OverPush` |

A call is cut where the other thread can see the difference: `enter` arms the
timer, then pushes, and stores `mEntryTime` last; `notifyExpiration` tests
`mOccupied` first, and reads `mEntryTime`, sets `mOverstayed` and pushes later.

Abstractions:
* the detector's answer is any vote, for every spot and frame;
* an instant is the stay it belongs to and a number of seconds after its entry.
  A deadline may pass at any moment after it was armed; a positive time limit
  does not pass inside the `enter` that armed it (the call takes far less than
  a second; the limits are minutes or hours);
* whether a plate has a reservation is the database's choice, and the look-up returns;
* `updateParkingSpots` and the keys of `initParkingSpots` add, change and remove
  spots one at a time: any request is some sequence of these steps, all of them
  at `pc = "frame"`.  The request as one operation, with its file and its
  database rows, is in `SpotManager`;
* `votes` counts up to `VoteCap`: it is a history variable, and the cap is above
  every number a property compares it to.

### ManagementMode

The labels of `main` and `listener` are the statements of the two protocols
(`MainInterface.cpp:228-239`, `TCPSocketListener.cpp:287-341`), one step per
lock, wait, notification and assignment.  A mutex that is taken and
released with nothing in between that another thread can wait for is one step.
The data of an update are its number: `settings`, `thresholds` and `spots` tell
which update wrote them, the negative threshold with its sign.  An update that fails (`UpdateFails`) leaves what it has
already written.  `Hazards` switches on what may happen besides the steps of the
two threads, so that every run names what it assumes.  `spurious` remembers that
`SenderCV.wait` has once returned without a notification.

Around the update is the session: `Connect` (external), `Accept`, `Welcome` (`send`),
`Streaming` and `sendImageFrame`, `UpdateRequest`, and `SessionEnds` for whatever ends
it.  `waiting` is a client in the backlog, which nobody serves before the session
ends.  `ListenerEnds` is the exception of `accept()` or `remote_endpoint()`: the `try` is
around the loop (`TCPSocketListener.cpp:80-91`), and the thread is gone for good.

`MCManagementMode` adds one history variable: `calm` is true until the first
hazard, so that the instance with every hazard also shows that without one every
update completes and the detection goes on.

### MessageQueue

Every call of the queue is under its mutex and one step.  `Push` is `push`, with
`Enqueue`, `Overflow` and the outcomes of `save()` (`Store`, `StoreSameName`,
`StoreNothing`, `StoreFails`); `PopLoading`, `PopOnly` and `Wake` are `wait_and_pop` with
`loadStoredData`; `UploadSucceeds`, `UploadFails`, `ReplyLost` and `Retry` are
`ServerNetworkHandler::run`.  `Restart` keeps the folder and nothing else.
`delivered` is the server's view (external), `lost` and `overflowed` are history.
`files` is a set, because `loadMessage` takes the first file in the order of
the directory, which is no order.  A file name is second, request, plate and spot; a message
with the name of a stored one overwrites it (`StoreSameName`).

### SpotManager

A process is `off`, reads its files (`read`), detects (`run`), is in the
operator's console, applies an update, writes its files at the end, or is `lost`: an
exception in an update has left the main loop suspended.  A spot is a version (the
update that gave it its name and rectangle) and a time limit; `busy` are the spots
that `ParkingSpot::update(attributes)` refuses to change (occupied, not overstayed).
`Detect` moves them between two frames; `Overstay` is the timers' threads, which run on while
an update suspends the main loop.

| Code | Actions |
|---|---|
| `loadSettings`, `pullDB`, constructors of `MainInterface` | `Start` |
| `readFromJSONFile`, `isExist`, `createDB`, `updateDB` | `ReadElement`, `Started` |
| `TCPSocketListener::update` | `UpdateBegin`, `UpdateThrows`, `UpdateEmpty`, `UpdateThresholds`, `Resume` |
| `updateParkingParams`, `writeSettings` | `UpdateParams`, `UpdateSettingsWritten` |
| `updateParkingSpots` | `UpdateSpot` (with `Reading`), `UpdateErase`, `UpdateSpotsWritten` |
| `initParkingSpots`, `ROISetting_OnMouse` | `ConsoleOpen`, `Mouse`, `ConsoleAdd`, `ConsoleClear`, `ConsoleOther`, `ConsoleClose` |
| `updateSpots`, `overstayed` | `Detect`, `Overstay` |
| debug keys, `operator[]` | `KeyExit`, `KeyNobody` |
| the destructors, in their order | `End`, `EndOpenSpots`, `EndWriteSpots`, `EndServer`, `EndOpenSettings`, `EndWriteSettings`, `EndFails` |
| (external) | `Crash`, in any state |

Opening a file for writing and writing it are two steps, since opening it
empties it (`Torn`) and a crash may come between.  An element of a request that
lacks a key is processed with uninitialised variables: any id, any limit, a version
nobody gave (`Junk`).  The rows of the database are a set of ids, because
every row has the same policy and only whether there is one matters; `updateDB`'s
statement is malformed and changes nothing, and an INSERT of `createDB` may fail unnoticed
(`noRow`).  `unsaved`, `held`, `granted` and `starts` are history: `held` are the spots
that were busy when the update began, and `starts` counts those that left a spot with a row.

### VideoReader

A frame is the second it was taken in and whether it is a picture or empty: `run`
queues and indexes what `read` of the camera gave, and `readAt` returns true with an empty
frame, too.  The queue is its newest frame, the only one anybody reads; `mFrameIndexer` is the
set of its keys, and `blank` those whose frame is empty.  `readAt` of the model says whether
there is a picture.  Whoever needs the mutex takes one step, except the reader's thread in
a search that does not end (`search`).

| Code | Actions |
|---|---|
| `run` | `WaitKey`, `Poll`, `Leave`, `TakeFrame`, `IndexFirst`, `IndexFrame`, `IndexFull`, `IndexSearches`, with `Index`, `Empty`, `Stamped` |
| `open` | `Open`, `SetOperation` |
| `isReady`, `read`, `readAt` | `WaitReady`, `Read`, `readAt` |
| `notifyExpiration` | `Expire`, `ReadOverstay` |
| `~MainInterface`, `destroy` of uploader, listener and video, `~ParkingSpot` | `Escape`, `HelperStep`, `DestroyServer`, `CloseVideo`, `ReleaseCamera`, `JoinTimer` |
| clock, camera, window (external) | `Tick`, `ClockGoesBack`, `VideoEnds`, `VideoReturns`, `ReaderHangs` |

The reader's thread begins with a `waitKey` without a time limit (line 232): `WaitKey` is the
key, and `ReaderHangs` covers the key that never comes and the driver that blocks.
`Operation` is uninitialised at first, so `Init` leaves it open.  A join with a
time limit is a step that is possible when the thread has ended or is where neither
the flag nor an interruption reaches it; the model does not go into what such a thread
does to objects that are destroyed afterwards.

### Localizer

The answer of the network is any sequence of boxes by falling confidence.  The
filters are modelled statement by statement, because they shorten the list they run over:
`KeepBoth`, `DropLeft`, `DropRight`, `NextLeft` are the branches of the inner loop
and the step of the outer one, first for the intersection over the union, then over the
smaller box (`FilterEnd`).  `Extent` is the code's case distinction, whose last two
cases cannot be reached; the reference it is checked against is `Covered`, the number of
pixels.  The thresholds of floats (0.1, 0.3, 0.4, 1.5, 0.5) are written in
integers; the comparisons come out the same.

### Base64

A character is its place in `base64_chars`, `=` the number after the last.  `EncodeGroup`
and `DecodeGroup` are rounds of the loops, `EncodeTail` and `DecodeTail` what follows them; the
masks and shifts on `unsigned char` are quotients and remainders (`Quad`, `Triple`), and
`find()` of a missing character is 255 (`NotFound`).

## Runs

| Run | Instance | Checks | Shows |
|---|---|---|---|
| `spot_contract` | 1 spot, limit 1, a reservation, keys, 2 vehicles, 2 incarnations, thresholds 1 | `TypeOK`, `CancelledIsLate`, `OverCountsFromEntry`, `KeepsContract` | the messages keep `SpotReports`; a cancelled timer reports nothing in its own stay; an expired one counts from its own entry |
| `spot_detection` | 1 spot, thresholds 2 and -1, 2 vehicles, fairness | `Hysteresis`, `Debounced`, `OverstayIsReported`, `DepartureIsNoticed`, `ArrivalIsNoticed` | the counter debounces and never gets stuck; a vehicle that stays is reported |
| `spot_overstayed` | 2 spots, 2 vehicles each, 2 limits, thresholds 1 | `RunningTimerRefusesUpdate` **violated** | a late handler lets a spot whose timer runs be updated |
| `mode_safety` | every hazard, 4 updates, fairness | `TypeOK`, `MutualExclusion`, `WholeUpdates`, `BetweenUpdates`, `CalmUpdateCompletes`, `CalmDetectionGoesOn` | frames and updates exclude each other; no half update; before the first hazard the protocol does not hang |
| `mode_failed` | `fails` | `ReleasedAfterUpdate` **violated** | an exception in an update leaves the main loop suspended |
| `mode_overtaken` | `overtakes`, fairness | `DetectionGoesOn` **violated** | a lost wake-up stops the detection |
| `queue_faults` | capacity 2, both kinds, every fault, 4 messages, 6 receptions, 1 restart | `TypeOK`, `Accounted`, `Fifo` | nothing is duplicated in the sensor or silently dropped; order of what never overflowed |
| `queue_delivery` | capacity 2, 5 messages, 6 receptions, failing server, fairness | `StoredIsCounted`, `Delivers` | the upload path implements `Delivery` |
| `config` | 2 spots, 5 requests, 2 updates, 2 stops, every fault, fairness | `TypeOK`, `SpotsAreSaved`, `RequestHonoured`, `LimitsConverge`, `SettingsAgree`, `StartsAgain` | memory, files and database agree wherever the program detects, and the next start finds it so |
| `video` | index of 2 seconds, search 1 ahead, 4 instants, every fault, fairness | `TypeOK`, `IndexIsBounded`, `SearchEnds`, `BlankHasReason`, `FramesArrive`, `ShutdownCompletes` | the picture of an overstay is there unless there is a reason; start and end do not hang for other causes than those named |
| `votes` | 2 spots, up to 3 boxes out of 36, fairness | `TypeOK`, `RemovedWasBeaten`, `VehicleIsSeen`, `VoteIsDeserved`, `FilterEnds` | no vehicle is filtered for nothing, missed or invented, borders excepted |
| `picture_text` | up to 5 bytes of 5 values | `RoundTrip`, `WellFormed` | the text of a picture is well formed and stands for its bytes |

Bounds.  `MaxStays`, `MaxIncarnations`, `MaxUpdates`, `MaxMessages`, `MaxReceptions`
and `MaxRestarts` cap what would grow for ever.  Two vehicles are the fewest for
which a handler of one stay can run in another; two incarnations the fewest for
a handler that might outlive its spot; both together are in `spot_contract`.
Spots share nothing but the owning thread and the thresholds, so one is enough, but
for `spot_overstayed`, which lets a second one come between.  In `spot_detection` the second
vehicle's timer is armed by the thread that has cancelled the first one's, or finds its handler
still running.  Thresholds
1/-1 keep the saturation (twice the threshold) and both sides of each comparison
in reach; `spot_detection` uses 2/-1, which are not symmetric, so that a mixed-up
sign or threshold shows.  Four updates are enough for one that fails, two that
follow it and one that completes.  Five messages with a queue of two fill the
queue, send three through the folder and bring them back.  `MaxReceptions` bounds
what is received before a reply that is lost, whichever the message: six are enough for one that
arrives six times, or three that arrive twice; the proofs have no such bound.  In `config` two stops are the fewest after which a spot
has been through two starts that found it, two updates the fewest of which one changes what
the other gave; the requests are one that is whole, one that leaves a spot
out, one without spots, one that is empty or lacks its keys and one with a broken element.
The first request's count is also the default, so that a client's count of 0 is told from it.  In `video`
`MaxBack` is the length of the index plus one, the least by which the clock must be set
back for the search to run past every entry; four instants let the index of two
be filled and evicted twice.  In `votes` three boxes are the fewest for which the filter
skips one; the extents are chosen to fill a spot, to lie between two, to touch, to
contain and to be contained.  In `picture_text` five bytes are the fewest with a full group
before a last one of every length; the values set and clear the bits on both sides
of every shift.

`spot_contract` and `spot_detection` are for positive time limits and positive
counts; with zero, see below.  Seven runs switch the deadlock check off, where
the program really can stop: the three of `ManagementMode` (both threads waiting, or one of them
ended), `config` (a file with which the program does not start; the
stops are used up), `video` (the main loop waits for a video whose reader
has ended; the clock is at its bound), `votes` (a failure in Python ends the program), `picture_text` (the
text is read back).

Fairness.  `ParkingSpot`: the owning thread takes its steps (`WF(OwnerStep)`: the
video loop has no blocking step besides the suspension, and frames keep coming),
each deadline passes (`WF(Expire)`), each timer thread is scheduled
(`WF(TimerStep)`).  Requests of clients and keys are not fair.  The liveness
properties ask nothing of the detector beyond their own premises (`DepartureIsNoticed`: from
some point it never sees a vehicle).  `ManagementMode`: both threads are
scheduled, and a client acknowledges and sends the data it announced (`Welcome` and
`Receive` are steps of the listener; the code has no time limit for either).  That it leaves is not
assumed: nothing makes it.  `MessageQueue`: the
uploader is scheduled, and `SF(UploadSucceeds)`: a message whose upload is tried
again and again, every three seconds for ever, is accepted at some time.  Pushes
are not fair.  `SpotManager`: a process that is gone is started again and goes on
with its start (`WF(StartStep)`: a service manager does so; the database is reachable at
some start).  `VideoReader`: every thread is scheduled and time passes, and the key of
`WaitKey` comes unless `ReaderHangs`; faults, a camera that recovers and the operator are not fair.  `Localizer`: Python and the main loop go on.

Every property of a passing run has a mutant in PROJECT.json: a plausible bug in
one definition, with which TLC finds the property violated.  The operators
are in the modules, marked *Mutant*, before the definition each would replace.

## Proofs

TLAPS checks, for every value of the constants that the modules' assumptions
admit:

| Theorem | States | Rests on |
|---|---|---|
| `ParkingSpot_proofs!TypeCorrect` | `Spec => []TypeOK` | lemmas on `Cancelled`, `Arm`, `StopTimer`, `Push`, `Moved` |
| `CounterCorrect` | `Spec => []CounterInv` | `TypeCorrect`, `VoteStepCounter`, `QuietStep` |
| `HysteresisCorrect` | `Spec => []Hysteresis` | `CounterCorrect` |
| `DebounceCorrect` | `Spec => Debounced` | `CounterCorrect` |
| `CancelledCorrect` | `Spec => []CancelledIsLate` | `LateCorrect`: `Spec => []LateInv` |
| `ParkingSpotReports_proofs!OverCountsCorrect` | `Spec => []OverCountsFromEntry` | `EntryCorrect`: `Spec => []EntryInv` |
| `ContractKept` | `Spec => KeepsContract` (refinement of `SpotReports`) | `ContractCorrect`: `Spec => []ContractInv` |
| `ManagementMode_proofs!TypeCorrect` | `Spec => []TypeOK` | |
| `HandoverCorrect` | `Spec => []Handover` | |
| `ExclusionCorrect` | `Spec => []MutualExclusion` | `Handover` |
| `DataCorrect` | `Spec => []DataInv` | `TypeCorrect` |
| `BetweenUpdatesCorrect`, `WholeUpdatesCorrect` | `Spec => []BetweenUpdates`, `Spec => []WholeUpdates` | `DataInv`, and `Handover` for the second |
| `MessageQueue_proofs!TypeCorrect` | `Spec => [](TypeOK /\ DataInv)` | lemmas on `Append` and `Tail` |
| `AccountedCorrect` | `Spec => []Accounted` | `PlacesCorrect`: `Spec => []PlacesInv` |
| `DeliverySafe` | `Spec => Path!Init /\ [][Path!Next]_(Path!vars)` | both |
| `StoredIsCountedCorrect` | `Spec => []StoredIsCounted` | `PlacesCorrect`, `CountInv` |
| `FifoCorrect` | `Spec => []Fifo` | `LineCorrect`: `Spec => []LineInv`; `RepeatCorrect`: `Spec => []RepeatInv` |
| `VideoReader_proofs!IndexIsBoundedCorrect` | `Spec => []IndexIsBounded` | `TimeCorrect`: `Spec => []TimeInv` |
| `SearchEndsCorrect` | `Spec => []SearchEnds` | `OrderCorrect`: `Spec => []OrderInv`, and `TimeInv` |
| `TypeCorrect` | `Spec => []TypeOK` | `TimeCorrect` |
| `BlankHasReasonCorrect` | `Spec => BlankHasReason` | `SeenCorrect`: `Spec => []SeenInv`, and `OrderInv` |
| `SpotManager_proofs!SettingsAgreeCorrect` | `Spec => []SettingsAgree` | `SettingsCorrect`: `Spec => []SettingsInv` |
| `SpotsAreSavedCorrect` | `Spec => []SpotsAreSaved` | `SpotsCorrect`: `Spec => []SpotsInv` |
| `TypeCorrect` | `Spec => []TypeOK` | `TypeInvCorrect` |
| `LimitsConvergeCorrect` | `Spec => []LimitsConverge` | `LimitsCorrect`: `Spec => []LimitsInv` |
| `RequestHonouredCorrect` | `Spec => []RequestHonoured` | `GrantCorrect`: `Spec => []GrantInv` |
| `Localizer_proofs!TypeCorrect` | `Spec => []TypeOK` | `ListCorrect`: `Spec => []ListInv` |
| `RemovedWasBeatenCorrect` | `Spec => []RemovedWasBeaten` | `BeatenCorrect`: `Spec => []BeatenInv` |
| `VehicleIsSeenCorrect`, `VoteIsDeservedCorrect` | `Spec => []VehicleIsSeen`, `Spec => []VoteIsDeserved` | `VotesCorrect`: `Spec => []VotesInv`, and lemmas on areas |
| `Base64_proofs!TypeCorrect`, `RoundTripCorrect`, `WellFormedCorrect` | `Spec => []TypeOK`, `Spec => []RoundTrip`, `Spec => []WellFormed` | `TextCorrect`: `Spec => [](TypeOK /\ TextInv)` |

**The counter.**  `Hysteresis` alone is not inductive: to know that the counter
of a spot that has just been freed is not above the positive threshold one must know
that it has passed the negative one.  And `Debounced` needs a relation between the counter and
the votes since the last change.  `CounterAt(s)` is both: an occupied spot's counter
is at least `mNegativeThreshold` and at least `mPositiveThreshold + 1 - votes[s]`;
a free spot's counter is at most `mPositiveThreshold` and at most `votes[s]`.
One vote moves the counter by at most one and counts at most one vote, unless
the status flips, and then the counter is beyond the threshold.  `CounterInv`
adds that `enter` and `exit` are called with the status they set.  The three
theorems assume `OneThreshold`: enterCount and exitCount have one value and
nobody presses a debug key.  Both are necessary: with changing thresholds or
keys the properties are false (next section).  The counts themselves, the spots, the limits and the
numbers of vehicles and incarnations are arbitrary.

**The cancelled timers.**  `CancelledIsLate` speaks of a handler that is running;
what makes it true is where waits are cancelled.  `LateInv` collects the three
places: `enter` finds at most a wait of an earlier stay (`OwnerLate`), `exit` has cleared
`mOccupied` before it cancels, and `reset` has not, which is the exception the
property names.  A cancelled handler that is due is therefore of an earlier stay, or
finds the spot free (and a spot becomes occupied with a new stay only), or the spot is
held by `reset`, whose removal ends with the join of the thread.  No assumption: keys,
changing thresholds and zero limits included.

**The entry time.**  The timer is armed two statements before `mEntryTime` is stored.
`EntryInv` says that a wait of the present stay cannot have run out before: it is positive
(`Positive`: no limit and no reservation is 0) and `enter` is still running, or the entry
time is stored.  From there the time goes through the handler that is due, the one that runs,
its local variable and the message.  The join in the destructor is needed for it: it
clears `mEntryTime`, when no handler is left (`OwnerTimed`).  Without `Positive` the
property is false (next section).

**The contract.**  `SpotReports` sees one spot's messages; that each step of `ParkingSpot` is a
step of it or a stutter needs the relation between the messages that were pushed and
what the threads still hold.  `ContractInv` has four parts for every spot: the numbers of stays
and incarnations count up (`Counted`); no message is about a stay that has yet to begin
(`PastOnly`); a stay that was entered and not left is the present one, and a vehicle that stays
has been entered (`OneOpen`); and the overstays that were reported, the handler that runs,
the handlers that are due and the wait that is pending are for stays that were entered, in their order
(`ThreadSound`), so that none is reported twice.  It needs `Positive`: with a limit of 0 a handler
may run before `enter` has pushed ENTER.  The steps are then taken one by one: only `EnterPush`, `ExitPush`, `OverPush` and
the removal of a spot change what `SpotReports` sees.

**The hand-over.**  Exclusion is not a matter of mutexes: the main loop holds none
while it processes a frame.  `Handover` is the reason it holds: from
`suspendMainThread` to `resumeMainThread` the flag is up, so that the main loop, whatever
wakes it, comes back to the wait through the test of the flag; and the listener, if it was
woken by a notification, was woken by a main loop that had left the frame.

**The data.**  `DataInv` says where an update is torn: between the two thresholds
only while `listener = "exit"`, between thresholds and spots only until the spots
are written, and between settings and thresholds only before the thresholds are set.
An exception is thrown only at places where the thresholds are not torn.  It
holds whatever the hazards, so `BetweenUpdates` does too.

**The queue.**  `PlacesInv` is `Accounted` with the repetition of messages in the queue stated
on its places (`Distinct`), since a cardinality is not carried through `Append` and `Tail`;
`DistinctLength` brings the cardinality back.  `DataInv` (the uploader holds one message
exactly while it uploads or waits to try again) is why a pop never overwrites a message.
`DeliverySafe` assumes `Lossless`, the conditions of `queue_delivery`: no restart, no disk error,
no equal file names, no sync messages.  It is the safety part of `Delivers`, for any capacity.  Under the same
conditions `StoredIsCounted` is inductive, once it is known that a message that is pushed
is not in the folder yet.  `Fifo` assumes nothing.  `LineInv` extends the order of what was
delivered backwards along the path of a message: what is in the queue is in order, what the
uploader holds precedes it, what was delivered precedes both, and everything in the folder has
overflowed.  `RepeatInv` says why repetitions come at once, however many: what was delivered
is in neither queue nor folder any more (`PlacesInv`), and if the uploader still holds it, nothing
else was delivered since (`NoneAfter`).

**The index of frames.**  `IndexIsBounded` needs only that what is removed from a full
index is in it, the least of the entries at or after the front (`LeastIsFound`), before
one is added (`AddSecond`, `RemoveLeast`).  `SearchEnds` needs `OrderInv`: as long as the
clock goes forward the entries lie between the front and the last time stamp, so that every
entry of a full index is one where the search may end.  No step but those of the clock and of
a frame touches any of it (`QuietSteps`).  `SeenInv` is the other direction: a second that
had a frame, after one that had one too, is in the index as long as it is younger than the
index is long.  An eviction takes the oldest entry, which of a full index is too old by then.
`DarkInv` says of an entry without a picture that the camera gave an empty frame in its second.

**The configuration.**  `SettingsInv` and `SpotsInv` follow a value through the
program: `SettingsInv` says where the parameters differ from the thresholds (only while an
update stands between the two assignments) and from the file; `SpotsInv` says that the
spots of a start are those of the file read so far, so that the end of the reading finds them
equal.  Nothing is assumed of the requests, the faults or the ids.  `LimitsInv` follows the
rows: what has been through one start has a row, and a start with the row gives the limit;
`TypeInv` adds to the types that an update that is under way is one of a client.
`GrantInv` follows a request: while its elements are read, those that are behind hold its version or
were busy when it began (`ReadSoFar`), and no spot becomes busy meanwhile, since the timers only make
busy spots overstayed; after it, memory and file hold it until somebody changes the spots otherwise,
and a restart reads it back (`FileHolds`).

**The votes.**  `ListInv` keeps the two positions of the filters apart and inside the list; it is
needed to know that the box that goes is not the one it lost against.  `BeatenInv`
says of every box that is gone that one of the network's beat it, be that one still there or
not, which is why it does not matter that the loop skips pairs.  For the votes the code's
area by cases is compared with the number of pixels two rectangles share: a set of pixels of
a line is counted by a bijection with an interval, and the count of a rectangle is the product.

**The text.**  `TextInv` says how far each loop has come: the text is the groups of the bytes
read so far, then the padded last one, and the bytes decoded are the first ones of the picture.  The
arithmetic is in the lemmas on `Quad` and `Triple`: four characters of six bits hold three bytes, and
the bytes of a last group come back whatever stands for its missing characters
(`RestBytes`).  `RestIsLeft` says where the decoder's loop stops.

Only model-checked: the liveness properties, and with them the liveness part of
`Delivers` (`DetectionGoesOn`, `OverstayIsReported`, `StartsAgain`, `FilterEnds` and the others
under fairness, which is out of the prover's reach).  Every invariant that a passing run checks
is a theorem.

## Limits of the code

Three disagreements between the code and its own comments are kept as runs and
described under `findings` in PROJECT.json: an update of a spot whose timer runs, a
main loop left suspended by a failed update, and a lost wake-up.  The following came up while the properties were stated.
They are reproduced by changing the constants of a run as described, or seen by
reading; the properties are stated so that they do not hide them.

* **A changed exitCount.**  `update(bool)` (`ParkingSpot.cpp:377-388`) frees a spot
  only while the counter is above twice the negative threshold.  Under exitCount 3
  the counter of an occupied spot may stand at -2 or -3, which is not above twice
  the threshold of exitCount 1, and there it neither moves nor frees the spot: it
  stays occupied although no vehicle is seen.  With `ExitCounts = {1, 3}` TLC
  finds `DepartureIsNoticed` violated.
* **Debug keys.**  A key calls `exit()` (`MainInterface.cpp:301-308`) and leaves the counter
  saturated at twice the positive threshold: a vehicle that is still there is never noticed.
  With `DebugKeys = TRUE` TLC finds `ArrivalIsNoticed` violated.
* **A time limit of 0** (`tlimit[]` of a spot the database does not know,
  `ParkingSpotManager.cpp:311`): the timer may expire inside `enter`, and OVER is
  pushed before ENTER and counts from the previous vehicle's entry.  With
  `Limits = {0}` TLC finds `KeepsContract` and `OverCountsFromEntry` violated.
* **enterCount or exitCount 0**: `c - 0 < 0` is never true of a counter that is
  not below 0, and the status never changes.  Settings read from the file are
  positive, a client's are not checked (`TCPSocketListener.cpp:311-313`).
* **Units of a reservation.**  `startTimer(res_timeLimit, ...)` arms the timer in
  minutes (`ParkingSpot.cpp:435`) and stores the minutes in `mTimeLimit`, which
  `notifyExpiration` adds as seconds (464) and the next vehicle's `startTimer` uses as seconds (444).
* **A plate whose reservations are all used** ends the program: `check_res` counts every row
  (`ParkingSpot.cpp:243`), `entVehicle` selects the unused ones (162) and reads the first without a
  test (176).  After a restart the vehicle is still there.  Seen by reading, like the next two.
* **Calendar.**  `entVehicle` counts 30 days to a month and 15768000 minutes to a year
  (`ParkingSpot.cpp:199`), thirty times its length: across the end of either the time left is wrong.
* **`isReservation_sensor`** is a member that nothing sets (`ParkingSpot.h:197`; it hides the global
  that `isRes_sensor`, which nobody calls, would set): whether reservations count is chance.
* **Handlers of cancelled waits.**  `notifyExpiration` is called for a cancelled
  wait too, and nobody looks at the error code.  `CancelledIsLate` says what is left:
  in a later stay, or in `reset()`, such a handler reports an OVER although the
  time limit has not been reached, against ParkingSpot.h:218 ("Must be called when
  the maximum allowed time has reached").  `SpotReports` therefore lets an OVER
  come late.
* **A stale `mOverstayed`** (run `spot_overstayed`).  A handler that has tested `mOccupied`
  before `exit` sets `mOverstayed` after it, and `enter` does not clear it: the next vehicle's spot
  counts as overstayed, and `update(attributes)` changes the limit while its timer runs.  While the
  spot is free nobody sees it: `isOverstayed()` asks for `mOccupied` too (`ParkingSpot.cpp:109-111`).
* **One client at a time, without a time limit.**  A client that is silent keeps
  every other one out (`TCPSocketListener.cpp:81-86`, 112), an update after one that failed waits
  for a main loop that is suspended already, and an exception of `accept()` or `remote_endpoint()`
  ends the listener for good.  That a client is served is therefore not stated at all.
* **A spurious return of `SenderCV.wait`**, which has no loop around it, lets an
  update run beside a frame; `MutualExclusion` and `WholeUpdates` except it by name.
* **Stored messages are forgotten by a restart.**  `mNumStoredData` starts at 0
  (`MessageQueue.h:90`) whatever is in the folder, and the folder is looked at only while it is
  positive.  With `"restart"` among the `Faults` of `queue_delivery` and `MaxRestarts = 1` TLC finds `StoredIsCounted` violated.
* **`ServerSyncMessage::save`** reports success and stores nothing, so the queue counts
  a message that is in no folder: with `Kinds = {"update", "sync"}` TLC finds
  `StoredIsCounted` violated without a restart.
* **Equal file names.**  Two updates of one second with the same request, plate and spot
  have one file (`ParkingUpdateMessage.cpp:143`): the second overwrites the first, and both are
  counted.  `Accounted` has the first among the lost ones; with `"sameName"` among the `Faults` of
  `queue_delivery` TLC finds `StoredIsCounted` violated.
* **Order of stored messages.**  A message that overflowed comes back to the end of the
  queue, and `loadMessage` takes the first file in directory order, not the oldest
  (`IOUtils.cpp:95-96`): `Fifo` is stated for messages that never overflowed.
* **Cleared spots come back.**  An update without spots calls `clear()`
  (`TCPSocketListener.cpp:319`), which writes no file, and so does the console: after
  a crash the spots of the file are there again.  `unsaved` in `SpotsAreSaved` is this case.
* **Files are truncated and written in place.**  After a crash in between, an empty
  `settings.ini` or server XML keeps the program from starting (`StartsAgain` excepts it), and
  an empty `parkingspots.json` starts it without spots (`spotsFile # Torn` in
  `SpotsAreSaved`).
* **A broken element** of a request is added or updated with whatever the variables
  hold (`ParkingSpotManager.cpp:315-325`): `RequestHonoured` is for requests whose elements are whole.
* **New spots have the limit 0** until the second start after they were
  saved: the row is created after `pullDB` (`ParkingSpotManager.cpp:242-276`), and an update
  never creates one.  An INSERT that fails costs one start more, and nobody notices
  (`ParkingSpotManager.cpp:122`): `LimitsConverge` counts the starts that left a row.
* **A settings file that cannot be opened** stays behind the memory without a word
  (`writeSettings` returns false to nobody): the case of `unsaved` in `SettingsAgree`.
* **A key of a spot that is not there**: `operator[]` makes an empty entry
  (`ParkingSpotManager.cpp:435`), on which `exit()` is called (`KeyNobody`).  Key 1 means id 0.
* **The reader may end at once.**  `run` tests `Operation`, which `open()` sets after the
  camera; the member is not initialised.  The main loop then waits for ever:
  `FramesArrive` excepts a reader that has ended, and shows that there is no other way but a reader
  that hangs, searches without end, or gets empty frames.
* **The reader waits for a key** before its first frame, without a time limit
  (`SerialVideoReader.cpp:232`): where the window gets none, the main loop waits for a ready
  video for ever (`ReaderHangs`).
* **Empty frames are indexed.**  `run` does not look at what the camera gave, and `readAt` returns true
  with an empty frame, also when the next second would have a picture (`SerialVideoReader.cpp:188`).
  `BlankHasReason` names such seconds (`dark`).
* **A clock that is set back** by more than the index is long makes the search of
  `SerialVideoReader.cpp:274` endless, with the mutex held (`SearchEnds`); a spot's destructor
  then waits for its timer without a limit (`ShutdownCompletes`).
* **Borders.**  A vehicle whose left or upper border is the spot's has no case in
  `localizer_detect` (`MainInterface.cpp:623-643`) and is not seen.  One line inside
  the other counts beyond the end of the inner one, so that less than "more than 50% intersection"
  (line 610) may count as occupied.  `VehicleIsSeen` and `VoteIsDeserved` name both.
* **One vehicle, two spots.**  The vehicle that was found is erased from a copy of the
  list: it may occupy two spots.
* **The filter skips a box** after it has dropped the left one of a pair: boxes that overlap
  may both stay.  `RemovedWasBeaten` speaks of those that go.

## Not modelled

* What neural networks and OpenCV compute, pictures, drawing and JSON text: the
  models take any vote, and treat a message as a value.
* HTTP and TCP beyond the outcomes the callers see.
* The database: its answers (a reservation, a time limit) are choices.
* Data races below the level of a field: fields are read and written whole.
* The text of a session's requests and answers, and `drawParkingStatus`: pictures, and an
  iterator that runs beside a change of the map, which is below the level of a field.
* Plate and character recognition in the Python files, which nothing calls: the plate of
  a message is always "null".
* What a thread does that outlives the objects it uses, after a join that was given up.
* Sources that are not built (`Light`, `MotionDetection`, classifiers,
  `bgextract.cpp`, `mogtest.cpp`), stubs (`BoardController`) and code nobody calls
  (`SecureClient`, `try_pop`, `pop`).

## Plan

Done, in this order: `SpotReports` and `ParkingSpot`, its proofs; `ManagementMode`
and its proofs; `Delivery` and `MessageQueue`, its proofs; `SpotManager`; `VideoReader`;
`Localizer`; the proofs of these three, of `Fifo` and `StoredIsCounted`, and of the refinement of
`SpotReports`; `Base64` with its proofs.

Next modules: `Reservation`, the queries of `check_res` and `entVehicle` by several
devices on one table; `Sensor`, `ManagementMode` driving the requests of `ParkingSpot`, so that the
assumption that joins them is checked rather than stated.

Next proofs: those of `Reservation` (no device takes a row twice); that `Sensor` keeps the
exclusion which `ParkingSpot` assumes.
