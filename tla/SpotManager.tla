---------------------------- MODULE SpotManager ----------------------------
(***************************************************************************)
(* The configuration of the sensor over its life: the parking spots, their *)
(* time limits and the detection's parameters, where they come from at a   *)
(* start (settings.ini, parkingspots.json and the database), how a client's*)
(* update, the debug console and the end of the program change them, and   *)
(* what a stop at any moment leaves for the next start.                    *)
(*                                                                         *)
(* The main loop is suspended while the listener applies an update         *)
(* (ManagementMode), so one program counter serves both threads.  Update n *)
(* gives its spots version n; version 0 is what the files hold at first.   *)
(***************************************************************************)
EXTENDS Naturals, Sequences, FiniteSets

CONSTANTS
    Ids,           \* ids of parking spots; the console's keys name small ones
    PolicyLimit,   \* time limit of policy 5, the policy of every row
    Default,       \* enterCount when the file's is not positive
    Requests,      \* updates that clients send
    Faults,        \* what may happen besides, out of AllFaults
    Torn,          \* a file opened for writing and not yet written: empty
    Missing,       \* a key that a request lacks
    MaxUpdates,    \* bound: updates begun
    MaxStops       \* bound: ends and crashes of the process

AllFaults == {"crash", "noDisk", "noRow", "console"}

ASSUME SpotManagerAssumption ==
    /\ Ids \subseteq Nat
    /\ PolicyLimit \in Nat \ {0}
    /\ Default \in Nat \ {0}
    /\ \A r \in Requests :
          /\ DOMAIN r = {"count", "elems"}
          /\ r.count \in Nat \cup {Missing}
          /\ r.elems \in Seq([id : Ids, whole : BOOLEAN])
    /\ Faults \subseteq AllFaults
    /\ Torn \notin Nat
    /\ Missing \notin Nat
    /\ MaxUpdates \in Nat
    /\ MaxStops \in Nat

VARIABLES
    pc,            \* where the program is
    spots,         \* mParkingSpots: id -> version and time limit
    busy,          \* spots that are occupied and not overstayed
    params,        \* mParkingParams
    thresholds,    \* ParkingSpot's static thresholds
    pulled,        \* ids the last pullDB put into tlimit and po_id
    request,       \* the update being applied
    todo,          \* elements of the file or the request still to be read
    updated,       \* updateParkingSpots' set of ids
    mouse,         \* the console's start_draw and roi_set
    rows,          \* the database's parking_spot table: ids with a row
    settingsFile,  \* settings.ini
    spotsFile,     \* parkingspots.json: id -> version
    serverWhole,   \* the server's XML file is whole
    updates,
    stops,
    unsaved,       \* history: the files that memory has left behind
    held,          \* history: the spots that were busy when the update began
    granted,       \* history: the last update that was applied completely
    starts         \* history: starts in a row that left the id with a row

memory  == <<spots, busy, params, thresholds, pulled, request, todo, updated,
             mouse>>
files   == <<settingsFile, spotsFile, serverWhole>>
history == <<unsaved, held, granted, starts>>
vars    == <<pc, memory, rows, files, updates, stops, history>>

ConsoleLimit == 5
Limits   == {0, ConsoleLimit, PolicyLimit}
Junk     == MaxUpdates + 1     \* what no element gave
Versions == 0..Junk
Spot     == [version : Versions, limit : Limits]
NoUpdate == [number |-> 0]
Counts   == ({r.count : r \in Requests} \ {Missing}) \cup {Default}

Updating == {"params", "settingsFill", "thresholds", "spots",
             "spotsFill", "resume"}
Ending   == {"endSpots", "endSpotsFill", "endServer", "endServerFill",
             "endSettings", "endSettingsFill"}

PartialFunctions(S, T) == UNION {[D -> T] : D \in SUBSET S}

TypeOK ==
    /\ pc \in {"off", "read", "run", "console", "lost"} \cup Updating \cup Ending
    /\ spots \in PartialFunctions(Ids, Spot)
    /\ busy \subseteq DOMAIN spots
    /\ params \in Counts
    /\ thresholds \in Counts
    /\ pulled \subseteq Ids
    /\ request \in Requests \cup {NoUpdate}
    /\ todo \in Seq([id : Ids, whole : BOOLEAN])
    /\ updated \subseteq Ids
    /\ mouse \subseteq {"drawing", "set"}
    /\ rows \subseteq Ids
    /\ settingsFile \in Counts \cup {Torn}
    /\ spotsFile \in PartialFunctions(Ids, Versions) \cup {Torn}
    /\ serverWhole \in BOOLEAN
    /\ updates \in 0..MaxUpdates
    /\ stops \in 0..MaxStops
    /\ unsaved \subseteq {"spots", "settings"}
    /\ held \subseteq Ids
    /\ starts \in [Ids -> 0..2]

VersionsOf(f)  == [i \in DOMAIN f |-> f[i].version]
With(f, i, x)  == [j \in DOMAIN f \cup {i} |-> IF j = i THEN x ELSE f[j]]
Without(f, S)  == [i \in DOMAIN f \ S |-> f[i]]
Nowhere        == [i \in {} |-> 0]
Sane(count)    == IF count = 0 THEN Default ELSE count

\* What a process that is not running has in memory.
Forgotten ==
    /\ spots' = Nowhere
    /\ busy' = {}
    /\ params' = Default
    /\ thresholds' = Default
    /\ pulled' = {}
    /\ request' = NoUpdate
    /\ todo' = <<>>
    /\ updated' = {}
    /\ mouse' = {}

Init ==
    /\ pc = "off"
    /\ spots = Nowhere
    /\ busy = {}
    /\ params = Default
    /\ thresholds = Default
    /\ pulled = {}
    /\ request = NoUpdate
    /\ todo = <<>>
    /\ updated = {}
    /\ mouse = {}
    /\ rows = {}
    /\ settingsFile = Default
    /\ spotsFile \in {Nowhere, [i \in Ids |-> 0]}
    /\ serverWhole = TRUE
    /\ updates = 0
    /\ stops = 0
    /\ unsaved = {}
    /\ held = {}
    /\ granted = NoUpdate
    /\ starts = [i \in Ids |-> 0]

-----------------------------------------------------------------------------
(***************************************************************************)
(* The start.  A settings file that is empty ends the process (LOG(FATAL)),*)
(* an XML file that is empty throws in the uploader's constructor, and a   *)
(* database that cannot be reached leaves pullDB without a result to fetch *)
(* from: the sensor then stays off.                                        *)
(***************************************************************************)

\* The time limit of a spot: tlimit, 0 for an id that had no row.
LimitOf(id) == IF id \in pulled THEN PolicyLimit ELSE 0

LoadSettings ==
    /\ settingsFile # Torn
    /\ params' = Sane(settingsFile)

PullDB == pulled' = rows

\* Mutant: an empty file of spots is an error.
StartNeedsSpots ==
    /\ pc = "off"
    /\ serverWhole
    /\ spotsFile # Torn
    /\ LoadSettings
    /\ PullDB
    /\ pc' = "read"
    /\ UNCHANGED <<spots, busy, thresholds, request, todo, updated, mouse,
                   rows, files, updates, stops, history>>

Start ==
    /\ pc = "off"
    /\ serverWhole
    /\ LoadSettings
    /\ PullDB
    /\ pc' = "read"
    /\ UNCHANGED <<spots, busy, thresholds, request, todo, updated, mouse,
                   rows, files, updates, stops, history>>

\* The ids of the file that are not read yet.
Unread == IF spotsFile = Torn THEN {} ELSE DOMAIN spotsFile \ DOMAIN spots

\* One element: the spot is added, and an id without a row gets one, unless
\* the INSERT fails, whose result nobody looks at.  For an id with a row
\* updateDB's statement is malformed and changes nothing.
ReadElement(id) ==
    /\ pc = "read"
    /\ id \in Unread
    /\ spots' = With(spots, id, [version |-> spotsFile[id],
                                 limit   |-> LimitOf(id)])
    /\ \/ rows' = rows \cup {id}
       \/ "noRow" \in Faults /\ UNCHANGED rows
    /\ UNCHANGED <<pc, busy, params, thresholds, pulled, request, todo,
                   updated, mouse, files, updates, stops, history>>

\* The rest of MainInterface's constructor.
Started ==
    /\ pc = "read"
    /\ Unread = {}
    /\ thresholds' = params
    /\ pc' = "run"
    /\ unsaved' = {}
    /\ granted' = IF spotsFile = Torn THEN NoUpdate ELSE granted
    /\ starts' = [i \in Ids |-> IF i \notin DOMAIN spots \cap rows THEN 0
                                ELSE IF starts[i] = 2 THEN 2
                                ELSE starts[i] + 1]
    /\ UNCHANGED <<spots, busy, params, pulled, request, todo, updated, mouse,
                   rows, files, updates, stops, held>>

-----------------------------------------------------------------------------
(***************************************************************************)
(* A client's update (TCPSocketListener::update), the main loop suspended. *)
(* An exception leaves the main loop suspended for ever: "lost".           *)
(***************************************************************************)
UpdateBegin(r) ==
    /\ pc = "run"
    /\ updates < MaxUpdates
    /\ updates' = updates + 1
    /\ request' = r
    /\ granted' = NoUpdate
    /\ held' = busy
    /\ pc' = "params"
    /\ UNCHANGED <<spots, busy, params, thresholds, pulled, todo, updated,
                   mouse, rows, files, stops, unsaved, starts>>

\* A key that is missing throws before the file is opened.
UpdateThrows ==
    /\ pc = "params"
    /\ request.count = Missing
    /\ pc' = "lost"
    /\ UNCHANGED <<memory, rows, files, updates, stops, history>>

\* An empty object: no settings, and no spots either.
UpdateEmpty ==
    /\ pc = "params"
    /\ request.count = Missing
    /\ request.elems = <<>>
    /\ spots' = Nowhere
    /\ busy' = {}
    /\ unsaved' = unsaved \cup {"spots"}
    /\ pc' = "resume"
    /\ UNCHANGED <<params, thresholds, pulled, request, todo, updated, mouse,
                   rows, files, updates, stops, held, granted, starts>>

\* Mutant: nobody notices that the key is missing.
UpdateParamsUnchecked ==
    /\ pc = "params"
    /\ params' = request.count
    /\ unsaved' = unsaved \cup {"settings"}
    /\ pc' = "settingsFill"
    /\ settingsFile' = Torn
    /\ UNCHANGED <<spots, busy, thresholds, pulled, request, todo, updated,
                   mouse, rows, spotsFile, serverWhole, updates, stops,
                   held, granted, starts>>

\* The settings are stored; opening the file empties it, and when it cannot
\* be opened writeSettings returns false to nobody.
UpdateParams ==
    /\ pc = "params"
    /\ request.count # Missing
    /\ params' = request.count
    /\ unsaved' = unsaved \cup {"settings"}
    /\ \/ pc' = "settingsFill" /\ settingsFile' = Torn
       \/ /\ "noDisk" \in Faults
          /\ pc' = "thresholds"
          /\ UNCHANGED settingsFile
    /\ UNCHANGED <<spots, busy, thresholds, pulled, request, todo, updated,
                   mouse, rows, spotsFile, serverWhole, updates, stops,
                   held, granted, starts>>

UpdateSettingsWritten ==
    /\ pc = "settingsFill"
    /\ settingsFile' = params
    /\ unsaved' = unsaved \ {"settings"}
    /\ pc' = "thresholds"
    /\ UNCHANGED <<memory, rows, spotsFile, serverWhole, updates, stops,
                   held, granted, starts>>

\* Mutant: the thresholds are set beside the spots only.
UpdateThresholdsLate ==
    /\ pc = "thresholds"
    /\ thresholds' = IF request.elems = <<>> THEN thresholds ELSE request.count
    /\ IF request.elems = <<>>
       THEN /\ spots' = Nowhere
            /\ busy' = {}
            /\ unsaved' = unsaved \cup {"spots"}
            /\ pc' = "resume"
       ELSE /\ pc' = "spots"
            /\ UNCHANGED <<spots, busy, unsaved>>
    /\ todo' = request.elems
    /\ updated' = {}
    /\ UNCHANGED <<params, pulled, request, mouse, rows, files, updates,
                   stops, held, granted, starts>>

\* The thresholds; then the spots, or clear() for a request without any.
UpdateThresholds ==
    /\ pc = "thresholds"
    /\ thresholds' = request.count
    /\ IF request.elems = <<>>
       THEN /\ spots' = Nowhere
            /\ busy' = {}
            /\ unsaved' = unsaved \cup {"spots"}
            /\ pc' = "resume"
       ELSE /\ pc' = "spots"
            /\ UNCHANGED <<spots, busy, unsaved>>
    /\ todo' = request.elems
    /\ updated' = {}
    /\ UNCHANGED <<params, pulled, request, mouse, rows, files, updates,
                   stops, held, granted, starts>>

\* Mutant: the time limit is the request's, which gives none.
ReadingOwnLimit(elem) ==
    IF elem.whole
    THEN {[id |-> elem.id, version |-> updates, limit |-> 0]}
    ELSE [id : Ids, version : {Junk}, limit : Limits]

\* What an element says, or, when a key is missing, what the uninitialised
\* variables hold.
Reading(elem) ==
    IF elem.whole
    THEN {[id |-> elem.id, version |-> updates, limit |-> LimitOf(elem.id)]}
    ELSE [id : Ids, version : {Junk}, limit : Limits]

\* A new spot is added, a known one updated unless it is busy.
UpdateSpot ==
    /\ pc = "spots"
    /\ todo # <<>>
    /\ \E e \in Reading(Head(todo)) :
          /\ updated' = updated \cup {e.id}
          /\ spots' = IF e.id \in busy
                      THEN spots
                      ELSE With(spots, e.id, [version |-> e.version,
                                              limit   |-> e.limit])
    /\ todo' = Tail(todo)
    /\ UNCHANGED <<pc, busy, params, thresholds, pulled, request, mouse, rows,
                   files, updates, stops, history>>

\* Mutant: a spot that is occupied is not removed.
UpdateEraseFree ==
    /\ pc = "spots"
    /\ todo = <<>>
    /\ spots' = Without(spots, DOMAIN spots \ (updated \cup busy))
    /\ unsaved' = unsaved \cup {"spots"}
    /\ pc' = "spotsFill"
    /\ spotsFile' = Torn
    /\ UNCHANGED <<busy, params, thresholds, pulled, request, todo, updated,
                   mouse, rows, settingsFile, serverWhole, updates, stops,
                   held, granted, starts>>

\* The spots that the request does not name go, and write_json opens the
\* file; it throws when it cannot.
UpdateErase ==
    /\ pc = "spots"
    /\ todo = <<>>
    /\ spots' = Without(spots, DOMAIN spots \ updated)
    /\ busy' = busy \cap updated
    /\ unsaved' = unsaved \cup {"spots"}
    /\ \/ pc' = "spotsFill" /\ spotsFile' = Torn
       \/ /\ "noDisk" \in Faults
          /\ pc' = "lost"
          /\ UNCHANGED spotsFile
    /\ UNCHANGED <<params, thresholds, pulled, request, todo, updated, mouse,
                   rows, settingsFile, serverWhole, updates, stops, held,
                   granted, starts>>

\* Mutant: the request is written, not what became of it.
UpdateRequestWritten ==
    /\ pc = "spotsFill"
    /\ spotsFile' = [i \in updated |-> updates]
    /\ unsaved' = unsaved \ {"spots"}
    /\ pc' = "resume"
    /\ UNCHANGED <<memory, rows, settingsFile, serverWhole, updates, stops,
                   held, granted, starts>>

UpdateSpotsWritten ==
    /\ pc = "spotsFill"
    /\ spotsFile' = VersionsOf(spots)
    /\ unsaved' = unsaved \ {"spots"}
    /\ pc' = "resume"
    /\ UNCHANGED <<memory, rows, settingsFile, serverWhole, updates, stops,
                   held, granted, starts>>

\* The main loop goes on.
Resume ==
    /\ pc = "resume"
    /\ request' = NoUpdate
    /\ granted' = IF \A i \in DOMAIN request.elems : request.elems[i].whole
                  THEN [number |-> updates,
                        ids    |-> {request.elems[i].id :
                                       i \in DOMAIN request.elems},
                        busy   |-> held]
                  ELSE NoUpdate
    /\ held' = {}
    /\ updated' = {}
    /\ pc' = "run"
    /\ UNCHANGED <<spots, busy, params, thresholds, pulled, todo, mouse, rows,
                   files, updates, stops, unsaved, starts>>

-----------------------------------------------------------------------------
(***************************************************************************)
(* The main loop and the debug console.                                    *)
(***************************************************************************)

\* A frame: the detection moves a spot between busy and free or overstayed.
Detect(id) ==
    /\ pc = "run"
    /\ id \in DOMAIN spots
    /\ busy' = (busy \ {id}) \cup ({id} \ busy)
    /\ UNCHANGED <<pc, spots, params, thresholds, pulled, request, todo,
                   updated, mouse, rows, files, updates, stops, history>>

\* A parking timer's handler, in a thread that nobody suspends: the spot is
\* overstayed, and no longer refuses an update.
Overstay(id) ==
    /\ id \in busy
    /\ busy' = busy \ {id}
    /\ UNCHANGED <<pc, spots, params, thresholds, pulled, request, todo,
                   updated, mouse, rows, files, updates, stops, history>>

\* initParkingSpots, key i.
ConsoleOpen ==
    /\ pc = "run"
    /\ "console" \in Faults
    /\ pc' = "console"
    /\ mouse' = {}
    /\ UNCHANGED <<spots, busy, params, thresholds, pulled, request, todo,
                   updated, rows, files, updates, stops, history>>

\* ROISetting_OnMouse: a button pressed begins a rectangle, or ends the one
\* that is being drawn; a button released ends it.
Mouse ==
    /\ pc = "console"
    /\ mouse' = IF "drawing" \in mouse THEN {"set"} ELSE mouse \cup {"drawing"}
    /\ UNCHANGED <<pc, spots, busy, params, thresholds, pulled, request, todo,
                   updated, rows, files, updates, stops, history>>

\* A key while a rectangle is drawn does nothing; any key forgets a rectangle
\* that was set.
ConsoleKey ==
    /\ pc = "console"
    /\ "drawing" \notin mouse
    /\ mouse' = mouse \ {"set"}

\* Keys a and e.  An id that is there already is not added again.
ConsoleAdd(id) ==
    /\ ConsoleKey
    /\ "set" \in mouse
    /\ id \notin DOMAIN spots
    /\ spots' = With(spots, id, [version |-> 0, limit |-> ConsoleLimit])
    /\ unsaved' = unsaved \cup {"spots"}
    /\ granted' = NoUpdate
    /\ UNCHANGED <<pc, busy, params, thresholds, pulled, request, todo,
                   updated, rows, files, updates, stops, held, starts>>

ConsoleClear ==
    /\ ConsoleKey
    /\ spots' = Nowhere
    /\ busy' = {}
    /\ unsaved' = unsaved \cup {"spots"}
    /\ granted' = NoUpdate
    /\ UNCHANGED <<pc, params, thresholds, pulled, request, todo, updated,
                   rows, files, updates, stops, held, starts>>

ConsoleOther ==
    /\ ConsoleKey
    /\ UNCHANGED <<pc, spots, busy, params, thresholds, pulled, request, todo,
                   updated, rows, files, updates, stops, history>>

\* ESC, also while a rectangle is drawn.
ConsoleClose ==
    /\ pc = "console"
    /\ pc' = "run"
    /\ mouse' = {}
    /\ UNCHANGED <<spots, busy, params, thresholds, pulled, request, todo,
                   updated, rows, files, updates, stops, history>>

\* The process is gone; a crash may come at any moment.
Stop ==
    /\ stops < MaxStops
    /\ stops' = stops + 1
    /\ pc' = "off"
    /\ Forgotten
    /\ held' = {}
    /\ granted' = IF "spots" \in unsaved THEN NoUpdate ELSE granted
    /\ UNCHANGED <<rows, updates, unsaved, starts>>

Crash ==
    /\ "crash" \in Faults
    /\ pc # "off"
    /\ Stop
    /\ UNCHANGED files

\* Key k of the main loop means the spot with the id k - 1.  operator[] makes
\* an empty entry of an id that is not there, and the process dies of it.
KeyExit(k) ==
    /\ pc = "run"
    /\ k - 1 \in busy
    /\ busy' = busy \ {k - 1}
    /\ UNCHANGED <<pc, spots, params, thresholds, pulled, request, todo,
                   updated, mouse, rows, files, updates, stops, history>>

KeyNobody(k) ==
    /\ pc = "run"
    /\ "console" \in Faults
    /\ k - 1 \notin DOMAIN spots
    /\ Stop
    /\ UNCHANGED files

-----------------------------------------------------------------------------
(***************************************************************************)
(* The end: ESC or the end of the video.  The destructors write the spots, *)
(* the server's data and the settings, in this order; write_json and       *)
(* write_xml throw when a file cannot be opened, which ends the process    *)
(* inside a destructor.                                                    *)
(***************************************************************************)
End ==
    /\ pc = "run"
    /\ stops < MaxStops
    /\ pc' = "endSpots"
    /\ UNCHANGED <<memory, rows, files, updates, stops, history>>

EndOpenSpots ==
    /\ pc = "endSpots"
    /\ spotsFile' = Torn
    /\ pc' = "endSpotsFill"
    /\ UNCHANGED <<memory, rows, settingsFile, serverWhole, updates, stops,
                   history>>

EndWriteSpots ==
    /\ pc = "endSpotsFill"
    /\ spotsFile' = VersionsOf(spots)
    /\ unsaved' = unsaved \ {"spots"}
    /\ pc' = "endServer"
    /\ UNCHANGED <<memory, rows, settingsFile, serverWhole, updates, stops,
                   held, granted, starts>>

EndServer ==
    /\ \/ pc = "endServer" /\ serverWhole' = FALSE /\ pc' = "endServerFill"
       \/ pc = "endServerFill" /\ serverWhole' = TRUE /\ pc' = "endSettings"
    /\ UNCHANGED <<memory, rows, settingsFile, spotsFile, updates, stops,
                   history>>

EndOpenSettings ==
    /\ pc = "endSettings"
    /\ settingsFile' = Torn
    /\ pc' = "endSettingsFill"
    /\ UNCHANGED <<memory, rows, spotsFile, serverWhole, updates, stops,
                   history>>

EndWriteSettings ==
    /\ pc = "endSettingsFill"
    /\ Stop
    /\ settingsFile' = params
    /\ UNCHANGED <<spotsFile, serverWhole>>

\* The file cannot be opened: nothing of it and nothing after it is written.
EndFails ==
    /\ "noDisk" \in Faults
    /\ pc \in {"endSpots", "endServer", "endSettings"}
    /\ Stop
    /\ UNCHANGED files

StartStep ==
    \/ Start
    \/ \E id \in Ids : ReadElement(id)
    \/ Started

UpdateStep ==
    \/ \E r \in Requests : UpdateBegin(r)
    \/ UpdateThrows
    \/ UpdateEmpty
    \/ UpdateParams
    \/ UpdateSettingsWritten
    \/ UpdateThresholds
    \/ UpdateSpot
    \/ UpdateErase
    \/ UpdateSpotsWritten
    \/ Resume

ConsoleStep ==
    \/ ConsoleOpen
    \/ Mouse
    \/ \E id \in Ids : ConsoleAdd(id)
    \/ ConsoleClear
    \/ ConsoleOther
    \/ ConsoleClose

EndStep ==
    \/ End
    \/ EndOpenSpots
    \/ EndWriteSpots
    \/ EndServer
    \/ EndOpenSettings
    \/ EndWriteSettings
    \/ EndFails

Next ==
    \/ StartStep
    \/ UpdateStep
    \/ ConsoleStep
    \/ EndStep
    \/ \E id \in Ids : Detect(id) \/ Overstay(id)
    \/ \E k \in 1..Cardinality(DOMAIN spots) : KeyExit(k) \/ KeyNobody(k)
    \/ Crash

\* The process is started again when it is gone and goes on with its start;
\* the database is assumed to be reachable at some start.
Fairness == WF_vars(StartStep)

Spec     == Init /\ [][Next]_vars
FairSpec == Spec /\ Fairness

-----------------------------------------------------------------------------
(***************************************************************************)
(* Properties.                                                             *)
(***************************************************************************)

\* A power cut while the sensor detects loses no spot: apart from a clear
\* and from the console's changes, which nobody writes, the file holds the
\* spots of the memory, whatever was refused, removed or misread.
SpotsAreSaved ==
    pc = "run" /\ "spots" \notin unsaved /\ spotsFile # Torn
        => spotsFile = VersionsOf(spots)

\* The spots are those of the last complete request, in this process and
\* after any restart: none is missing, none is left over, and each has what
\* the request gave it unless it was busy when the update began, whatever
\* the timers do to it meanwhile.
RequestHonoured ==
    pc = "run" /\ granted # NoUpdate
        => /\ DOMAIN spots = granted.ids
           /\ \A i \in granted.ids :
                 spots[i].version = granted.number \/ i \in granted.busy

\* A spot that is new to the database has no time limit: a start makes its
\* row after it has read the rows, and the next one reads it.  When two starts
\* in a row have found the spot in the file and left it with a row it has a
\* limit from the second one on, whoever changes it, unless an element that
\* lacked a key gave it what happened to be in memory.
LimitsConverge ==
    pc = "run"
        => \A i \in DOMAIN spots :
              starts[i] = 2 /\ spots[i].version # Junk => spots[i].limit # 0

\* The parameters in memory, the thresholds that the spots count with and the
\* file agree whenever the sensor detects; only values that are not positive
\* are used until the next start, and then replaced, and only a file that could
\* not be opened stays behind the memory.
SettingsAgree ==
    pc = "run"
        => /\ thresholds = params
           /\ \/ settingsFile = params
              \/ settingsFile # Torn /\ params = Sane(settingsFile)
              \/ "settings" \in unsaved

\* A sensor that has stopped, anywhere outside the moments in which it
\* writes the settings or the server's data, detects again.
StartsAgain ==
    pc = "off" /\ settingsFile # Torn /\ serverWhole ~> pc = "run"
=============================================================================
