------------------------- MODULE SpotManager_proofs -------------------------
(***************************************************************************)
(* Proofs about the configuration, for any ids, requests, faults, and any  *)
(* number of updates and stops: memory and files agree whenever the sensor *)
(* detects.                                                                *)
(***************************************************************************)
EXTENDS SpotManager, TLAPS

\* From the end of a start to the end of the process, but for the moments in
\* which the parameters have changed and the thresholds have not.
Counting == {"run", "console", "params", "spots", "spotsFill", "resume"}

\* The parameters on their way: file, memory, thresholds.
SettingsInv ==
    /\ pc = "read" => settingsFile # Torn /\ params = Sane(settingsFile)
    /\ pc \in {"settingsFill", "thresholds"} => params = request.count
    /\ pc \in Counting => thresholds = params
    /\ pc \in Counting \cup {"settingsFill", "thresholds"} =>
          \/ settingsFile = params
          \/ settingsFile # Torn /\ params = Sane(settingsFile)
          \/ "settings" \in unsaved

\* Where the spots are those of the file, or known not to be.
Settled == {"run", "console", "params", "settingsFill", "thresholds", "resume"}

IsFcn(f) == f = [i \in DOMAIN f |-> f[i]]

\* The spots on their way: the file is read into an empty memory, and written
\* from it.
SpotsInv ==
    /\ spotsFile # Torn => IsFcn(spotsFile)
    /\ pc = "off" => DOMAIN spots = {}
    /\ pc = "read" /\ spotsFile # Torn =>
          /\ DOMAIN spots \subseteq DOMAIN spotsFile
          /\ \A i \in DOMAIN spots : spotsFile[i] = spots[i].version
    /\ pc \in Settled /\ "spots" \notin unsaved /\ spotsFile # Torn =>
          spotsFile = VersionsOf(spots)

-----------------------------------------------------------------------------
\* The thresholds that the spots count with are the parameters in memory, and
\* these are the file's wherever the sensor detects (loadSettings,
\* updateParkingParams, TCPSocketListener::update).
THEOREM SettingsCorrect == Spec => []SettingsInv
<1> USE DEF SettingsInv, Counting
<1>1. Init => SettingsInv
  BY DEF Init
<1>2. SettingsInv /\ [Next]_vars => SettingsInv'
  <2> SUFFICES ASSUME SettingsInv, [Next]_vars PROVE SettingsInv'
    OBVIOUS
  <2> USE DEF files, history, memory
  <2>1. CASE Start
    BY <2>1 DEF Start, LoadSettings
  <2>2. ASSUME NEW id \in Ids, ReadElement(id) PROVE SettingsInv'
    BY <2>2 DEF ReadElement
  <2>3. CASE Started
    BY <2>3 DEF Started
  <2>4. ASSUME NEW r \in Requests, UpdateBegin(r) PROVE SettingsInv'
    BY <2>4 DEF UpdateBegin
  <2>5. CASE UpdateThrows \/ UpdateEmpty
    BY <2>5 DEF UpdateThrows, UpdateEmpty
  <2>6. CASE UpdateParams
    BY <2>6 DEF UpdateParams
  <2>7. CASE UpdateSettingsWritten
    BY <2>7 DEF UpdateSettingsWritten
  <2>8. CASE UpdateThresholds
    BY <2>8 DEF UpdateThresholds
  <2>9. CASE UpdateSpot
    BY <2>9 DEF UpdateSpot
  <2>10. CASE UpdateErase
    BY <2>10 DEF UpdateErase
  <2>11. CASE UpdateSpotsWritten \/ Resume
    BY <2>11 DEF UpdateSpotsWritten, Resume
  <2>12. CASE ConsoleStep
    BY <2>12 DEF ConsoleStep, ConsoleOpen, Mouse, ConsoleAdd, ConsoleClear,
                 ConsoleOther, ConsoleClose, ConsoleKey
  <2>13. CASE EndStep
    BY <2>13 DEF EndStep, End, EndOpenSpots, EndWriteSpots, EndServer,
                 EndOpenSettings, EndWriteSettings, EndFails, Stop
  <2>14. ASSUME NEW id \in Ids, Detect(id) \/ Overstay(id)
         PROVE  SettingsInv'
    BY <2>14 DEF Detect, Overstay
  <2>15. ASSUME NEW k, KeyExit(k) \/ KeyNobody(k) PROVE SettingsInv'
    BY <2>15 DEF KeyExit, KeyNobody, Stop
  <2>16. CASE Crash
    BY <2>16 DEF Crash, Stop
  <2>17. CASE UNCHANGED vars
    BY <2>17 DEF vars
  <2> QED
    BY <2>1, <2>2, <2>3, <2>4, <2>5, <2>6, <2>7, <2>8, <2>9, <2>10, <2>11,
       <2>12, <2>13, <2>14, <2>15, <2>16, <2>17
       DEF Next, StartStep, UpdateStep
<1> QED
  BY <1>1, <1>2, PTL DEF Spec

\* Parameters, thresholds and file agree whenever the sensor detects.
THEOREM SettingsAgreeCorrect == Spec => []SettingsAgree
<1>1. SettingsInv => SettingsAgree
  BY DEF SettingsInv, SettingsAgree, Counting
<1> QED
  BY <1>1, SettingsCorrect, PTL

-----------------------------------------------------------------------------
\* The file holds the spots of the memory, but for changes that nobody has
\* written yet (readFromJSONFile, updateParkingSpots, the destructor).
THEOREM SpotsCorrect == Spec => []SpotsInv
<1> USE DEF SpotsInv, Settled, IsFcn, VersionsOf, Nowhere
<1>1. Init => SpotsInv
  BY DEF Init
<1>2. SpotsInv /\ [Next]_vars => SpotsInv'
  <2> SUFFICES ASSUME SpotsInv, [Next]_vars PROVE SpotsInv'
    OBVIOUS
  <2> USE DEF files, history, memory
  <2>1. CASE Start
    BY <2>1 DEF Start
  <2>2. ASSUME NEW id \in Ids, ReadElement(id) PROVE SpotsInv'
    <3> DEFINE spot == [version |-> spotsFile[id], limit |-> LimitOf(id)]
    <3>1. /\ spots' = With(spots, id, spot)
          /\ pc = "read" /\ pc' = "read" /\ spotsFile' = spotsFile
          /\ id \in Unread
      BY <2>2 DEF ReadElement
    <3>2. spot.version = spotsFile[id]
      OBVIOUS
    <3> HIDE DEF spot
    <3>3. /\ DOMAIN spots' = DOMAIN spots \cup {id}
          /\ spots'[id] = spot
          /\ \A i \in DOMAIN spots \ {id} : spots'[i] = spots[i]
      BY <3>1 DEF With
    <3>4. spotsFile # Torn => id \in DOMAIN spotsFile
      BY <3>1 DEF Unread
    <3> QED
      BY <3>1, <3>2, <3>3, <3>4
  <2>3. CASE Started
    BY <2>3 DEF Started, Unread
  <2>4. ASSUME NEW r \in Requests, UpdateBegin(r) PROVE SpotsInv'
    BY <2>4 DEF UpdateBegin
  <2>5. CASE UpdateThrows \/ UpdateEmpty
    BY <2>5 DEF UpdateThrows, UpdateEmpty
  <2>6. CASE UpdateParams \/ UpdateSettingsWritten
    BY <2>6 DEF UpdateParams, UpdateSettingsWritten
  <2>7. CASE UpdateThresholds
    BY <2>7 DEF UpdateThresholds
  <2>8. CASE UpdateSpot
    BY <2>8 DEF UpdateSpot
  <2>9. CASE UpdateErase
    BY <2>9 DEF UpdateErase
  <2>10. CASE UpdateSpotsWritten
    BY <2>10 DEF UpdateSpotsWritten
  <2>11. CASE Resume
    BY <2>11 DEF Resume
  <2>12. CASE ConsoleStep
    BY <2>12 DEF ConsoleStep, ConsoleOpen, Mouse, ConsoleAdd, ConsoleClear,
                 ConsoleOther, ConsoleClose, ConsoleKey
  <2>13. CASE EndStep
    BY <2>13 DEF EndStep, End, EndOpenSpots, EndWriteSpots, EndServer,
                 EndOpenSettings, EndWriteSettings, EndFails, Stop, Forgotten
  <2>14. ASSUME NEW id \in Ids, Detect(id) \/ Overstay(id)
         PROVE  SpotsInv'
    BY <2>14 DEF Detect, Overstay
  <2>15. ASSUME NEW k, KeyExit(k) \/ KeyNobody(k) PROVE SpotsInv'
    BY <2>15 DEF KeyExit, KeyNobody, Stop, Forgotten
  <2>16. CASE Crash
    BY <2>16 DEF Crash, Stop, Forgotten
  <2>17. CASE UNCHANGED vars
    BY <2>17 DEF vars
  <2> QED
    BY <2>1, <2>2, <2>3, <2>4, <2>5, <2>6, <2>7, <2>8, <2>9, <2>10, <2>11,
       <2>12, <2>13, <2>14, <2>15, <2>16, <2>17
       DEF Next, StartStep, UpdateStep
<1> QED
  BY <1>1, <1>2, PTL DEF Spec

\* A power cut while the sensor detects loses no spot that was written.
THEOREM SpotsAreSavedCorrect == Spec => []SpotsAreSaved
<1>1. SpotsInv => SpotsAreSaved
  BY DEF SpotsInv, SpotsAreSaved, Settled
<1> QED
  BY <1>1, SpotsCorrect, PTL

-----------------------------------------------------------------------------
\* Partial functions: what the tables of spots and of versions are.
LEMMA PartialMember ==
    ASSUME NEW S, NEW T, NEW f
    PROVE  f \in PartialFunctions(S, T)
             <=> DOMAIN f \subseteq S /\ f \in [DOMAIN f -> T]
<1>1. ASSUME f \in PartialFunctions(S, T)
      PROVE  DOMAIN f \subseteq S /\ f \in [DOMAIN f -> T]
  BY <1>1 DEF PartialFunctions
<1>2. ASSUME DOMAIN f \subseteq S, f \in [DOMAIN f -> T]
      PROVE  f \in PartialFunctions(S, T)
  BY <1>2 DEF PartialFunctions
<1> QED
  BY <1>1, <1>2

LEMMA EmptyPartial ==
    ASSUME NEW S, NEW T PROVE Nowhere \in PartialFunctions(S, T)
<1>1. DOMAIN Nowhere = {} /\ Nowhere \in [{} -> T]
  BY DEF Nowhere
<1> QED
  BY <1>1, PartialMember

LEMMA VersionsPartial ==
    ASSUME NEW f \in PartialFunctions(Ids, Spot)
    PROVE  VersionsOf(f) \in PartialFunctions(Ids, Versions)
<1>1. DOMAIN f \subseteq Ids /\ f \in [DOMAIN f -> Spot]
  BY PartialMember
<1>2. DOMAIN VersionsOf(f) = DOMAIN f
  BY DEF VersionsOf
<1>3. VersionsOf(f) \in [DOMAIN f -> Versions]
  BY <1>1 DEF VersionsOf, Spot
<1> QED
  BY <1>1, <1>2, <1>3, PartialMember

\* The table of the spots.
LEMMA SpotsTable ==
    ASSUME TypeOK
    PROVE  /\ \A i \in Ids, x \in Spot :
                 /\ With(spots, i, x) \in PartialFunctions(Ids, Spot)
                 /\ DOMAIN With(spots, i, x) = DOMAIN spots \cup {i}
           /\ \A R : /\ Without(spots, R) \in PartialFunctions(Ids, Spot)
                     /\ DOMAIN Without(spots, R) = DOMAIN spots \ R
<1>1. DOMAIN spots \subseteq Ids /\ spots \in [DOMAIN spots -> Spot]
  BY PartialMember DEF TypeOK
<1>2. ASSUME NEW i \in Ids, NEW x \in Spot
      PROVE  /\ With(spots, i, x) \in PartialFunctions(Ids, Spot)
             /\ DOMAIN With(spots, i, x) = DOMAIN spots \cup {i}
  <2>1. DOMAIN With(spots, i, x) = DOMAIN spots \cup {i}
    BY DEF With
  <2>2. With(spots, i, x) \in [DOMAIN spots \cup {i} -> Spot]
    BY <1>1 DEF With
  <2> QED
    BY <1>1, <2>1, <2>2, PartialMember
<1>3. ASSUME NEW R
      PROVE  /\ Without(spots, R) \in PartialFunctions(Ids, Spot)
             /\ DOMAIN Without(spots, R) = DOMAIN spots \ R
  <2>1. DOMAIN Without(spots, R) = DOMAIN spots \ R
    BY DEF Without
  <2>2. Without(spots, R) \in [DOMAIN spots \ R -> Spot]
    BY <1>1 DEF Without
  <2> QED
    BY <1>1, <2>1, <2>2, PartialMember
<1> QED
  BY <1>2, <1>3

\* A time limit is one of the three that there are.
LEMMA LimitsExist ==
    /\ \A id : LimitOf(id) \in Limits
    /\ ConsoleLimit \in Limits
BY DEF LimitOf, Limits

\* The versions that an update, a broken element or the console give.
LEMMA VersionsExist ==
    ASSUME updates \in 0..MaxUpdates
    PROVE  updates \in Versions /\ Junk \in Versions /\ 0 \in Versions
BY SpotManagerAssumption DEF Versions, Junk

Elems == [id : Ids, whole : BOOLEAN]

LEMMA ReadingType ==
    ASSUME updates \in 0..MaxUpdates, NEW elem \in Elems,
           NEW e \in Reading(elem)
    PROVE  /\ e.id \in Ids
           /\ [version |-> e.version, limit |-> e.limit] \in Spot
           /\ elem.whole => e.id = elem.id /\ e.version = updates
                            /\ e.limit = LimitOf(e.id)
           /\ ~elem.whole => e.version = Junk
<1> USE VersionsExist, LimitsExist DEF Elems, Reading, Spot
<1>1. CASE elem.whole
  BY <1>1
<1>2. CASE ~elem.whole
  BY <1>2
<1> QED
  BY <1>1, <1>2

\* An update that is being applied is one that a client sent, and one that has
\* got to the thresholds has its key.
TypeInv ==
    /\ TypeOK
    /\ pc \in Updating => request \in Requests
    /\ pc \in {"settingsFill", "thresholds"} => request.count # Missing

\* Whatever the requests, the files, the database and the crashes are, every
\* value is of its type (TCPSocketListener::update, ParkingSpotManager).
THEOREM TypeInvCorrect == Spec => []TypeInv
<1> USE DEF TypeInv, TypeOK, Updating, Ending
<1>1. Init => TypeInv
  <2> SUFFICES ASSUME Init PROVE TypeInv
    OBVIOUS
  <2>1. spots \in PartialFunctions(Ids, Spot) /\ busy \subseteq DOMAIN spots
    BY EmptyPartial DEF Init
  <2>2. spotsFile \in PartialFunctions(Ids, Versions)
    <3>1. 0 \in Versions
      BY SpotManagerAssumption DEF Versions, Junk
    <3>2. [i \in Ids |-> 0] \in PartialFunctions(Ids, Versions)
      BY <3>1, PartialMember
    <3> QED
      BY <3>2, EmptyPartial DEF Init
  <2>3. updates \in 0..MaxUpdates /\ stops \in 0..MaxStops
    BY SpotManagerAssumption DEF Init
  <2>4. starts \in [Ids -> 0..2]
    BY DEF Init
  <2>5. todo \in Seq([id : Ids, whole : BOOLEAN])
    BY DEF Init
  <2> QED
    BY <2>1, <2>2, <2>3, <2>4, <2>5 DEF Init, Counts
<1>2. TypeInv /\ [Next]_vars => TypeInv'
  <2> SUFFICES ASSUME TypeInv, [Next]_vars PROVE TypeInv'
    OBVIOUS
  <2> USE DEF files, history, memory
  <2>0. /\ Nowhere \in PartialFunctions(Ids, Spot)
        /\ DOMAIN Nowhere = {}
        /\ VersionsOf(spots) \in PartialFunctions(Ids, Versions)
    BY EmptyPartial, VersionsPartial DEF Nowhere
  <2>1. CASE Start
    <3>1. params' \in Counts
      BY <2>1 DEF Start, LoadSettings, Sane, Counts
    <3> QED
      BY <2>1, <3>1 DEF Start, PullDB
  <2>2. ASSUME NEW id \in Ids, ReadElement(id) PROVE TypeInv'
    <3>1. spotsFile[id] \in Versions
      <4>1. spotsFile \in PartialFunctions(Ids, Versions)
            /\ id \in DOMAIN spotsFile
        BY <2>2 DEF ReadElement, Unread
      <4> QED
        BY <4>1, PartialMember
    <3>2. [version |-> spotsFile[id], limit |-> LimitOf(id)] \in Spot
      BY <3>1, LimitsExist DEF Spot
    <3>3. /\ spots' \in PartialFunctions(Ids, Spot)
          /\ DOMAIN spots \subseteq DOMAIN spots'
      <4> DEFINE spot == [version |-> spotsFile[id], limit |-> LimitOf(id)]
      <4>1. spots' = With(spots, id, spot)
        BY <2>2 DEF ReadElement
      <4>2. spot \in Spot
        BY <3>2
      <4> HIDE DEF spot, TypeInv, TypeOK
      <4> QED
        BY <4>1, <4>2, SpotsTable DEF TypeInv
    <3> QED
      BY <2>2, <3>3 DEF ReadElement
  <2>3. CASE Started
    <3>1. starts' \in [Ids -> 0..2]
      <4>1. starts' = [i \in Ids |-> IF i \notin DOMAIN spots \cap rows
                                     THEN 0
                                     ELSE IF starts[i] = 2 THEN 2
                                     ELSE starts[i] + 1]
        BY <2>3 DEF Started
      <4>2. ASSUME NEW i \in Ids PROVE starts'[i] \in 0..2
        BY <4>1
      <4> QED
        BY <4>1, <4>2
    <3>2. unsaved' = {} /\ thresholds' = params /\ pc' = "run"
          /\ UNCHANGED <<spots, busy, params, pulled, request, todo, updated,
                         mouse, rows, files, updates, stops, held>>
      BY <2>3 DEF Started
    <3> QED
      BY <3>1, <3>2
  <2>4. ASSUME NEW r \in Requests, UpdateBegin(r) PROVE TypeInv'
    <3>1. updates' \in 0..MaxUpdates
      BY <2>4, SpotManagerAssumption DEF UpdateBegin
    <3>2. held' \subseteq Ids
      BY <2>4, PartialMember DEF UpdateBegin
    <3> QED
      BY <2>4, <3>1, <3>2 DEF UpdateBegin
  <2>5. CASE UpdateThrows \/ UpdateEmpty
    BY <2>0, <2>5 DEF UpdateThrows, UpdateEmpty
  <2>6. CASE UpdateParams
    <3>1. params' \in Counts
      BY <2>6 DEF UpdateParams, Counts
    <3> QED
      BY <2>6, <3>1 DEF UpdateParams
  <2>7. CASE UpdateSettingsWritten
    BY <2>7 DEF UpdateSettingsWritten
  <2>8. CASE UpdateThresholds
    <3>1. thresholds' \in Counts
      BY <2>8 DEF UpdateThresholds, Counts
    <3>2. todo' \in Seq([id : Ids, whole : BOOLEAN])
      BY <2>8, SpotManagerAssumption DEF UpdateThresholds
    <3> QED
      BY <2>0, <2>8, <3>1, <3>2 DEF UpdateThresholds
  <2>9. CASE UpdateSpot
    <3>1. Head(todo) \in Elems /\ todo' \in Seq(Elems)
      <4>1. todo \in Seq(Elems) /\ todo # <<>> /\ todo' = Tail(todo)
        BY <2>9 DEF UpdateSpot, Elems
      <4> HIDE DEF TypeInv, TypeOK
      <4> QED
        BY <4>1
    <3>2. PICK e \in Reading(Head(todo)) :
             /\ updated' = updated \cup {e.id}
             /\ spots' = IF e.id \in busy
                         THEN spots
                         ELSE With(spots, e.id, [version |-> e.version,
                                                 limit   |-> e.limit])
      BY <2>9 DEF UpdateSpot
    <3>3. e.id \in Ids /\ [version |-> e.version, limit |-> e.limit] \in Spot
      <4>1. updates \in 0..MaxUpdates
        OBVIOUS
      <4> HIDE DEF TypeInv, TypeOK
      <4> QED
        BY <3>1, <4>1, ReadingType
    <3>4. /\ spots' \in PartialFunctions(Ids, Spot)
          /\ DOMAIN spots \subseteq DOMAIN spots'
      <4> DEFINE spot == [version |-> e.version, limit |-> e.limit]
      <4>1. spots' = spots \/ spots' = With(spots, e.id, spot)
        BY <3>2
      <4>2. spot \in Spot /\ e.id \in Ids
        BY <3>3
      <4>3. spots \in PartialFunctions(Ids, Spot) /\ TypeOK
        OBVIOUS
      <4> HIDE DEF spot, TypeInv, TypeOK
      <4>4. /\ With(spots, e.id, spot) \in PartialFunctions(Ids, Spot)
            /\ DOMAIN With(spots, e.id, spot) = DOMAIN spots \cup {e.id}
        BY <4>2, <4>3, SpotsTable
      <4> QED
        BY <4>1, <4>3, <4>4
    <3>5. updated' \subseteq Ids
      BY <3>2, <3>3
    <3>6. UNCHANGED <<pc, busy, params, thresholds, pulled, request, mouse,
                      rows, files, updates, stops, history>>
      BY <2>9 DEF UpdateSpot
    <3> QED
      BY <3>1, <3>4, <3>5, <3>6 DEF Elems
  <2>10. CASE UpdateErase
    <3>1. /\ spots' \in PartialFunctions(Ids, Spot)
          /\ busy' \subseteq DOMAIN spots'
      BY <2>10, SpotsTable DEF UpdateErase
    <3> QED
      BY <2>10, <3>1 DEF UpdateErase
  <2>11. CASE UpdateSpotsWritten \/ Resume
    BY <2>0, <2>11 DEF UpdateSpotsWritten, Resume
  <2>12. CASE ConsoleStep
    <3>1. ASSUME NEW id \in Ids, ConsoleAdd(id) PROVE TypeInv'
      <4>1. [version |-> 0, limit |-> ConsoleLimit] \in Spot
        BY VersionsExist, LimitsExist DEF Spot
      <4>2. /\ spots' \in PartialFunctions(Ids, Spot)
            /\ DOMAIN spots \subseteq DOMAIN spots'
        <5> DEFINE spot == [version |-> 0, limit |-> ConsoleLimit]
        <5>1. spots' = With(spots, id, spot)
          BY <3>1 DEF ConsoleAdd
        <5>2. spot \in Spot
          BY <4>1
        <5> HIDE DEF spot, TypeInv, TypeOK
        <5> QED
          BY <5>1, <5>2, SpotsTable DEF TypeInv
      <4> QED
        BY <3>1, <4>2 DEF ConsoleAdd, ConsoleKey
    <3>2. CASE ConsoleClear
      BY <2>0, <3>2 DEF ConsoleClear, ConsoleKey
    <3>3. CASE ConsoleOpen \/ Mouse \/ ConsoleOther \/ ConsoleClose
      BY <3>3 DEF ConsoleOpen, Mouse, ConsoleOther, ConsoleClose, ConsoleKey
    <3> QED
      BY <2>12, <3>1, <3>2, <3>3 DEF ConsoleStep
  <2>13. ASSUME Stop,
                settingsFile' \in {settingsFile, params},
                UNCHANGED <<spotsFile, serverWhole>>
         PROVE  TypeInv'
    <3>1. stops' \in 0..MaxStops
      BY <2>13, SpotManagerAssumption DEF Stop
    <3>2. todo' \in Seq([id : Ids, whole : BOOLEAN])
      BY <2>13 DEF Stop, Forgotten
    <3> QED
      BY <2>0, <2>13, <3>1, <3>2 DEF Stop, Forgotten, Counts
  <2>14. CASE EndStep
    <3>1. CASE EndWriteSettings \/ EndFails
      BY <2>13, <3>1 DEF EndWriteSettings, EndFails
    <3>2. CASE End \/ EndOpenSpots \/ EndWriteSpots \/ EndServer
               \/ EndOpenSettings
      BY <2>0, <3>2 DEF End, EndOpenSpots, EndWriteSpots, EndServer,
                        EndOpenSettings
    <3> QED
      BY <2>14, <3>1, <3>2 DEF EndStep
  <2>15. ASSUME NEW id \in Ids, Detect(id) \/ Overstay(id)
         PROVE  TypeInv'
    BY <2>15 DEF Detect, Overstay
  <2>16. ASSUME NEW k, KeyExit(k) \/ KeyNobody(k) PROVE TypeInv'
    BY <2>13, <2>16 DEF KeyExit, KeyNobody
  <2>17. CASE Crash
    BY <2>13, <2>17 DEF Crash
  <2>18. CASE UNCHANGED vars
    BY <2>18 DEF vars
  <2> QED
    BY <2>1, <2>2, <2>3, <2>4, <2>5, <2>6, <2>7, <2>8, <2>9, <2>10, <2>11,
       <2>12, <2>14, <2>15, <2>16, <2>17, <2>18
       DEF Next, StartStep, UpdateStep
<1> QED
  BY <1>1, <1>2, PTL DEF Spec

\* Tables, files, sets and labels keep their types (readFromJSONFile,
\* updateParkingSpots, the console, the destructors).
THEOREM TypeCorrect == Spec => []TypeOK
<1>1. TypeInv => TypeOK
  BY DEF TypeInv
<1> QED
  BY <1>1, TypeInvCorrect, PTL

-----------------------------------------------------------------------------
\* Where time limits come from: an id that was in the file at one start has a
\* row, which the next start reads and updates consult.
LimitsInv ==
    /\ \A i \in Ids : starts[i] # 0 => i \in rows
    /\ pc = "read" =>
          /\ \A i \in Ids : starts[i] # 0 => i \in pulled
          /\ \A i \in DOMAIN spots : spots[i].limit = LimitOf(i)
    /\ pc \notin {"off", "read"} =>
          /\ \A i \in Ids : starts[i] = 2 => i \in pulled
          /\ \A i \in DOMAIN spots :
                starts[i] = 2 /\ spots[i].version # Junk => spots[i].limit # 0

\* A policy's limit is one; the console's is, too.
LEMMA LimitsCount ==
    /\ \A i \in pulled : LimitOf(i) # 0
    /\ ConsoleLimit # 0
BY SpotManagerAssumption DEF LimitOf, ConsoleLimit

\* A spot that has been through a start has a row, and through two a limit
\* (pullDB, createDB, readFromJSONFile).
THEOREM LimitsCorrect == Spec => []LimitsInv
<1>1. Init => LimitsInv
  BY DEF Init, LimitsInv, Nowhere
<1>2. TypeInv /\ SpotsInv /\ LimitsInv /\ [Next]_vars => LimitsInv'
  <2> SUFFICES ASSUME TypeInv, SpotsInv, LimitsInv, [Next]_vars
               PROVE  LimitsInv'
    OBVIOUS
  <2> USE DEF LimitsInv, files, history, memory
  <2>1. CASE Start
    <3>1. /\ pulled' = rows /\ pc' = "read"
          /\ UNCHANGED <<spots, rows, starts>>
      BY <2>1 DEF Start, PullDB
    <3>2. DOMAIN spots = {}
      BY <2>1 DEF Start, SpotsInv
    <3> QED
      BY <3>1, <3>2
  <2>2. ASSUME NEW id \in Ids, ReadElement(id) PROVE LimitsInv'
    <3> DEFINE spot == [version |-> spotsFile[id], limit |-> LimitOf(id)]
    <3>1. /\ spots' = With(spots, id, spot)
          /\ pc = "read" /\ pc' = "read"
          /\ rows \subseteq rows'
          /\ UNCHANGED <<pulled, starts>>
      BY <2>2 DEF ReadElement
    <3>2. spot.limit = LimitOf(id)
      OBVIOUS
    <3> HIDE DEF spot
    <3>3. \A i \in DOMAIN spots' : spots'[i].limit = LimitOf(i)
      <4>1. /\ DOMAIN spots' = DOMAIN spots \cup {id}
            /\ spots'[id] = spot
            /\ \A i \in DOMAIN spots \ {id} : spots'[i] = spots[i]
        BY <3>1 DEF With
      <4> QED
        BY <3>1, <3>2, <4>1
    <3>4. \A i : LimitOf(i)' = LimitOf(i)
      BY <3>1 DEF LimitOf
    <3> QED
      BY <3>1, <3>3, <3>4
  <2>3. CASE Started
    <3>1. /\ pc = "read" /\ pc' = "run" /\ UNCHANGED <<spots, rows, pulled>>
          /\ DOMAIN spots \subseteq Ids
      BY <2>3, PartialMember DEF Started, TypeInv, TypeOK
    <3>2. \A i \in Ids : /\ starts'[i] # 0 => i \in rows
                         /\ starts'[i] = 2 => starts[i] # 0
      <4>1. starts' = [i \in Ids |-> IF i \notin DOMAIN spots \cap rows
                                     THEN 0
                                     ELSE IF starts[i] = 2 THEN 2
                                     ELSE starts[i] + 1]
        BY <2>3 DEF Started
      <4>2. starts \in [Ids -> 0..2]
        BY DEF TypeInv, TypeOK
      <4>3. ASSUME NEW i \in Ids
            PROVE  /\ starts'[i] # 0 => i \in rows
                   /\ starts'[i] = 2 => starts[i] # 0
        <5>1. CASE i \notin DOMAIN spots \cap rows
          BY <4>1, <5>1
        <5>2. CASE i \in DOMAIN spots \cap rows /\ starts[i] = 2
          BY <4>1, <5>2
        <5>3. CASE i \in DOMAIN spots \cap rows /\ starts[i] # 2
          BY <4>1, <4>2, <5>3
        <5> QED
          BY <5>1, <5>2, <5>3
      <4> QED
        BY <4>3
    <3>3. \A i \in Ids : starts'[i] # 0 => i \in rows'
      BY <3>1, <3>2
    <3>4. \A i \in Ids : starts'[i] = 2 => i \in pulled'
      BY <3>1, <3>2
    <3>5. ASSUME NEW i \in DOMAIN spots, starts'[i] = 2
          PROVE  spots[i].limit # 0
      BY <3>1, <3>4, <3>5, LimitsCount
    <3> QED
      BY <3>1, <3>3, <3>4, <3>5
  <2>4. CASE UpdateSpot
    <3>1. Head(todo) \in Elems
      <4>1. todo \in Seq(Elems) /\ todo # <<>>
        BY <2>4 DEF UpdateSpot, Elems, TypeInv, TypeOK
      <4> QED
        BY <4>1
    <3>2. PICK e \in Reading(Head(todo)) :
             spots' = IF e.id \in busy
                      THEN spots
                      ELSE With(spots, e.id, [version |-> e.version,
                                              limit   |-> e.limit])
      BY <2>4 DEF UpdateSpot
    <3>3. /\ pc = "spots" /\ pc' = "spots"
          /\ UNCHANGED <<rows, pulled, starts>>
      BY <2>4 DEF UpdateSpot
    <3>4. /\ e.id \in Ids
          /\ Head(todo).whole => e.limit = LimitOf(e.id)
          /\ ~Head(todo).whole => e.version = Junk
      BY <3>1, <3>2, ReadingType DEF TypeInv, TypeOK
    <3>5. starts[e.id] = 2 /\ e.version # Junk => e.limit # 0
      BY <3>3, <3>4, LimitsCount
    <3> DEFINE spot == [version |-> e.version, limit |-> e.limit]
    <3>6. spot.version = e.version /\ spot.limit = e.limit
      OBVIOUS
    <3>7. spots' = spots \/ spots' = With(spots, e.id, spot)
      BY <3>2
    <3> HIDE DEF spot
    <3>8. \A i \in DOMAIN spots' :
             starts[i] = 2 /\ spots'[i].version # Junk => spots'[i].limit # 0
      <4>1. CASE spots' = spots
        BY <3>3, <4>1
      <4>2. CASE spots' = With(spots, e.id, spot)
        <5>1. /\ DOMAIN spots' = DOMAIN spots \cup {e.id}
              /\ spots'[e.id] = spot
              /\ \A i \in DOMAIN spots \ {e.id} : spots'[i] = spots[i]
          BY <4>2 DEF With
        <5> QED
          BY <3>3, <3>5, <3>6, <5>1
      <4> QED
        BY <3>7, <4>1, <4>2
    <3> QED
      BY <3>3, <3>8
  <2>5. ASSUME NEW id \in Ids, ConsoleAdd(id) PROVE LimitsInv'
    <3> DEFINE spot == [version |-> 0, limit |-> ConsoleLimit]
    <3>1. /\ spots' = With(spots, id, spot)
          /\ pc = "console" /\ pc' = "console"
          /\ UNCHANGED <<rows, pulled, starts>>
      BY <2>5 DEF ConsoleAdd, ConsoleKey
    <3>2. spot.limit # 0
      BY LimitsCount
    <3> HIDE DEF spot
    <3>3. /\ DOMAIN spots' = DOMAIN spots \cup {id}
          /\ spots'[id] = spot
          /\ \A i \in DOMAIN spots \ {id} : spots'[i] = spots[i]
      BY <3>1 DEF With
    <3> QED
      BY <3>1, <3>2, <3>3
  <2>6. ASSUME /\ UNCHANGED <<rows, pulled, starts>>
               /\ spots' = spots \/ \E R : spots' = Without(spots, R)
                                 \/ spots' = Nowhere
               /\ pc \notin {"off", "read"} /\ pc' \notin {"off", "read"}
        PROVE  LimitsInv'
    BY <2>6 DEF Without, Nowhere
  <2>7. ASSUME NEW r \in Requests, UpdateBegin(r) PROVE LimitsInv'
    BY <2>6, <2>7 DEF UpdateBegin
  <2>8. CASE UpdateThrows \/ UpdateEmpty \/ UpdateParams
             \/ UpdateSettingsWritten \/ UpdateThresholds
    BY <2>6, <2>8 DEF UpdateThrows, UpdateEmpty, UpdateParams,
                      UpdateSettingsWritten, UpdateThresholds
  <2>9. CASE UpdateErase \/ UpdateSpotsWritten \/ Resume
    BY <2>6, <2>9 DEF UpdateErase, UpdateSpotsWritten, Resume
  <2>10. CASE ConsoleOpen \/ Mouse \/ ConsoleClear \/ ConsoleOther
              \/ ConsoleClose
    BY <2>6, <2>10 DEF ConsoleOpen, Mouse, ConsoleClear, ConsoleOther,
                       ConsoleClose, ConsoleKey
  <2>11. CASE End \/ EndOpenSpots \/ EndWriteSpots \/ EndServer
              \/ EndOpenSettings
    BY <2>6, <2>11 DEF End, EndOpenSpots, EndWriteSpots, EndServer,
                       EndOpenSettings
  <2>12. ASSUME NEW id \in Ids, Detect(id) \/ Overstay(id)
         PROVE  LimitsInv'
    <3>1. UNCHANGED <<pc, spots, rows, pulled, starts>>
      BY <2>12 DEF Detect, Overstay
    <3> QED
      BY <3>1 DEF LimitOf
  <2>13. ASSUME Stop PROVE LimitsInv'
    BY <2>13 DEF Stop, Forgotten, Nowhere
  <2>14. CASE EndWriteSettings \/ EndFails \/ Crash
    BY <2>13, <2>14 DEF EndWriteSettings, EndFails, Crash
  <2>15. ASSUME NEW k, KeyExit(k) \/ KeyNobody(k) PROVE LimitsInv'
    BY <2>6, <2>13, <2>15 DEF KeyExit, KeyNobody
  <2>16. CASE UNCHANGED vars
    BY <2>16 DEF vars, LimitOf
  <2> QED
    BY <2>1, <2>2, <2>3, <2>4, <2>5, <2>7, <2>8, <2>9, <2>10, <2>11,
       <2>12, <2>14, <2>15, <2>16
       DEF Next, StartStep, UpdateStep, ConsoleStep, EndStep
<1> QED
  BY <1>1, <1>2, TypeInvCorrect, SpotsCorrect, PTL DEF Spec

\* A spot that has been in the file at two starts in a row has a time limit,
\* whoever changes it (pullDB, insertDB, readFromJSONFile, updateParkingSpots).
THEOREM LimitsConvergeCorrect == Spec => []LimitsConverge
<1>1. LimitsInv => LimitsConverge
  BY DEF LimitsInv, LimitsConverge
<1> QED
  BY <1>1, LimitsCorrect, PTL

-----------------------------------------------------------------------------
Whole(r) == \A i \in DOMAIN r.elems : r.elems[i].whole
IdsOf(r) == {r.elems[i].id : i \in DOMAIN r.elems}

\* The memory holds these ids, each as update n gave it, or skipped by it.
Gave(n, ids, skipped) ==
    /\ DOMAIN spots = ids
    /\ \A i \in ids : spots[i].version = n \/ i \in skipped

\* What is read of a request so far.
ReadSoFar ==
    /\ \A k \in DOMAIN todo :
          \E i \in DOMAIN request.elems : todo[k] = request.elems[i]
    /\ Whole(request) =>
          /\ \A i \in DOMAIN request.elems :
                \/ request.elems[i].id \in updated
                \/ \E k \in DOMAIN todo : todo[k] = request.elems[i]
          /\ updated \subseteq IdsOf(request) \cap DOMAIN spots
          /\ \A id \in updated : spots[id].version = updates \/ id \in held

\* The file of the spots holds what the last complete request gave.
FileHolds ==
    /\ DOMAIN spotsFile = granted.ids
    /\ \A i \in granted.ids :
          spotsFile[i] = granted.number \/ i \in granted.busy

\* The last complete request, from its elements to the memory, to the file and
\* back.
GrantInv ==
    /\ pc \in Updating \cup {"lost"} => granted = NoUpdate
    /\ pc \in Updating => busy \subseteq held
    /\ pc = "spots" => ReadSoFar
    /\ pc \in {"spotsFill", "resume"} /\ Whole(request) =>
          Gave(updates, IdsOf(request), held)
    /\ pc \in {"run", "console"} \cup Ending /\ granted # NoUpdate =>
          Gave(granted.number, granted.ids, granted.busy)
    /\ pc \in {"off", "read"} /\ granted # NoUpdate => "spots" \notin unsaved
    /\ granted # NoUpdate /\ "spots" \notin unsaved /\ spotsFile # Torn
          => FileHolds

\* One element is read: it was the first that was left, and it is what its
\* spot holds now.
LEMMA ReadOne ==
    ASSUME TypeInv, ReadSoFar, UpdateSpot, pc = "spots",
           busy \subseteq held
    PROVE  ReadSoFar'
<1>1. /\ todo \in Seq(Elems) /\ todo # <<>> /\ todo' = Tail(todo)
      /\ UNCHANGED <<busy, held, request, updates>>
  BY DEF UpdateSpot, history, TypeInv, TypeOK, Elems
<1>2. /\ Head(todo) = todo[1] /\ 1 \in DOMAIN todo /\ Head(todo) \in Elems
      /\ \A k \in DOMAIN todo' : k + 1 \in DOMAIN todo /\ todo'[k] = todo[k + 1]
      /\ \A k \in DOMAIN todo \ {1} :
            k - 1 \in DOMAIN todo' /\ todo'[k - 1] = todo[k]
  BY <1>1
<1>3. \A k \in DOMAIN todo' :
         \E i \in DOMAIN request'.elems : todo'[k] = request'.elems[i]
  BY <1>1, <1>2 DEF ReadSoFar
<1>4. ASSUME Whole(request)
      PROVE  /\ \A i \in DOMAIN request.elems :
                   \/ request.elems[i].id \in updated'
                   \/ \E k \in DOMAIN todo' : todo'[k] = request.elems[i]
             /\ updated' \subseteq IdsOf(request) \cap DOMAIN spots'
             /\ \A id \in updated' : spots'[id].version = updates \/ id \in held
  <2>1. PICK e \in Reading(Head(todo)) :
           /\ updated' = updated \cup {e.id}
           /\ spots' = IF e.id \in busy
                       THEN spots
                       ELSE With(spots, e.id, [version |-> e.version,
                                               limit   |-> e.limit])
    BY DEF UpdateSpot
  <2>2. PICK j \in DOMAIN request.elems : Head(todo) = request.elems[j]
    BY <1>2 DEF ReadSoFar
  <2>3. Head(todo).whole
    BY <1>4, <2>2 DEF Whole
  <2>4. e.id = Head(todo).id /\ e.version = updates
    BY <1>2, <2>1, <2>3, ReadingType DEF TypeInv, TypeOK
  <2>5. e.id \in IdsOf(request)
    BY <2>2, <2>4 DEF IdsOf
  <2>6. ASSUME NEW i \in DOMAIN request.elems,
               request.elems[i].id \notin updated'
        PROVE  \E k \in DOMAIN todo' : todo'[k] = request.elems[i]
    <3>1. PICK k \in DOMAIN todo : todo[k] = request.elems[i]
      BY <1>4, <2>1, <2>6 DEF ReadSoFar
    <3>2. k # 1
      BY <1>2, <2>1, <2>4, <2>6, <3>1
    <3> QED
      BY <1>2, <3>1, <3>2
  <2>7. busy \subseteq DOMAIN spots
    BY DEF TypeInv, TypeOK
  <2>8. /\ DOMAIN spots' = DOMAIN spots \cup {e.id}
        /\ spots'[e.id].version = updates \/ e.id \in held
        /\ \A i \in DOMAIN spots \ {e.id} : spots'[i] = spots[i]
    <3> DEFINE spot == [version |-> e.version, limit |-> e.limit]
    <3>1. CASE e.id \in busy
      BY <2>1, <2>7, <3>1
    <3>2. CASE e.id \notin busy
      <4>1. spots' = With(spots, e.id, spot) /\ spot.version = updates
        BY <2>1, <2>4, <3>2
      <4> HIDE DEF spot
      <4> QED
        BY <4>1 DEF With
    <3> QED
      BY <3>1, <3>2
  <2>9. updated' \subseteq IdsOf(request) \cap DOMAIN spots'
    BY <1>4, <2>1, <2>5, <2>8 DEF ReadSoFar
  <2>10. ASSUME NEW id \in updated'
         PROVE  spots'[id].version = updates \/ id \in held
    BY <1>4, <2>1, <2>8 DEF ReadSoFar
  <2> QED
    BY <2>6, <2>9, <2>10
<1> QED
  BY <1>1, <1>3, <1>4 DEF ReadSoFar, Whole, IdsOf

\* All elements are read: the spots that are left are those of the request.
LEMMA AllRead ==
    ASSUME TypeInv, ReadSoFar, todo = <<>>, Whole(request),
           spots' = Without(spots, DOMAIN spots \ updated),
           UNCHANGED <<updates, request, held>>
    PROVE  Gave(updates, IdsOf(request), held)'
<1>1. updated = IdsOf(request) /\ updated \subseteq DOMAIN spots
  BY DEF ReadSoFar, IdsOf
<1>2. /\ DOMAIN spots' = updated
      /\ \A i \in updated : spots'[i] = spots[i]
  BY <1>1 DEF Without
<1>3. \A i \in updated : spots[i].version = updates \/ i \in held'
  BY DEF ReadSoFar
<1>4. IdsOf(request)' = IdsOf(request)
  BY DEF IdsOf
<1> QED
  BY <1>1, <1>2, <1>3, <1>4 DEF Gave

\* What memory holds is what a file that was written from it holds.
LEMMA WrittenHolds ==
    ASSUME Gave(granted.number, granted.ids, granted.busy),
           spotsFile = VersionsOf(spots)
    PROVE  FileHolds
BY DEF Gave, FileHolds, VersionsOf

\* A complete request stays granted, in memory and in the file, until the
\* spots are changed otherwise (updateParkingSpots, readFromJSONFile).
THEOREM GrantCorrect == Spec => []GrantInv
<1>1. Init => GrantInv
  BY DEF Init, GrantInv, Updating, Ending
<1>2. TypeInv /\ SpotsInv /\ GrantInv /\ [Next]_vars => GrantInv'
  <2> SUFFICES ASSUME TypeInv, SpotsInv, GrantInv, [Next]_vars
               PROVE  GrantInv'
    OBVIOUS
  <2> USE DEF Updating, Ending, files, history, memory
  <2>1. ASSUME UNCHANGED <<granted, unsaved, spotsFile>>,
               \/ pc' \in {"off", "read"} /\ pc \in {"off", "read"}
               \/ /\ UNCHANGED spots
                  /\ pc \in {"run", "console"} \cup Ending
                  /\ pc' \in {"run", "console"} \cup Ending
               \/ /\ pc \in Updating
                  /\ pc' \in {"params", "settingsFill", "thresholds", "lost"}
                  /\ UNCHANGED <<busy, held>>
        PROVE  GrantInv'
    BY <2>1 DEF GrantInv, Gave, FileHolds
  <2>2. CASE Start \/ \E id \in Ids : ReadElement(id)
    BY <2>1, <2>2 DEF Start, ReadElement
  <2>3. CASE Started
    <3>1. /\ pc = "read" /\ pc' = "run" /\ UNCHANGED <<spots, spotsFile>>
          /\ granted' = IF spotsFile = Torn THEN NoUpdate ELSE granted
          /\ Unread = {}
      BY <2>3 DEF Started
    <3>2. ASSUME granted' # NoUpdate
          PROVE  FileHolds' /\ Gave(granted.number, granted.ids, granted.busy)'
      <4>1. /\ spotsFile # Torn /\ granted' = granted /\ FileHolds
        BY <3>1, <3>2 DEF GrantInv
      <4>2. /\ DOMAIN spots = DOMAIN spotsFile
            /\ \A i \in DOMAIN spots : spotsFile[i] = spots[i].version
        BY <3>1, <4>1 DEF Unread, SpotsInv
      <4> QED
        BY <3>1, <4>1, <4>2 DEF Gave, FileHolds
    <3> QED
      BY <3>1, <3>2 DEF GrantInv
  <2>4. ASSUME NEW r \in Requests, UpdateBegin(r) PROVE GrantInv'
    BY <2>4 DEF UpdateBegin, GrantInv
  <2>5. CASE UpdateThrows
    BY <2>1, <2>5 DEF UpdateThrows
  <2>6. CASE UpdateParams \/ UpdateSettingsWritten
    BY <2>6 DEF UpdateParams, UpdateSettingsWritten, GrantInv
  <2>7. ASSUME /\ pc \in Updating /\ pc' = "resume"
               /\ request.elems = <<>> /\ spots' = Nowhere
               /\ busy' = {} /\ UNCHANGED <<granted, request>>
        PROVE  GrantInv'
    <3>1. IdsOf(request)' = {}
      BY <2>7 DEF IdsOf
    <3>2. DOMAIN spots' = {}
      BY <2>7 DEF Nowhere
    <3>3. Gave(updates, IdsOf(request), held)'
      BY <3>1, <3>2 DEF Gave
    <3> QED
      BY <2>7, <3>3 DEF GrantInv
  <2>8. CASE UpdateEmpty
    BY <2>7, <2>8 DEF UpdateEmpty
  <2>9. CASE UpdateThresholds
    <3>1. CASE request.elems = <<>>
      BY <2>7, <2>9, <3>1 DEF UpdateThresholds
    <3>2. CASE request.elems # <<>>
      <4>1. /\ pc = "thresholds" /\ pc' = "spots" /\ todo' = request.elems
            /\ updated' = {} /\ UNCHANGED <<request, granted, busy, held>>
        BY <2>9, <3>2 DEF UpdateThresholds
      <4>2. ReadSoFar'
        BY <4>1 DEF ReadSoFar
      <4> QED
        BY <4>1, <4>2 DEF GrantInv
    <3> QED
      BY <3>1, <3>2
  <2>10. CASE UpdateSpot
    <3>1. pc = "spots" /\ pc' = "spots" /\ UNCHANGED <<granted, busy, held>>
      BY <2>10 DEF UpdateSpot
    <3>2. ReadSoFar'
      BY <2>10, <3>1, ReadOne DEF GrantInv
    <3> QED
      BY <3>1, <3>2 DEF GrantInv
  <2>11. CASE UpdateErase
    <3>1. /\ pc = "spots" /\ pc' \in {"spotsFill", "lost"} /\ todo = <<>>
          /\ spots' = Without(spots, DOMAIN spots \ updated)
          /\ busy' = busy \cap updated
          /\ UNCHANGED <<granted, updates, request, held>>
      BY <2>11 DEF UpdateErase
    <3>2. ReadSoFar /\ (Whole(request)' <=> Whole(request))
      BY <3>1 DEF GrantInv, Whole
    <3>3. Whole(request) => Gave(updates, IdsOf(request), held)'
      BY <3>1, <3>2, AllRead
    <3> QED
      BY <3>1, <3>2, <3>3 DEF GrantInv
  <2>12. CASE UpdateSpotsWritten
    <3>1. /\ pc = "spotsFill" /\ pc' = "resume"
          /\ UNCHANGED <<spots, busy, held, request, updates, granted>>
      BY <2>12 DEF UpdateSpotsWritten
    <3> QED
      BY <3>1 DEF GrantInv, Gave, Whole, IdsOf
  <2>13. CASE Resume
    <3>1. /\ pc = "resume" /\ pc' = "run"
          /\ UNCHANGED <<spots, busy, updates, unsaved, spotsFile>>
          /\ granted' = IF Whole(request)
                        THEN [number |-> updates, ids |-> IdsOf(request),
                              busy |-> held]
                        ELSE NoUpdate
      BY <2>13 DEF Resume, Whole, IdsOf
    <3>2. CASE ~Whole(request)
      BY <3>1, <3>2 DEF GrantInv
    <3>3. CASE Whole(request)
      <4>1. /\ granted'.number = updates /\ granted'.ids = IdsOf(request)
            /\ granted'.busy = held
        BY <3>1, <3>3
      <4>2. Gave(updates, IdsOf(request), held)
        BY <3>1, <3>3 DEF GrantInv
      <4>3. Gave(granted.number, granted.ids, granted.busy)'
        BY <3>1, <4>1, <4>2 DEF Gave
      <4>4. "spots" \notin unsaved' /\ spotsFile' # Torn => FileHolds'
        <5> SUFFICES ASSUME "spots" \notin unsaved', spotsFile' # Torn
                     PROVE  FileHolds'
          OBVIOUS
        <5>1. spotsFile' = VersionsOf(spots')
          BY <3>1 DEF SpotsInv, Settled
        <5> QED
          BY <4>3, <5>1 DEF Gave, FileHolds, VersionsOf
      <4> QED
        BY <3>1, <4>3, <4>4 DEF GrantInv
    <3> QED
      BY <3>2, <3>3
  <2>14. CASE ConsoleOpen \/ Mouse \/ ConsoleOther \/ ConsoleClose
    BY <2>1, <2>14 DEF ConsoleOpen, Mouse, ConsoleOther, ConsoleClose,
                       ConsoleKey
  <2>15. CASE ConsoleClear \/ \E id \in Ids : ConsoleAdd(id)
    BY <2>15 DEF ConsoleAdd, ConsoleClear, ConsoleKey, GrantInv
  <2>16. CASE End \/ EndServer \/ EndOpenSettings
    BY <2>1, <2>16 DEF End, EndServer, EndOpenSettings
  <2>17. CASE EndOpenSpots
    BY <2>17 DEF EndOpenSpots, GrantInv, Gave
  <2>18. CASE EndWriteSpots
    <3>1. /\ pc = "endSpotsFill" /\ pc' = "endServer"
          /\ spotsFile' = VersionsOf(spots) /\ UNCHANGED <<spots, granted>>
      BY <2>18 DEF EndWriteSpots
    <3>2. granted # NoUpdate =>
             Gave(granted.number, granted.ids, granted.busy)'
      BY <3>1 DEF GrantInv, Gave
    <3>3. granted # NoUpdate => FileHolds'
      BY <3>1, <3>2 DEF Gave, FileHolds, VersionsOf
    <3> QED
      BY <3>1, <3>2, <3>3 DEF GrantInv
  <2>19. ASSUME Stop, UNCHANGED spotsFile PROVE GrantInv'
    <3>1. /\ pc' = "off" /\ UNCHANGED <<spotsFile, unsaved>>
          /\ granted' = IF "spots" \in unsaved THEN NoUpdate ELSE granted
      BY <2>19 DEF Stop
    <3> QED
      BY <3>1 DEF GrantInv, FileHolds
  <2>20. CASE EndWriteSettings \/ EndFails \/ Crash
    BY <2>19, <2>20 DEF EndWriteSettings, EndFails, Crash
  <2>21. ASSUME NEW k, KeyExit(k) \/ KeyNobody(k) PROVE GrantInv'
    BY <2>1, <2>19, <2>21 DEF KeyExit, KeyNobody
  <2>22. ASSUME NEW id \in Ids, Detect(id) \/ Overstay(id)
         PROVE  GrantInv'
    <3>1. CASE Detect(id)
      BY <2>1, <3>1 DEF Detect
    <3>2. CASE Overstay(id)
      <4>1. /\ busy' \subseteq busy
            /\ UNCHANGED <<pc, spots, request, todo, updated, spotsFile,
                           updates, unsaved, held, granted>>
        BY <3>2 DEF Overstay
      <4> QED
        BY <4>1 DEF GrantInv, Gave, FileHolds, ReadSoFar, Whole, IdsOf
    <3> QED
      BY <2>22, <3>1, <3>2
  <2>23. CASE UNCHANGED vars
    BY <2>23 DEF vars, GrantInv, Gave, FileHolds, ReadSoFar, Whole, IdsOf
  <2> QED
    BY <2>2, <2>3, <2>4, <2>5, <2>6, <2>8, <2>9, <2>10, <2>11, <2>12,
       <2>13, <2>14, <2>15, <2>16, <2>17, <2>18, <2>20, <2>21, <2>22, <2>23
       DEF Next, StartStep, UpdateStep, ConsoleStep, EndStep
<1> QED
  BY <1>1, <1>2, TypeInvCorrect, SpotsCorrect, PTL DEF Spec

\* The spots are those of the last complete request, in this process and after
\* any restart (TCPSocketListener::update, updateParkingSpots,
\* readFromJSONFile, writeToJSONFile).
THEOREM RequestHonouredCorrect == Spec => []RequestHonoured
<1>1. GrantInv => RequestHonoured
  BY DEF GrantInv, RequestHonoured, Gave
<1> QED
  BY <1>1, GrantCorrect, PTL
=============================================================================
