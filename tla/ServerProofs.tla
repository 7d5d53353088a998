---------------------------- MODULE ServerProofs ------------------------------
(*****************************************************************************)
(* The invariants of MCServer, for every value of its constants: the         *)
(* inductive invariant of each component, which is more than the property    *)
(* the run checks, and then the server, in which one component takes each    *)
(* step.  The gateway's own theorems are in its module.                      *)
(*****************************************************************************)
EXTENDS MCServer, FiniteSetTheorems, WellFoundedInduction, TLAPS

-----------------------------------------------------------------------------
(*****************************************************************************)
(* What apps store.  Until the move to the new layout is over nothing is     *)
(* served, so a value is in the old file, in the new one, or half copied     *)
(* with its old file still there.                                            *)
(*****************************************************************************)
Moving ==
  /\ moves \subseteq Data!Movable
  /\ up # "migrating" => moves = {} /\ copying = Data!None
  /\ copying # Data!None => copying \in moves /\ new[copying] # Data!Absent
  /\ copying # Data!None => new[copying] \in {Data!Half, old[copying]}

\* Nothing is served before the move is over.
Unread == up # "up" => \A c \in Data!Cached : memory[c] = Data!None

Profiled ==
  /\ old["profile"] = Data!Absent /\ new["profile"] # Data!Half
  /\ removing # {} => up = "up" /\ Data!Whole(new["profile"])

Marking ==
  up = "migrating" /\ ~failed =>
    \A k \in Data!Keys \ Odd : k \in moves \/ old[k] = Data!Absent \/ new[k] # Data!Absent
        \/ k \in LegacyKeys

DataInv ==
  Data!DataTypeOK /\ Moving /\ Unread /\ Profiled /\ Marking /\ Data!NothingIsLost
      /\ Data!MarkedMeansMoved /\ Data!ServedIsStored

LEMMA DataStarts == Data!DataInit => DataInv
<1> USE DataAssumption DEF Data!DataInit, Data!Movable, Data!Keys, Data!Cached, Data!Files,
     Data!Whole, Data!Absent, Data!Half, Data!Legacy, Data!None
<1> SUFFICES ASSUME Data!DataInit PROVE DataInv
  OBVIOUS
<1>1. Data!DataTypeOK
  <2>1. old \in [Data!Keys -> {Data!Absent, Data!Legacy}]
    OBVIOUS
  <2>2. new \in [Data!Keys -> Data!Files]
    OBVIOUS
  <2>3. memory \in [Data!Cached -> Data!Files \cup {Data!None}]
    OBVIOUS
  <2>4. writes \in 0..MaxWrites /\ failures \in 0..MaxFailures /\ dataCrashes \in 0..MaxCrashes
    OBVIOUS
  <2>5. marked \in BOOLEAN /\ failed \in BOOLEAN /\ moves \subseteq Data!Keys
      /\ copying \in Data!Keys \cup {Data!None}
    OBVIOUS
  <2>6. up \in {"down", "migrating", "loading", "up"} /\ removing \subseteq LegacyKeys
      /\ unsaved \subseteq Data!Cached
    OBVIOUS
  <2> HIDE DEF Data!DataInit
  <2> QED BY <2>1, <2>2, <2>3, <2>4, <2>5, <2>6 DEF Data!DataTypeOK
<1>2. Moving /\ Unread /\ Profiled /\ Marking BY DEF Moving, Unread, Profiled, Marking
<1>3. Data!NothingIsLost /\ Data!MarkedMeansMoved /\ Data!ServedIsStored BY
   DEF Data!NothingIsLost, Data!MarkedMeansMoved, Data!ServedIsStored
<1> QED BY <1>1, <1>2, <1>3 DEF DataInv

LEMMA DataSteps == DataInv /\ [Data!DataNext]_dataVars => DataInv'
<1> SUFFICES ASSUME DataInv, [Data!DataNext]_dataVars PROVE DataInv'
  OBVIOUS
<1> USE DataAssumption DEF DataInv, Data!DataTypeOK, Moving, Unread, Profiled, Marking,
     Data!NothingIsLost, Data!MarkedMeansMoved, Data!ServedIsStored, Data!Movable, Data!Keys,
     Data!Cached, Data!Files, Data!Whole, Data!Absent, Data!Half, Data!Legacy, Data!None,
     Data!Loaded, Data!moveVars, Data!cacheVars, Data!bounds
<1>1. CASE UNCHANGED dataVars
  BY <1>1 DEF DataInv, dataVars
<1>2. CASE Data!StartServer
  <2> USE <1>2 DEF Data!StartServer
  <2>1. Data!DataTypeOK'
    OBVIOUS
  <2>2. Moving'
    OBVIOUS
  <2>3. Unread'
    OBVIOUS
  <2>4. Profiled'
    OBVIOUS
  <2>5. Marking'
    OBVIOUS
  <2>6. Data!NothingIsLost'
    OBVIOUS
  <2>7. Data!MarkedMeansMoved'
    OBVIOUS
  <2>8. Data!ServedIsStored'
    OBVIOUS
  <2> QED BY <2>1, <2>2, <2>3, <2>4, <2>5, <2>6, <2>7, <2>8 DEF DataInv
<1>3. CASE Data!Conflict
  BY <1>3 DEF Data!Conflict
<1>4. CASE Data!Rename
  <2> USE <1>4 DEF Data!Rename
  <2>1. Data!DataTypeOK'
    OBVIOUS
  <2>2. Moving'
    OBVIOUS
  <2>3. Unread'
    OBVIOUS
  <2>4. Profiled'
    OBVIOUS
  <2>5. Marking'
    OBVIOUS
  <2>6. Data!NothingIsLost'
    OBVIOUS
  <2>7. Data!MarkedMeansMoved'
    OBVIOUS
  <2>8. Data!ServedIsStored'
    OBVIOUS
  <2> QED BY <2>1, <2>2, <2>3, <2>4, <2>5, <2>6, <2>7, <2>8 DEF DataInv
<1>5. CASE Data!CopyBegins
  BY <1>5 DEF Data!CopyBegins
<1>6. CASE Data!CopyEnds
  <2> USE <1>6 DEF Data!CopyEnds
  <2>1. Data!DataTypeOK'
    OBVIOUS
  <2>2. Moving'
    OBVIOUS
  <2>3. Unread'
    OBVIOUS
  <2>4. Profiled'
    OBVIOUS
  <2>5. Marking'
    OBVIOUS
  <2>6. Data!NothingIsLost'
    OBVIOUS
  <2>7. Data!MarkedMeansMoved'
    OBVIOUS
  <2>8. Data!ServedIsStored'
    OBVIOUS
  <2> QED BY <2>1, <2>2, <2>3, <2>4, <2>5, <2>6, <2>7, <2>8 DEF DataInv
<1>7. CASE Data!CopyRemoved
  BY <1>7 DEF Data!CopyRemoved
<1>8. CASE Data!MoveFails
  BY <1>8 DEF Data!MoveFails, Data!Fails
<1>9. CASE Data!Mark
  BY <1>9 DEF Data!Mark
<1>10. CASE Data!ConvertLegacy
  BY <1>10 DEF Data!ConvertLegacy, Data!LegacyProfile, Data!Idle
<1>11. CASE Data!RemoveLegacyKey
  BY <1>11 DEF Data!RemoveLegacyKey
<1>12. CASE Data!SaveProfile
  BY <1>12 DEF Data!SaveProfile, Data!Idle, Data!Writes
<1>13. CASE Data!SetSettings
  BY <1>13 DEF Data!SetSettings, Data!Idle, Data!Writes
<1>14. CASE Data!LoadConfig
  BY <1>14 DEF Data!LoadConfig
<1>15. CASE Data!GetDevice
  BY <1>15 DEF Data!GetDevice, Data!Idle
<1>16. ASSUME NEW c \in Data!Cached, Data!Update(c)
       PROVE DataInv'
  <2> USE <1>16 DEF Data!Update, Data!Persist, Data!Idle, Data!Writes, Data!Fails
  <2>1. Data!DataTypeOK'
    <3>1. PICK v \in Values : memory' = [memory EXCEPT ![c] = v] /\ Data!Persist(c, v)
      OBVIOUS
    <3>2. memory' \in [Data!Cached -> Data!Files \cup {Data!None}]
      <4>1. v \in Data!Files \cup {Data!None}
        BY DEF Data!Files
      <4>2. memory \in [Data!Cached -> Data!Files \cup {Data!None}]
        BY DEF DataInv, Data!DataTypeOK
      <4> HIDE DEF Data!Files, Data!Cached, Data!None, DataInv
      <4> QED BY <3>1, <4>1, <4>2, Zenon
    <3>4. new' \in [Data!Keys -> Data!Files]
      <4>1. v \in Data!Files /\ c \in Data!Keys
        BY DEF Data!Files, Data!Keys
      <4>2. new \in [Data!Keys -> Data!Files]
        BY DEF DataInv, Data!DataTypeOK
      <4> HIDE DEF Data!Files, Data!Keys, DataInv
      <4> QED BY <3>1, <4>1, <4>2 DEF Data!Persist
    <3>5. unsaved' \subseteq Data!Cached
      <4>1. unsaved \subseteq Data!Cached
        BY DEF DataInv, Data!DataTypeOK
      <4> HIDE DEF Data!Cached, DataInv
      <4> QED BY <3>1, <4>1 DEF Data!Persist
    <3>3. failures' \in 0..MaxFailures /\ dataCrashes' \in 0..MaxCrashes
      BY <3>1
    <3> QED BY <3>2, <3>3, <3>4, <3>5
  <2>2. Moving'
    OBVIOUS
  <2>3. Unread'
    OBVIOUS
  <2>4. Profiled'
    OBVIOUS
  <2>5. Marking'
    OBVIOUS
  <2>6. Data!NothingIsLost'
    OBVIOUS
  <2>7. Data!MarkedMeansMoved'
    OBVIOUS
  <2>8. Data!ServedIsStored'
    OBVIOUS
  <2> QED BY <2>1, <2>2, <2>3, <2>4, <2>5, <2>6, <2>7, <2>8 DEF DataInv
<1>17. CASE Data!Crash
  <2> USE <1>17 DEF Data!Crash
  <2>1. Data!DataTypeOK'
    <3>1. memory' \in [Data!Cached -> Data!Files \cup {Data!None}] /\ unsaved' \subseteq Data!Cached
      OBVIOUS
    <3>2. new' \in [Data!Keys -> Data!Files]
      OBVIOUS
    <3>3. writes' \in 0..MaxWrites
      OBVIOUS
    <3>4. failures' \in 0..MaxFailures
      OBVIOUS
    <3>5. dataCrashes' \in 0..MaxCrashes
      OBVIOUS
    <3> QED BY <3>1, <3>2, <3>3, <3>4, <3>5
  <2>2. Moving'
    OBVIOUS
  <2>3. Unread'
    OBVIOUS
  <2>4. Profiled'
    OBVIOUS
  <2>5. Marking'
    OBVIOUS
  <2>6. Data!NothingIsLost'
    OBVIOUS
  <2>7. Data!MarkedMeansMoved'
    OBVIOUS
  <2>8. Data!ServedIsStored'
    OBVIOUS
  <2> QED BY <2>1, <2>2, <2>3, <2>4, <2>5, <2>6, <2>7, <2>8 DEF DataInv
<1> QED
  BY <1>1, <1>2, <1>3, <1>4, <1>5, <1>6, <1>7, <1>8, <1>9, <1>10, <1>11, <1>12, <1>13, <1>14,
       <1>15, <1>16, <1>17 DEF Data!DataNext, Data!UpdateDevice, Data!UpdateConfig, Data!Cached

LEMMA NewerStep == DataInv /\ [Data!DataNext]_dataVars
    => \A k \in Data!Keys \ LegacyKeys : new[k] \in Values => new'[k] \in Values
<1> SUFFICES ASSUME DataInv, Data!DataNext, NEW k \in Data!Keys \ LegacyKeys, new[k] \in Values
    PROVE new'[k] \in Values
  BY DEF dataVars
<1> USE DataAssumption DEF DataInv, Data!DataTypeOK, Moving, Profiled, Data!Keys, Data!Cached,
     Data!Absent, Data!Half, Data!Legacy, Data!None
<1> QED BY DEF Data!DataNext, Data!StartServer, Data!Conflict, Data!Rename, Data!CopyBegins,
     Data!CopyEnds, Data!CopyRemoved, Data!MoveFails, Data!Mark, Data!ConvertLegacy,
     Data!RemoveLegacyKey, Data!SaveProfile, Data!SetSettings, Data!LoadConfig,
     Data!GetDevice, Data!UpdateDevice, Data!UpdateConfig, Data!Update, Data!Persist, Data!Crash

-----------------------------------------------------------------------------
(*****************************************************************************)
(* The life of the server.  Each stage of its start and stop fixes where the *)
(* drivers and the sockets are; what starts late finds the stage it is in.   *)
(*****************************************************************************)
\* Where the drivers are in each part of the server's life.
HubFollows ==
  /\ life = "booting" => hub = "starting" /\ sockets = {} /\ registered = {}
  /\ life \in {"serving", "stopping apps"} => hub \in {"up", "retrying"}
  /\ life = "stopping drivers" => hub = "stopping"
  /\ life \in {"closing", "flushing", "exited"} => hub = "stopped" /\ leased = {}
  /\ life \in {"flushing", "exited"} => sockets = {}
  /\ life = "killed" => hub = "starting"
  /\ life = "exited" => ~unflushed /\ ~monitor

LifeInv == HubFollows /\ Life!ExitsClean

LEMMA LifeStarts == Life!LifeInit => LifeInv /\ Life!LifeTypeOK
<1> SUFFICES ASSUME Life!LifeInit PROVE LifeInv /\ Life!LifeTypeOK
  OBVIOUS
<1>1. LifeInv
  BY DEF Life!LifeInit, LifeInv, HubFollows, Life!ExitsClean, Life!Stopping, Life!Gone
<1>2. auto \in [left : SUBSET AutoShows, waits : Shows \cup {"none"}]
  BY DEF Life!LifeInit
<1>3. shows \in [Shows -> {"none", "starting", "running", "stopping"}]
  BY DEF Life!LifeInit
<1>4. joins \in 0..MaxJoins /\ showStarts \in 0..MaxShowStarts
  BY LifeAssumption DEF Life!LifeInit
<1>5. Life!LifeTypeOK
  BY <1>2, <1>3, <1>4 DEF Life!LifeInit, Life!LifeTypeOK
<1> QED BY <1>1, <1>5

LEMMA LifeTypeSteps == Life!LifeTypeOK /\ [Life!LifeNext]_lifeVars => Life!LifeTypeOK'
<1> SUFFICES ASSUME Life!LifeTypeOK, [Life!LifeNext]_lifeVars
             PROVE  Life!LifeTypeOK'
  OBVIOUS
<1>1. CASE UNCHANGED lifeVars
  BY <1>1 DEF Life!LifeTypeOK, Life!Stopping, Life!Gone, lifeVars
<1>2. ASSUME NEW d \in {"up", "retrying"}, Life!Listen(d)
      PROVE  Life!LifeTypeOK'
  BY LifeAssumption, <1>2 DEF Life!Listen, Life!apps, Life!clients, Life!LifeTypeOK,
       Life!Stopping, Life!Gone
<1>3. CASE Life!AppsStopped
  BY LifeAssumption, <1>3 DEF Life!AppsStopped, Life!apps, Life!clients, Life!LifeTypeOK,
       Life!Stopping, Life!Gone
<1>4. CASE Life!HubStopped
  BY LifeAssumption, <1>4 DEF Life!HubStopped, Life!clients, Life!LifeTypeOK, Life!Stopping,
       Life!Gone
<1>5. CASE Life!SocketsClosed
  BY LifeAssumption, <1>5 DEF Life!SocketsClosed, Life!apps, Life!clients, Life!LifeTypeOK,
       Life!Stopping, Life!Gone
<1>6. CASE Life!Exit
  BY LifeAssumption, <1>6 DEF Life!Exit, Life!apps, Life!clients, Life!LifeTypeOK,
       Life!Stopping, Life!Gone
<1>7. CASE Life!LogWritten
  BY LifeAssumption, <1>7 DEF Life!LogWritten, Life!Gone, Life!apps, Life!clients,
       Life!LifeTypeOK, Life!Stopping
<1>8. CASE Life!StdinNoticed
  <2>1. UNCHANGED <<hub, subscribing, leased, auto, joins, showStarts>>
    BY <1>8 DEF Life!StdinNoticed, Life!Gone, Life!apps, Life!clients, Life!Shutdown,
         Life!StopMonitor, Life!CloseGateway, Life!StopShows
  <2>2. (life \in {"booting", "serving"} \cup Life!Stopping \cup Life!Gone)'
    BY LifeAssumption, <1>8, <2>1 DEF Life!StdinNoticed, Life!Gone, Life!apps, Life!clients,
         Life!Shutdown, Life!StopMonitor, Life!CloseGateway, Life!StopShows, Life!LifeTypeOK,
         Life!Stopping
  <2>3. (stdin \in {"open", "ended", "noticed"})'
    BY LifeAssumption, <1>8, <2>1 DEF Life!StdinNoticed, Life!Gone, Life!apps, Life!clients,
         Life!Shutdown, Life!StopMonitor, Life!CloseGateway, Life!StopShows, Life!LifeTypeOK,
         Life!Stopping
  <2>4. (monitor \in BOOLEAN)'
    BY LifeAssumption, <1>8, <2>1 DEF Life!StdinNoticed, Life!Gone, Life!apps, Life!clients,
         Life!Shutdown, Life!StopMonitor, Life!CloseGateway, Life!StopShows, Life!LifeTypeOK,
         Life!Stopping
  <2>5. (bus \in BOOLEAN)'
    BY LifeAssumption, <1>8, <2>1 DEF Life!StdinNoticed, Life!Gone, Life!apps, Life!clients,
         Life!Shutdown, Life!StopMonitor, Life!CloseGateway, Life!StopShows, Life!LifeTypeOK,
         Life!Stopping
  <2>6. (unflushed \in BOOLEAN)'
    BY LifeAssumption, <1>8, <2>1 DEF Life!StdinNoticed, Life!Gone, Life!apps, Life!clients,
         Life!Shutdown, Life!StopMonitor, Life!CloseGateway, Life!StopShows, Life!LifeTypeOK,
         Life!Stopping
  <2>7. (shows \in [Shows -> {"none", "starting", "running", "stopping"}])'
    BY LifeAssumption, <1>8, <2>1 DEF Life!StdinNoticed, Life!Gone, Life!apps, Life!clients,
         Life!Shutdown, Life!StopMonitor, Life!CloseGateway, Life!StopShows, Life!LifeTypeOK,
         Life!Stopping
  <2>8. (releasing \subseteq Shows)'
    <3>1. releasing \subseteq Shows
      BY DEF Life!LifeTypeOK
    <3> QED
      BY LifeAssumption, <1>8, <2>1, <3>1 DEF Life!StdinNoticed, Life!Gone, Life!apps,
           Life!clients, Life!Shutdown, Life!StopMonitor, Life!CloseGateway, Life!StopShows
  <2>9. (due \subseteq Shows)'
    <3>1. due \subseteq Shows
      BY DEF Life!LifeTypeOK
    <3> QED
      BY LifeAssumption, <1>8, <2>1, <3>1 DEF Life!StdinNoticed, Life!Gone, Life!apps,
           Life!clients, Life!Shutdown, Life!StopMonitor, Life!CloseGateway, Life!StopShows
  <2>10. (sockets \subseteq Windows)'
    <3>1. sockets \subseteq Windows
      BY DEF Life!LifeTypeOK
    <3> QED
      BY LifeAssumption, <1>8, <2>1, <3>1 DEF Life!StdinNoticed, Life!Gone, Life!apps,
           Life!clients, Life!Shutdown, Life!StopMonitor, Life!CloseGateway, Life!StopShows
  <2>11. (registered \subseteq Windows)'
    BY LifeAssumption, <1>8, <2>1 DEF Life!StdinNoticed, Life!Gone, Life!apps, Life!clients,
         Life!Shutdown, Life!StopMonitor, Life!CloseGateway, Life!StopShows, Life!LifeTypeOK,
         Life!Stopping
  <2> QED
    BY <2>1, <2>2, <2>3, <2>4, <2>5, <2>6, <2>7, <2>8, <2>9, <2>10, <2>11
       DEF Life!LifeTypeOK, Life!Stopping, Life!Gone
<1>9. ASSUME NEW e \in Shows, Life!ShowStopped(e)
      PROVE  Life!LifeTypeOK'
  BY LifeAssumption, <1>9 DEF Life!ShowStopped, Life!Gone, Life!clients, Life!LifeTypeOK,
       Life!Stopping
<1>10. CASE Life!PortTaken
  BY LifeAssumption, <1>10 DEF Life!PortTaken, Life!apps, Life!clients, Life!LifeTypeOK,
       Life!Stopping, Life!Gone
<1>11. CASE Life!HubComesUp
  BY LifeAssumption, <1>11 DEF Life!HubComesUp, Life!Gone, Life!apps, Life!clients,
       Life!LifeTypeOK, Life!Stopping
<1>12. CASE Life!Signal
  BY LifeAssumption, <1>12 DEF Life!Signal, Life!apps, Life!clients, Life!Shutdown,
       Life!StopMonitor, Life!CloseGateway, Life!StopShows, Life!LifeTypeOK, Life!Stopping,
       Life!Gone
<1>13. CASE Life!StdinEnds
  BY LifeAssumption, <1>13 DEF Life!StdinEnds, Life!Gone, Life!apps, Life!clients,
       Life!LifeTypeOK, Life!Stopping
<1>14. ASSUME NEW e \in Shows, Life!AutoStart(e)
      PROVE  Life!LifeTypeOK'
  <2>1. UNCHANGED <<life, stdin, hub, monitor, bus, leased, releasing, due, sockets, registered,
    unflushed, joins>>
    BY <1>14 DEF Life!AutoStart, Life!Gone, Life!clients, Life!Begin, Life!CanBegin
  <2>2. (shows \in [Shows -> {"none", "starting", "running", "stopping"}])'
    BY LifeAssumption, <1>14, <2>1 DEF Life!AutoStart, Life!Gone, Life!clients, Life!Begin,
         Life!CanBegin, Life!LifeTypeOK, Life!Stopping
  <2>3. (subscribing \subseteq Shows)'
    <3>1. subscribing \subseteq Shows
      BY DEF Life!LifeTypeOK
    <3> QED
      BY LifeAssumption, <1>14, <2>1, <3>1 DEF Life!AutoStart, Life!Gone, Life!clients,
           Life!Begin, Life!CanBegin
  <2>4. (auto \in [left : SUBSET AutoShows, waits : Shows \cup {"none"}])'
    <3>1. auto \in [left : SUBSET AutoShows, waits : Shows \cup {"none"}]
      BY DEF Life!LifeTypeOK
    <3> QED
      BY LifeAssumption, <1>14, <2>1, <3>1 DEF Life!AutoStart, Life!Gone, Life!clients,
           Life!Begin, Life!CanBegin
  <2>5. (showStarts \in 0..MaxShowStarts)'
    <3>1. showStarts \in 0..MaxShowStarts
      BY DEF Life!LifeTypeOK
    <3>2. (showStarts < MaxShowStarts /\ showStarts' = showStarts + 1) \/ showStarts' = showStarts
      BY <1>14 DEF Life!AutoStart, Life!Gone, Life!clients, Life!Begin, Life!CanBegin
    <3> QED
      BY LifeAssumption, <3>1, <3>2
  <2> QED
    BY <2>1, <2>2, <2>3, <2>4, <2>5 DEF Life!LifeTypeOK, Life!Stopping, Life!Gone
<1>15. ASSUME NEW e \in Shows, Life!Started(e)
      PROVE  Life!LifeTypeOK'
  <2>1. UNCHANGED <<life, stdin, hub, monitor, bus, releasing, due, sockets, registered,
    unflushed, joins, showStarts>>
    BY <1>15 DEF Life!Started, Life!Gone, Life!clients, Life!AutoGoesOn
  <2>2. (shows \in [Shows -> {"none", "starting", "running", "stopping"}])'
    BY LifeAssumption, <1>15, <2>1 DEF Life!Started, Life!Gone, Life!clients, Life!AutoGoesOn,
         Life!LifeTypeOK, Life!Stopping
  <2>3. (subscribing \subseteq Shows)'
    BY LifeAssumption, <1>15, <2>1 DEF Life!Started, Life!Gone, Life!clients, Life!AutoGoesOn,
         Life!LifeTypeOK, Life!Stopping
  <2>4. (leased \subseteq Shows)'
    <3>1. leased \subseteq Shows
      BY DEF Life!LifeTypeOK
    <3> QED
      BY LifeAssumption, <1>15, <2>1, <3>1 DEF Life!Started, Life!Gone, Life!clients,
           Life!AutoGoesOn
  <2>5. (auto \in [left : SUBSET AutoShows, waits : Shows \cup {"none"}])'
    BY LifeAssumption, <1>15, <2>1 DEF Life!Started, Life!Gone, Life!clients, Life!AutoGoesOn,
         Life!LifeTypeOK, Life!Stopping
  <2> QED
    BY <2>1, <2>2, <2>3, <2>4, <2>5 DEF Life!LifeTypeOK, Life!Stopping, Life!Gone
<1>16. ASSUME NEW e \in Shows, Life!StartFails(e)
      PROVE  Life!LifeTypeOK'
  BY LifeAssumption, <1>16 DEF Life!StartFails, Life!Gone, Life!clients, Life!AutoGoesOn,
       Life!LifeTypeOK, Life!Stopping
<1>17. ASSUME NEW w \in Windows, Life!Join(w)
      PROVE  Life!LifeTypeOK'
  <2>1. UNCHANGED <<life, stdin, hub, monitor, bus, shows, subscribing, leased, releasing, due,
    auto, showStarts>>
    BY <1>17 DEF Life!Join, Life!apps
  <2>2. (unflushed \in BOOLEAN)'
    BY LifeAssumption, <1>17, <2>1 DEF Life!Join, Life!apps, Life!LifeTypeOK, Life!Stopping,
         Life!Gone
  <2>3. (sockets \subseteq Windows)'
    <3>1. sockets \subseteq Windows
      BY DEF Life!LifeTypeOK
    <3> QED
      BY LifeAssumption, <1>17, <2>1, <3>1 DEF Life!Join, Life!apps
  <2>4. (registered \subseteq Windows)'
    <3>1. registered \subseteq Windows
      BY DEF Life!LifeTypeOK
    <3> QED
      BY LifeAssumption, <1>17, <2>1, <3>1 DEF Life!Join, Life!apps
  <2>5. (joins \in 0..MaxJoins)'
    <3>1. joins \in 0..MaxJoins
      BY DEF Life!LifeTypeOK
    <3>2. (joins < MaxJoins /\ joins' = joins + 1) \/ joins' = joins
      BY <1>17 DEF Life!Join, Life!apps
    <3> QED
      BY LifeAssumption, <3>1, <3>2
  <2> QED
    BY <2>1, <2>2, <2>3, <2>4, <2>5 DEF Life!LifeTypeOK, Life!Stopping, Life!Gone
<1>18. ASSUME NEW w \in Windows, Life!Leave(w)
      PROVE  Life!LifeTypeOK'
  BY LifeAssumption, <1>18 DEF Life!Leave, Life!Gone, Life!apps, Life!LifeTypeOK, Life!Stopping
<1>19. ASSUME NEW w \in Windows, NEW e \in Shows, Life!ClientStarts(w, e)
      PROVE  Life!LifeTypeOK'
  <2>1. UNCHANGED <<life, stdin, hub, monitor, bus, leased, releasing, due, auto, sockets,
    registered, unflushed, joins>>
    BY <1>19 DEF Life!ClientStarts, Life!Gone, Life!clients, Life!Begin, Life!CanBegin
  <2>2. (shows \in [Shows -> {"none", "starting", "running", "stopping"}])'
    BY LifeAssumption, <1>19, <2>1 DEF Life!ClientStarts, Life!Gone, Life!clients, Life!Begin,
         Life!CanBegin, Life!LifeTypeOK, Life!Stopping
  <2>3. (subscribing \subseteq Shows)'
    <3>1. subscribing \subseteq Shows
      BY DEF Life!LifeTypeOK
    <3> QED
      BY LifeAssumption, <1>19, <2>1, <3>1 DEF Life!ClientStarts, Life!Gone, Life!clients,
           Life!Begin, Life!CanBegin
  <2>4. (showStarts \in 0..MaxShowStarts)'
    <3>1. showStarts \in 0..MaxShowStarts
      BY DEF Life!LifeTypeOK
    <3>2. (showStarts < MaxShowStarts /\ showStarts' = showStarts + 1) \/ showStarts' = showStarts
      BY <1>19 DEF Life!ClientStarts, Life!Gone, Life!clients, Life!Begin, Life!CanBegin
    <3> QED
      BY LifeAssumption, <3>1, <3>2
  <2> QED
    BY <2>1, <2>2, <2>3, <2>4 DEF Life!LifeTypeOK, Life!Stopping, Life!Gone
<1> QED
  BY <1>1, <1>2, <1>3, <1>4, <1>5, <1>6, <1>7, <1>8, <1>9, <1>10, <1>11, <1>12,
     <1>13, <1>14, <1>15, <1>16, <1>17, <1>18, <1>19 DEF Life!LifeNext, Life!LifeProgress,
         Life!Stopping

LEMMA LifeSteps == LifeInv /\ Life!LifeTypeOK /\ [Life!LifeNext]_lifeVars => LifeInv'
<1> SUFFICES ASSUME LifeInv, Life!LifeTypeOK, [Life!LifeNext]_lifeVars
             PROVE  LifeInv'
  OBVIOUS
<1>1. CASE UNCHANGED lifeVars
  BY <1>1 DEF LifeInv, Life!ExitsClean, HubFollows, Life!Stopping, lifeVars
<1>2. ASSUME NEW d \in {"up", "retrying"}, Life!Listen(d)
      PROVE  LifeInv'
  BY <1>2 DEF Life!Listen, Life!apps, Life!clients, LifeInv, Life!ExitsClean, HubFollows,
       Life!Stopping
<1>3. CASE Life!AppsStopped
  BY <1>3 DEF Life!AppsStopped, Life!apps, Life!clients, LifeInv, Life!ExitsClean, HubFollows,
       Life!Stopping
<1>4. CASE Life!HubStopped
  BY <1>4 DEF Life!HubStopped, Life!clients, LifeInv, Life!ExitsClean, HubFollows, Life!Stopping
<1>5. CASE Life!SocketsClosed
  BY <1>5 DEF Life!SocketsClosed, Life!apps, Life!clients, LifeInv, Life!ExitsClean,
       HubFollows, Life!Stopping
<1>6. CASE Life!Exit
  BY <1>6 DEF Life!Exit, Life!apps, Life!clients, LifeInv, Life!ExitsClean, HubFollows,
       Life!Stopping
<1>7. CASE Life!LogWritten
  BY <1>7 DEF Life!LogWritten, Life!Gone, Life!apps, Life!clients, LifeInv, Life!ExitsClean,
       HubFollows, Life!Stopping
<1>8. CASE Life!StdinNoticed
  BY <1>8 DEF Life!StdinNoticed, Life!Gone, Life!apps, Life!clients, Life!Shutdown,
       Life!StopMonitor, Life!CloseGateway, Life!StopShows, LifeInv, Life!ExitsClean,
       HubFollows, Life!Stopping
<1>9. ASSUME NEW e \in Shows, Life!ShowStopped(e)
      PROVE  LifeInv'
  BY <1>9 DEF Life!ShowStopped, Life!Gone, Life!clients, LifeInv, Life!ExitsClean, HubFollows,
       Life!Stopping
<1>10. CASE Life!PortTaken
  BY <1>10 DEF Life!PortTaken, Life!apps, Life!clients, LifeInv, Life!ExitsClean, HubFollows,
       Life!Stopping
<1>11. CASE Life!HubComesUp
  BY <1>11 DEF Life!HubComesUp, Life!Gone, Life!apps, Life!clients, LifeInv, Life!ExitsClean,
       HubFollows, Life!Stopping
<1>12. CASE Life!Signal
  BY <1>12 DEF Life!Signal, Life!apps, Life!clients, Life!Shutdown, Life!StopMonitor,
       Life!CloseGateway, Life!StopShows, LifeInv, Life!ExitsClean, HubFollows, Life!Stopping
<1>13. CASE Life!StdinEnds
  BY <1>13 DEF Life!StdinEnds, Life!Gone, Life!apps, Life!clients, LifeInv, Life!ExitsClean,
       HubFollows, Life!Stopping
<1>14. ASSUME NEW e \in Shows, Life!AutoStart(e)
      PROVE  LifeInv'
  BY <1>14 DEF Life!AutoStart, Life!Gone, Life!clients, Life!Begin, Life!CanBegin, LifeInv,
       Life!ExitsClean, HubFollows, Life!Stopping
<1>15. ASSUME NEW e \in Shows, Life!Started(e)
      PROVE  LifeInv'
  BY <1>15 DEF Life!Started, Life!Gone, Life!clients, Life!AutoGoesOn, LifeInv,
       Life!ExitsClean, HubFollows, Life!Stopping
<1>16. ASSUME NEW e \in Shows, Life!StartFails(e)
      PROVE  LifeInv'
  BY <1>16 DEF Life!StartFails, Life!Gone, Life!clients, Life!AutoGoesOn, LifeInv,
       Life!ExitsClean, HubFollows, Life!Stopping
<1>17. ASSUME NEW w \in Windows, Life!Join(w)
      PROVE  LifeInv'
  BY <1>17 DEF Life!Join, Life!apps, LifeInv, Life!ExitsClean, HubFollows, Life!Stopping
<1>18. ASSUME NEW w \in Windows, Life!Leave(w)
      PROVE  LifeInv'
  BY <1>18 DEF Life!Leave, Life!Gone, Life!apps, LifeInv, Life!ExitsClean, HubFollows,
       Life!Stopping
<1>19. ASSUME NEW w \in Windows, NEW e \in Shows, Life!ClientStarts(w, e)
      PROVE  LifeInv'
  BY <1>19 DEF Life!ClientStarts, Life!Gone, Life!clients, Life!Begin, Life!CanBegin, LifeInv,
       Life!ExitsClean, HubFollows, Life!Stopping
<1> QED
  BY <1>1, <1>2, <1>3, <1>4, <1>5, <1>6, <1>7, <1>8, <1>9, <1>10, <1>11, <1>12,
     <1>13, <1>14, <1>15, <1>16, <1>17, <1>18, <1>19 DEF Life!LifeNext, Life!LifeProgress,
         Life!Stopping

-----------------------------------------------------------------------------
(*****************************************************************************)
(* Installs.  One call at a time holds the slug, and while it does no app is *)
(* in place: what is built and whose data there is follow from its source.   *)
(*****************************************************************************)
\* One call at a time has the slug, and while it has, no app is in place.
OneHasTheSlug ==
  /\ \A c \in Installers :
       /\ installs[c].locked <=> installs[c].at \in {"building", "queued", "venv", "packages"}
       /\ installs[c].locked => busy /\ placed = Install!Nobody /\ installs[c].source \in Sources
       /\ installs[c].at = "cloning" => installs[c].source \in Sources
  /\ \A c, d \in Installers : installs[c].locked /\ installs[d].locked => c = d

\* What is built, by whom and for whom.
BuildsAreOwned ==
  /\ \A c \in Installers : builder = c <=> installs[c].at \in {"venv", "packages"}
  /\ builder = "prepare" <=> prep \in {"venv", "packages"}
  /\ builder \in Installers => venv.by = installs[builder].source
  /\ builder = "prepare" => venv.by = listed /\ venv.on = base
  /\ venv.stamp => venv.made = "whole" /\ builder = Install!Nobody

\* The catalogue lists what is in place, or the bundled app.
ListedIsPlaced ==
  /\ placed = Install!Nobody => listed = Install!Bundled
  /\ placed # Install!Nobody => listed \in {placed, Install!Bundled}
     /\ (~unrecorded => listed = placed)
  /\ prep # "none" => placed # Install!Nobody /\ listed = placed

\* Whose data there is, before an app is in place and after.
DataIsAccounted ==
  /\ placed # Install!Nobody => owners \subseteq {placed, Install!Original} \cup accepted
  /\ \A c \in Installers : installs[c].locked =>
       owners \subseteq {installs[c].source, Install!Original} \cup accepted

InstallInv ==
  /\ OneHasTheSlug /\ BuildsAreOwned /\ ListedIsPlaced /\ DataIsAccounted
  /\ Install!ReadyEnvIsWhole /\ Install!DataIsItsOwn /\ Install!ApprovalsAreItsOwn

LEMMA InstallStarts == Install!InstallInit => InstallInv /\ Install!InstallTypeOK
<1> SUFFICES ASSUME Install!InstallInit PROVE InstallInv /\ Install!InstallTypeOK
  OBVIOUS
<1> USE InstallAssumption
<1>1. InstallInv
  BY DEF Install!InstallInit, InstallInv, OneHasTheSlug, BuildsAreOwned, ListedIsPlaced,
       DataIsAccounted, Install!ReadyEnvIsWhole, Install!DataIsItsOwn,
       Install!ApprovalsAreItsOwn, Install!Bundled, Install!Original, Install!Nobody,
       Install!NoEnv, Install!NoRecord, Install!NoInstall
<1>2. Install!InstallTypeOK
  <2>1. 0 \in 0..MaxBases /\ 1 \in 1..MaxBases /\ 0 \in 0..MaxCrashes /\ 0 \in 0..MaxInstalls
    OBVIOUS
  <2>2. Install!NoEnv \in [made : {"none", "empty", "venv", "whole"},
                           by : Sources \cup {Install!Nobody},
                           on : 0..MaxBases, stamp : BOOLEAN, mixed : BOOLEAN]
    BY <2>1 DEF Install!NoEnv, Install!Nobody
  <2>3. listed \in Sources \cup {Install!Nobody, Install!Original}
    BY DEF Install!InstallInit, Install!Bundled
  <2>4. installs \in [Installers -> [at : {"idle", "cloning", "building", "queued", "venv",
    "packages"},
                                  source : Sources \cup {Install!Nobody}, reuse : BOOLEAN,
                                  approve : BOOLEAN, locked : BOOLEAN]]
    BY DEF Install!InstallInit, Install!NoInstall, Install!Nobody
  <2>5. record \in [source : Sources \cup {Install!Nobody},
                    approved : Sources \cup {Install!Nobody}]
    BY DEF Install!InstallInit, Install!NoRecord, Install!Nobody
  <2> QED
    BY <2>1, <2>2, <2>3, <2>4, <2>5 DEF Install!InstallInit, Install!InstallTypeOK,
         Install!Nobody
<1> QED BY <1>1, <1>2

LEMMA InstallTypeSteps == Install!InstallTypeOK /\ ListedIsPlaced
    /\ [Install!InstallNext]_installVars => Install!InstallTypeOK'
<1> SUFFICES ASSUME Install!InstallTypeOK, ListedIsPlaced, [Install!InstallNext]_installVars
             PROVE  Install!InstallTypeOK'
  OBVIOUS
<1>1. CASE UNCHANGED installVars
  BY <1>1 DEF Install!InstallTypeOK, Install!Nobody, Install!Original, installVars
<1>2. ASSUME NEW c \in Installers, NEW s \in Sources, NEW r \in BOOLEAN, NEW a \in BOOLEAN,
  Install!Clone(c, s, r, a)
      PROVE  Install!InstallTypeOK'
  BY InstallAssumption, <1>2 DEF Install!Clone, Install!app, Install!envs,
       Install!InstallTypeOK, Install!Nobody, Install!Original
<1>3. ASSUME NEW c \in Installers, Install!Cloned(c)
      PROVE  Install!InstallTypeOK'
  <2>1. UNCHANGED <<placed, venv, owners, record, listed, builder, prep, base, orphan,
    unrecorded, installCrashes, started>>
    BY <1>3 DEF Install!Cloned, Install!envs, Install!Refused, Install!Nobody,
         Install!Leftover, Install!NoRecord
  <2>2. (installs \in [Installers -> [at : {"idle", "cloning", "building", "queued", "venv",
    "packages"}, source : Sources \cup {Install!Nobody}, reuse : BOOLEAN, approve : BOOLEAN,
    locked : BOOLEAN]])'
    <3>1. installs \in [Installers -> [at : {"idle", "cloning", "building", "queued", "venv",
      "packages"}, source : Sources \cup {Install!Nobody}, reuse : BOOLEAN, approve : BOOLEAN,
      locked : BOOLEAN]]
      BY DEF Install!InstallTypeOK
    <3> QED
      BY InstallAssumption, <1>3, <2>1, <3>1 DEF Install!Cloned, Install!envs,
           Install!Refused, Install!Nobody, Install!Leftover, Install!NoRecord
  <2>3. (busy \in BOOLEAN)'
    BY InstallAssumption, <1>3, <2>1 DEF Install!Cloned, Install!envs, Install!Refused,
         Install!Nobody, Install!Leftover, Install!NoRecord, Install!InstallTypeOK,
         Install!Original
  <2>4. (accepted \subseteq Sources \cup {Install!Original})'
    BY InstallAssumption, <1>3, <2>1 DEF Install!Cloned, Install!envs, Install!Refused,
         Install!Nobody, Install!Leftover, Install!NoRecord, Install!InstallTypeOK,
         Install!Original
  <2> QED
    BY <2>1, <2>2, <2>3, <2>4 DEF Install!InstallTypeOK, Install!Nobody, Install!Original
<1>4. ASSUME NEW c \in Installers, Install!StepFails(c)
      PROVE  Install!InstallTypeOK'
  BY InstallAssumption, <1>4 DEF Install!StepFails, Install!app, Install!envs, Install!Fail,
       Install!NoInstall, Install!Nobody, Install!InstallTypeOK, Install!Original
<1>5. ASSUME NEW c \in Installers, Install!AppBuilt(c)
      PROVE  Install!InstallTypeOK'
  BY InstallAssumption, <1>5 DEF Install!AppBuilt, Install!app, Install!envs,
       Install!InstallTypeOK, Install!Nobody, Install!Original
<1>6. ASSUME NEW c \in Installers, Install!BuildEnv(c)
      PROVE  Install!InstallTypeOK'
  BY InstallAssumption, <1>6 DEF Install!BuildEnv, Install!Nobody, Install!app,
       Install!Emptied, Install!InstallTypeOK, Install!Original
<1>7. ASSUME NEW c \in Installers, Install!BuildRefused(c)
      PROVE  Install!InstallTypeOK'
  BY InstallAssumption, <1>7 DEF Install!BuildRefused, Install!Nobody, Install!NoEnv,
       Install!app, Install!Fail, Install!NoInstall, Install!InstallTypeOK, Install!Original
<1>8. ASSUME NEW c \in Installers, Install!VenvMade(c)
      PROVE  Install!InstallTypeOK'
  BY InstallAssumption, <1>8 DEF Install!VenvMade, Install!app, Install!WithVenv,
       Install!InstallTypeOK, Install!Nobody, Install!Original
<1>9. ASSUME NEW c \in Installers, Install!EnvFails(c)
      PROVE  Install!InstallTypeOK'
  BY InstallAssumption, <1>9 DEF Install!EnvFails, Install!Nobody, Install!NoEnv, Install!app,
       Install!Fail, Install!NoInstall, Install!InstallTypeOK, Install!Original
<1>10. ASSUME NEW c \in Installers, Install!Place(c)
      PROVE  Install!InstallTypeOK'
  BY InstallAssumption, <1>10 DEF Install!Place, Install!Nobody, Install!Fail,
       Install!Recorded, Install!NoInstall, Install!InstallTypeOK, Install!Original
<1>11. ASSUME NEW c \in Installers, Install!PlaceUnrecorded(c)
      PROVE  Install!InstallTypeOK'
  BY InstallAssumption, <1>11 DEF Install!PlaceUnrecorded, Install!Nobody, Install!Fail,
       Install!NoInstall, Install!InstallTypeOK, Install!Original
<1>12. CASE Install!Ensure
  <2>1. UNCHANGED <<placed, owners, record, listed, installs, busy, base, orphan, accepted,
    unrecorded, installCrashes, started>>
    BY <1>12 DEF Install!Ensure, Install!Nobody, Install!app, Install!Emptied, Install!Stamped
  <2>2. (venv \in [made : {"none", "empty", "venv", "whole"}, by : Sources \cup {Install!Nobody},
    on : 0..MaxBases, stamp : BOOLEAN, mixed : BOOLEAN])'
    <3>1. listed \in Sources /\ base \in 0..MaxBases
      BY <1>12, InstallAssumption DEF Install!Ensure, ListedIsPlaced, Install!InstallTypeOK,
           Install!Bundled, Install!Nobody, Install!Original
    <3>2. Install!Emptied(listed) \in [made : {"none", "empty", "venv", "whole"},
      by : Sources \cup {Install!Nobody},
                   on : 0..MaxBases, stamp : BOOLEAN, mixed : BOOLEAN]
      BY <3>1 DEF Install!Emptied
    <3> QED
      BY <1>12, <3>2 DEF Install!Ensure, Install!InstallTypeOK
  <2>3. (builder \in Installers \cup {"prepare", Install!Nobody})'
    BY InstallAssumption, <1>12, <2>1 DEF Install!Ensure, Install!Nobody, Install!app,
         Install!Emptied, Install!Stamped, Install!InstallTypeOK, Install!Original
  <2>4. (prep \in {"none", "queued", "venv", "packages", "ready", "failed"})'
    BY InstallAssumption, <1>12, <2>1 DEF Install!Ensure, Install!Nobody, Install!app,
         Install!Emptied, Install!Stamped, Install!InstallTypeOK, Install!Original
  <2> QED
    BY <2>1, <2>2, <2>3, <2>4 DEF Install!InstallTypeOK, Install!Nobody, Install!Original
<1>13. CASE Install!EnsureStep
  <2>1. CASE prep = "venv"
    BY InstallAssumption, <1>13, <2>1 DEF Install!EnsureStep, Install!Nobody, Install!app,
         Install!WithVenv, Install!InstallTypeOK, Install!Original
  <2>2. CASE prep = "packages"
    BY InstallAssumption, <1>13, <2>2 DEF Install!EnsureStep, Install!Nobody, Install!app,
         Install!InstallTypeOK, Install!Original
  <2> QED
    BY <1>13, <2>1, <2>2 DEF Install!EnsureStep
<1>14. CASE Install!EnsureFails
  BY InstallAssumption, <1>14 DEF Install!EnsureFails, Install!Nobody, Install!NoEnv,
       Install!app, Install!InstallTypeOK, Install!Original
<1>15. CASE Install!EnsureRefused
  BY InstallAssumption, <1>15 DEF Install!EnsureRefused, Install!Nobody, Install!app,
       Install!InstallTypeOK, Install!Original
<1>16. CASE Install!Retry
  BY InstallAssumption, <1>16 DEF Install!Retry, Install!app, Install!InstallTypeOK,
       Install!Nobody, Install!Original
<1>17. CASE Install!WriteData
  BY InstallAssumption, <1>17 DEF Install!WriteData, Install!Nobody, Install!envs,
       Install!InstallTypeOK, Install!Original
<1>18. CASE Install!Approve
  BY InstallAssumption, <1>18 DEF Install!Approve, Install!Nobody, Install!envs,
       Install!InstallTypeOK, Install!Original
<1>19. CASE Install!Crash
  <2>1. UNCHANGED <<placed, venv, owners, accepted, unrecorded, started>>
    BY <1>19 DEF Install!Crash, Install!Nobody, Install!NoRecord, Install!NoInstall,
         Install!Bundled, Install!Original
  <2>2. (record \in [source : Sources \cup {Install!Nobody},
                     approved : Sources \cup {Install!Nobody}])'
    BY InstallAssumption, <1>19, <2>1 DEF Install!Crash, Install!Nobody, Install!NoRecord,
         Install!NoInstall, Install!Bundled, Install!Original, Install!InstallTypeOK
  <2>3. (listed \in Sources \cup {Install!Nobody, Install!Original})'
    BY InstallAssumption, <1>19, <2>1 DEF Install!Crash, Install!Nobody, Install!NoRecord,
         Install!NoInstall, Install!Bundled, Install!Original, Install!InstallTypeOK
  <2>4. (installs \in [Installers -> [at : {"idle", "cloning", "building", "queued", "venv",
    "packages"}, source : Sources \cup {Install!Nobody}, reuse : BOOLEAN, approve : BOOLEAN,
    locked : BOOLEAN]])'
    BY InstallAssumption, <1>19, <2>1 DEF Install!Crash, Install!Nobody, Install!NoRecord,
         Install!NoInstall, Install!Bundled, Install!Original, Install!InstallTypeOK
  <2>5. (busy \in BOOLEAN)'
    BY InstallAssumption, <1>19, <2>1 DEF Install!Crash, Install!Nobody, Install!NoRecord,
         Install!NoInstall, Install!Bundled, Install!Original, Install!InstallTypeOK
  <2>6. (orphan \in BOOLEAN)'
    BY InstallAssumption, <1>19, <2>1 DEF Install!Crash, Install!Nobody, Install!NoRecord,
         Install!NoInstall, Install!Bundled, Install!Original, Install!InstallTypeOK
  <2>7. (builder \in Installers \cup {"prepare", Install!Nobody})'
    BY InstallAssumption, <1>19, <2>1 DEF Install!Crash, Install!Nobody, Install!NoRecord,
         Install!NoInstall, Install!Bundled, Install!Original, Install!InstallTypeOK
  <2>8. (prep \in {"none", "queued", "venv", "packages", "ready", "failed"})'
    BY InstallAssumption, <1>19, <2>1 DEF Install!Crash, Install!Nobody, Install!NoRecord,
         Install!NoInstall, Install!Bundled, Install!Original, Install!InstallTypeOK
  <2>9. (base \in 1..MaxBases)'
    BY InstallAssumption, <1>19, <2>1 DEF Install!Crash, Install!Nobody, Install!NoRecord,
         Install!NoInstall, Install!Bundled, Install!Original, Install!InstallTypeOK
  <2>10. (installCrashes \in 0..MaxCrashes)'
    BY InstallAssumption, <1>19, <2>1 DEF Install!Crash, Install!Nobody, Install!NoRecord,
         Install!NoInstall, Install!Bundled, Install!Original, Install!InstallTypeOK
  <2> QED
    BY <2>1, <2>2, <2>3, <2>4, <2>5, <2>6, <2>7, <2>8, <2>9, <2>10
       DEF Install!InstallTypeOK, Install!Nobody, Install!Original
<1>20. CASE Install!OrphanWrites
  <2>1. UNCHANGED <<placed, owners, record, listed, installs, busy, builder, prep, base,
    accepted, unrecorded, installCrashes, started>>
    BY <1>20 DEF Install!OrphanWrites, Install!app
  <2>2. (venv \in [made : {"none", "empty", "venv", "whole"}, by : Sources \cup {Install!Nobody},
    on : 0..MaxBases, stamp : BOOLEAN, mixed : BOOLEAN])'
    BY InstallAssumption, <1>20, <2>1 DEF Install!OrphanWrites, Install!app,
         Install!InstallTypeOK, Install!Nobody, Install!Original
  <2>3. (orphan \in BOOLEAN)'
    BY InstallAssumption, <1>20, <2>1 DEF Install!OrphanWrites, Install!app,
         Install!InstallTypeOK, Install!Nobody, Install!Original
  <2> QED
    BY <2>1, <2>2, <2>3 DEF Install!InstallTypeOK, Install!Nobody, Install!Original
<1>21. ASSUME NEW d \in BOOLEAN, Install!Uninstall(d)
      PROVE  Install!InstallTypeOK'
  BY InstallAssumption, <1>21 DEF Install!Uninstall, Install!Nobody, Install!NoEnv,
       Install!NoRecord, Install!Bundled, Install!Original, Install!InstallTypeOK
<1> QED
  BY <1>1, <1>2, <1>3, <1>4, <1>5, <1>6, <1>7, <1>8, <1>9, <1>10, <1>11, <1>12,
     <1>13, <1>14, <1>15, <1>16, <1>17, <1>18, <1>19, <1>20, <1>21 DEF Install!InstallNext

LEMMA InstallSteps == InstallInv /\ Install!InstallTypeOK
    /\ [Install!InstallNext]_installVars => InstallInv'
<1> SUFFICES ASSUME InstallInv, Install!InstallTypeOK, [Install!InstallNext]_installVars
             PROVE  InstallInv'
  OBVIOUS
<1>1. CASE UNCHANGED installVars
  BY <1>1 DEF InstallInv, Install!InstallTypeOK, Install!ReadyEnvIsWhole,
       Install!DataIsItsOwn, Install!ApprovalsAreItsOwn, OneHasTheSlug, BuildsAreOwned,
       ListedIsPlaced, DataIsAccounted, Install!Nobody, Install!Original, Install!Bundled,
       installVars
<1>2. ASSUME NEW c \in Installers, NEW s \in Sources, NEW r \in BOOLEAN, NEW a \in BOOLEAN,
  Install!Clone(c, s, r, a)
      PROVE  InstallInv'
  BY InstallAssumption, <1>2 DEF Install!Clone, Install!app, Install!envs, InstallInv,
       Install!InstallTypeOK, Install!ReadyEnvIsWhole, Install!DataIsItsOwn,
       Install!ApprovalsAreItsOwn, OneHasTheSlug, BuildsAreOwned, ListedIsPlaced,
       DataIsAccounted, Install!Nobody, Install!Original, Install!Bundled
<1>3. ASSUME NEW c \in Installers, Install!Cloned(c)
      PROVE  InstallInv'
  BY InstallAssumption, <1>3 DEF Install!Cloned, Install!envs, Install!Refused,
       Install!Nobody, Install!Leftover, Install!NoRecord, InstallInv, Install!InstallTypeOK,
       Install!ReadyEnvIsWhole, Install!DataIsItsOwn, Install!ApprovalsAreItsOwn,
       OneHasTheSlug, BuildsAreOwned, ListedIsPlaced, DataIsAccounted, Install!Original,
       Install!Bundled
<1>4. ASSUME NEW c \in Installers, Install!StepFails(c)
      PROVE  InstallInv'
  BY InstallAssumption, <1>4 DEF Install!StepFails, Install!app, Install!envs, Install!Fail,
       Install!NoInstall, Install!Nobody, InstallInv, Install!InstallTypeOK,
       Install!ReadyEnvIsWhole, Install!DataIsItsOwn, Install!ApprovalsAreItsOwn,
       OneHasTheSlug, BuildsAreOwned, ListedIsPlaced, DataIsAccounted, Install!Original,
       Install!Bundled
<1>5. ASSUME NEW c \in Installers, Install!AppBuilt(c)
      PROVE  InstallInv'
  BY InstallAssumption, <1>5 DEF Install!AppBuilt, Install!app, Install!envs, InstallInv,
       Install!InstallTypeOK, Install!ReadyEnvIsWhole, Install!DataIsItsOwn,
       Install!ApprovalsAreItsOwn, OneHasTheSlug, BuildsAreOwned, ListedIsPlaced,
       DataIsAccounted, Install!Nobody, Install!Original, Install!Bundled
<1>6. ASSUME NEW c \in Installers, Install!BuildEnv(c)
      PROVE  InstallInv'
  BY InstallAssumption, <1>6 DEF Install!BuildEnv, Install!Nobody, Install!app,
       Install!Emptied, InstallInv, Install!InstallTypeOK, Install!ReadyEnvIsWhole,
       Install!DataIsItsOwn, Install!ApprovalsAreItsOwn, OneHasTheSlug, BuildsAreOwned,
       ListedIsPlaced, DataIsAccounted, Install!Original, Install!Bundled
<1>7. ASSUME NEW c \in Installers, Install!BuildRefused(c)
      PROVE  InstallInv'
  BY InstallAssumption, <1>7 DEF Install!BuildRefused, Install!Nobody, Install!NoEnv,
       Install!app, Install!Fail, Install!NoInstall, InstallInv, Install!InstallTypeOK,
       Install!ReadyEnvIsWhole, Install!DataIsItsOwn, Install!ApprovalsAreItsOwn,
       OneHasTheSlug, BuildsAreOwned, ListedIsPlaced, DataIsAccounted, Install!Original,
       Install!Bundled
<1>8. ASSUME NEW c \in Installers, Install!VenvMade(c)
      PROVE  InstallInv'
  <2>1. UNCHANGED <<placed, owners, record, listed, busy, builder, prep, base, orphan, accepted,
    unrecorded, installCrashes, started>>
    BY <1>8 DEF Install!VenvMade, Install!app, Install!WithVenv
  <2>2. OneHasTheSlug'
    BY InstallAssumption, <1>8, <2>1 DEF Install!VenvMade, Install!app, Install!WithVenv,
         InstallInv, Install!InstallTypeOK, Install!ReadyEnvIsWhole, Install!DataIsItsOwn,
         Install!ApprovalsAreItsOwn, OneHasTheSlug, BuildsAreOwned, ListedIsPlaced,
         DataIsAccounted, Install!Nobody, Install!Original, Install!Bundled
  <2>3. BuildsAreOwned'
    BY InstallAssumption, <1>8, <2>1 DEF Install!VenvMade, Install!app, Install!WithVenv,
         InstallInv, Install!InstallTypeOK, Install!ReadyEnvIsWhole, Install!DataIsItsOwn,
         Install!ApprovalsAreItsOwn, OneHasTheSlug, BuildsAreOwned, ListedIsPlaced,
         DataIsAccounted, Install!Nobody, Install!Original, Install!Bundled
  <2>4. DataIsAccounted'
    BY InstallAssumption, <1>8, <2>1 DEF Install!VenvMade, Install!app, Install!WithVenv,
         InstallInv, Install!InstallTypeOK, Install!ReadyEnvIsWhole, Install!DataIsItsOwn,
         Install!ApprovalsAreItsOwn, OneHasTheSlug, BuildsAreOwned, ListedIsPlaced,
         DataIsAccounted, Install!Nobody, Install!Original, Install!Bundled
  <2>5. Install!ReadyEnvIsWhole'
    BY InstallAssumption, <1>8, <2>1 DEF Install!VenvMade, Install!app, Install!WithVenv,
         InstallInv, Install!InstallTypeOK, Install!ReadyEnvIsWhole, Install!DataIsItsOwn,
         Install!ApprovalsAreItsOwn, OneHasTheSlug, BuildsAreOwned, ListedIsPlaced,
         DataIsAccounted, Install!Nobody, Install!Original, Install!Bundled
  <2> QED
    BY <2>1, <2>2, <2>3, <2>4, <2>5 DEF InstallInv, OneHasTheSlug, BuildsAreOwned,
         ListedIsPlaced, DataIsAccounted, Install!ReadyEnvIsWhole, Install!DataIsItsOwn,
         Install!ApprovalsAreItsOwn, Install!Nobody, Install!Bundled, Install!Original
<1>9. ASSUME NEW c \in Installers, Install!EnvFails(c)
      PROVE  InstallInv'
  BY InstallAssumption, <1>9 DEF Install!EnvFails, Install!Nobody, Install!NoEnv, Install!app,
       Install!Fail, Install!NoInstall, InstallInv, Install!InstallTypeOK,
       Install!ReadyEnvIsWhole, Install!DataIsItsOwn, Install!ApprovalsAreItsOwn,
       OneHasTheSlug, BuildsAreOwned, ListedIsPlaced, DataIsAccounted, Install!Original,
       Install!Bundled
<1>10. ASSUME NEW c \in Installers, Install!Place(c)
      PROVE  InstallInv'
  BY InstallAssumption, <1>10 DEF Install!Place, Install!Nobody, Install!Fail,
       Install!Recorded, Install!NoInstall, InstallInv, Install!InstallTypeOK,
       Install!ReadyEnvIsWhole, Install!DataIsItsOwn, Install!ApprovalsAreItsOwn,
       OneHasTheSlug, BuildsAreOwned, ListedIsPlaced, DataIsAccounted, Install!Original,
       Install!Bundled
<1>11. ASSUME NEW c \in Installers, Install!PlaceUnrecorded(c)
      PROVE  InstallInv'
  BY InstallAssumption, <1>11 DEF Install!PlaceUnrecorded, Install!Nobody, Install!Fail,
       Install!NoInstall, InstallInv, Install!InstallTypeOK, Install!ReadyEnvIsWhole,
       Install!DataIsItsOwn, Install!ApprovalsAreItsOwn, OneHasTheSlug, BuildsAreOwned,
       ListedIsPlaced, DataIsAccounted, Install!Original, Install!Bundled
<1>12. CASE Install!Ensure
  BY InstallAssumption, <1>12 DEF Install!Ensure, Install!Nobody, Install!app,
       Install!Emptied, Install!Stamped, InstallInv, Install!InstallTypeOK,
       Install!ReadyEnvIsWhole, Install!DataIsItsOwn, Install!ApprovalsAreItsOwn,
       OneHasTheSlug, BuildsAreOwned, ListedIsPlaced, DataIsAccounted, Install!Original,
       Install!Bundled
<1>13. CASE Install!EnsureStep
  <2>1. UNCHANGED <<placed, owners, record, listed, installs, busy, base, orphan, accepted,
    unrecorded, installCrashes, started>>
    BY <1>13 DEF Install!EnsureStep, Install!Nobody, Install!app, Install!WithVenv
  <2>2. BuildsAreOwned'
    BY InstallAssumption, <1>13, <2>1 DEF Install!EnsureStep, Install!Nobody, Install!app,
         Install!WithVenv, InstallInv, Install!InstallTypeOK, Install!ReadyEnvIsWhole,
         Install!DataIsItsOwn, Install!ApprovalsAreItsOwn, OneHasTheSlug, BuildsAreOwned,
         ListedIsPlaced, DataIsAccounted, Install!Original, Install!Bundled
  <2>3. ListedIsPlaced'
    BY InstallAssumption, <1>13, <2>1 DEF Install!EnsureStep, Install!Nobody, Install!app,
         Install!WithVenv, InstallInv, Install!InstallTypeOK, Install!ReadyEnvIsWhole,
         Install!DataIsItsOwn, Install!ApprovalsAreItsOwn, OneHasTheSlug, BuildsAreOwned,
         ListedIsPlaced, DataIsAccounted, Install!Original, Install!Bundled
  <2>4. Install!ReadyEnvIsWhole'
    BY InstallAssumption, <1>13, <2>1 DEF Install!EnsureStep, Install!Nobody, Install!app,
         Install!WithVenv, InstallInv, Install!InstallTypeOK, Install!ReadyEnvIsWhole,
         Install!DataIsItsOwn, Install!ApprovalsAreItsOwn, OneHasTheSlug, BuildsAreOwned,
         ListedIsPlaced, DataIsAccounted, Install!Original, Install!Bundled
  <2> QED
    BY <2>1, <2>2, <2>3, <2>4 DEF InstallInv, OneHasTheSlug, BuildsAreOwned, ListedIsPlaced,
         DataIsAccounted, Install!ReadyEnvIsWhole, Install!DataIsItsOwn,
         Install!ApprovalsAreItsOwn, Install!Nobody, Install!Bundled, Install!Original
<1>14. CASE Install!EnsureFails
  BY InstallAssumption, <1>14 DEF Install!EnsureFails, Install!Nobody, Install!NoEnv,
       Install!app, InstallInv, Install!InstallTypeOK, Install!ReadyEnvIsWhole,
       Install!DataIsItsOwn, Install!ApprovalsAreItsOwn, OneHasTheSlug, BuildsAreOwned,
       ListedIsPlaced, DataIsAccounted, Install!Original, Install!Bundled
<1>15. CASE Install!EnsureRefused
  BY InstallAssumption, <1>15 DEF Install!EnsureRefused, Install!Nobody, Install!app,
       InstallInv, Install!InstallTypeOK, Install!ReadyEnvIsWhole, Install!DataIsItsOwn,
       Install!ApprovalsAreItsOwn, OneHasTheSlug, BuildsAreOwned, ListedIsPlaced,
       DataIsAccounted, Install!Original, Install!Bundled
<1>16. CASE Install!Retry
  BY InstallAssumption, <1>16 DEF Install!Retry, Install!app, InstallInv,
       Install!InstallTypeOK, Install!ReadyEnvIsWhole, Install!DataIsItsOwn,
       Install!ApprovalsAreItsOwn, OneHasTheSlug, BuildsAreOwned, ListedIsPlaced,
       DataIsAccounted, Install!Nobody, Install!Original, Install!Bundled
<1>17. CASE Install!WriteData
  BY InstallAssumption, <1>17 DEF Install!WriteData, Install!Nobody, Install!envs, InstallInv,
       Install!InstallTypeOK, Install!ReadyEnvIsWhole, Install!DataIsItsOwn,
       Install!ApprovalsAreItsOwn, OneHasTheSlug, BuildsAreOwned, ListedIsPlaced,
       DataIsAccounted, Install!Original, Install!Bundled
<1>18. CASE Install!Approve
  BY InstallAssumption, <1>18 DEF Install!Approve, Install!Nobody, Install!envs, InstallInv,
       Install!InstallTypeOK, Install!ReadyEnvIsWhole, Install!DataIsItsOwn,
       Install!ApprovalsAreItsOwn, OneHasTheSlug, BuildsAreOwned, ListedIsPlaced,
       DataIsAccounted, Install!Original, Install!Bundled
<1>19. CASE Install!Crash
  BY InstallAssumption, <1>19 DEF Install!Crash, Install!Nobody, Install!NoRecord,
       Install!NoInstall, Install!Bundled, Install!Original, InstallInv,
       Install!InstallTypeOK, Install!ReadyEnvIsWhole, Install!DataIsItsOwn,
       Install!ApprovalsAreItsOwn, OneHasTheSlug, BuildsAreOwned, ListedIsPlaced,
       DataIsAccounted
<1>20. CASE Install!OrphanWrites
  BY InstallAssumption, <1>20 DEF Install!OrphanWrites, Install!app, InstallInv,
       Install!InstallTypeOK, Install!ReadyEnvIsWhole, Install!DataIsItsOwn,
       Install!ApprovalsAreItsOwn, OneHasTheSlug, BuildsAreOwned, ListedIsPlaced,
       DataIsAccounted, Install!Nobody, Install!Original, Install!Bundled
<1>21. ASSUME NEW d \in BOOLEAN, Install!Uninstall(d)
      PROVE  InstallInv'
  BY InstallAssumption, <1>21 DEF Install!Uninstall, Install!Nobody, Install!NoEnv,
       Install!NoRecord, Install!Bundled, Install!Original, InstallInv, Install!InstallTypeOK,
       Install!ReadyEnvIsWhole, Install!DataIsItsOwn, Install!ApprovalsAreItsOwn,
       OneHasTheSlug, BuildsAreOwned, ListedIsPlaced, DataIsAccounted
<1> QED
  BY <1>1, <1>2, <1>3, <1>4, <1>5, <1>6, <1>7, <1>8, <1>9, <1>10, <1>11, <1>12,
     <1>13, <1>14, <1>15, <1>16, <1>17, <1>18, <1>19, <1>20, <1>21 DEF Install!InstallNext

-----------------------------------------------------------------------------
(*****************************************************************************)
(* The log.  What was handed to the disk, what is being written and what is  *)
(* queued follow one another without a gap: the entries that the files hold  *)
(* are the last ones, save those a failed write lost.                        *)
(*****************************************************************************)
\* The number of the elements of a set is what the component's module takes
\* it for.
LEMMA LogCardinality == \A S : Log!Cardinality(S) = Cardinality(S)
BY DEF Cardinality, Log!Cardinality

\* The entries handed to the disk: what is queued or being written follows them.
Handed == logged - Len(queued) - Len(lines)

\* Entries wait in the order they were logged, for a drain that is there.
WaitingInOrder ==
  /\ Handed >= 0
  /\ \A i \in DOMAIN lines : lines[i] = Handed + i
  /\ \A i \in DOMAIN queued : queued[i] = Handed + Len(lines) + i
  /\ lines # <<>> <=> drain = "appending"
  /\ drain = "none" => queued = <<>>

\* The measured size is that of the file, and each rotation had a batch of its own.
SizesAreMeasured ==
  /\ Len(logFile) <= Handed
  /\ size \in {-1, Len(logFile)}
  /\ drain \in {"measuring", "pruning"} => size # -1
  /\ lastRotation + (IF drain = "measuring" THEN 1 ELSE 0) <= MaxClock + Handed

\* The names of the rotated files are behind the last one this process gave.
NamesFollow ==
  ~cutBack => ~overwritten /\ (lastRotation > 0 => \A f \in DOMAIN rotated : f <= lastRotation)

\* Every entry handed to the disk that is not missing is in a file or was pruned.
EntriesInOrder ==
  /\ unwritten \subseteq 1..Handed
  /\ \A i \in DOMAIN logFile : logFile[i] <= Handed
  /\ \A f \in DOMAIN rotated : \A i \in DOMAIN rotated[f] : rotated[f][i] <= Handed

BacklogEnds == \A i \in DOMAIN backlog : backlog[i] = logged - Len(backlog) + i

LogInv ==
  /\ WaitingInOrder /\ SizesAreMeasured /\ NamesFollow /\ EntriesInOrder /\ BacklogEnds
  /\ ~cutBack => Log!FilesHoldTheEnd

LogInvA == WaitingInOrder /\ SizesAreMeasured /\ NamesFollow /\ EntriesInOrder /\ BacklogEnds

LEMMA SuffixGrows ==
  ASSUME clock \in Nat, lastRotation \in Nat
  PROVE  Log!Suffix \in {clock, lastRotation + 1} /\ Log!Suffix >= clock
         /\ Log!Suffix > lastRotation
<1> DEFINE S == {clock, lastRotation + 1}
<1>1. \E x \in S : \A y \in S : x >= y
  OBVIOUS
<1>2. Log!Suffix \in S /\ \A y \in S : Log!Suffix >= y
  BY <1>1 DEF Log!Suffix, Log!Max
<1> QED
  BY <1>2

LEMMA EntriesOf ==
  ASSUME NEW S, NEW s \in Seq(S)
  PROVE  Log!ToSet(s) \subseteq S
BY DEF Log!ToSet

LEMMA NothingOf == Log!ToSet(<<>>) = {}
BY DEF Log!ToSet

LEMMA EntriesOfBoth ==
  ASSUME NEW S, NEW s \in Seq(S), NEW t \in Seq(S)
  PROVE  Log!ToSet(s \o t) = Log!ToSet(s) \cup Log!ToSet(t)
<1>1. Len(s) \in Nat /\ Len(t) \in Nat /\ Len(s \o t) = Len(s) + Len(t)
  OBVIOUS
<1>2. \A i \in 1..Len(s) : i \in DOMAIN (s \o t) /\ (s \o t)[i] = s[i]
  BY <1>1
<1>3. \A i \in 1..Len(t) : Len(s) + i \in DOMAIN (s \o t) /\ (s \o t)[Len(s) + i] = t[i]
  BY <1>1
<1>4. \A i \in DOMAIN (s \o t) : i \notin 1..Len(s) => i - Len(s) \in 1..Len(t)
    /\ i = Len(s) + (i - Len(s))
  BY <1>1
<1>5. ASSUME NEW i \in DOMAIN (s \o t)
      PROVE  (s \o t)[i] \in Log!ToSet(s) \cup Log!ToSet(t)
  BY <1>1, <1>2, <1>3, <1>4 DEF Log!ToSet
<1>6. ASSUME NEW e \in Log!ToSet(s)
      PROVE  e \in Log!ToSet(s \o t)
  BY <1>1, <1>2 DEF Log!ToSet
<1>7. ASSUME NEW e \in Log!ToSet(t)
      PROVE  e \in Log!ToSet(s \o t)
  <2>1. PICK i \in 1..Len(t) : t[i] = e
    BY DEF Log!ToSet
  <2>2. Len(s) + i \in DOMAIN (s \o t) /\ (s \o t)[Len(s) + i] = e
    BY <1>3, <2>1
  <2> QED
    BY <2>2 DEF Log!ToSet
<1> QED
  BY <1>5, <1>6, <1>7 DEF Log!ToSet

LEMMA BoundedIsBounded ==
  ASSUME NEW S, NEW s \in Seq(S), Len(s) <= MaxBacklog + 1
  PROVE  Log!Bounded(s) \in Seq(S) /\ Len(Log!Bounded(s)) <= MaxBacklog
<1>1. Len(s) > MaxBacklog => s # <<>>
  BY LogAssumption
<1>2. s # <<>> => Tail(s) \in Seq(S) /\ Len(Tail(s)) = Len(s) - 1
  OBVIOUS
<1> QED
  BY LogAssumption, <1>1, <1>2 DEF Log!Bounded

LEMMA LogStarts == Log!LogInit => LogInv /\ Log!LogTypeOK
<1> SUFFICES ASSUME Log!LogInit PROVE LogInv /\ Log!LogTypeOK
  OBVIOUS
<1>1. DOMAIN rotated = {}
  BY DEF Log!LogInit
<1>2. Log!LogTypeOK
  <2>1. 0 \in 0..MaxLogs /\ -1 \in -1..(2 * MaxLogs) /\ 0 \in 0..(MaxClock + MaxLogs)
        /\ 1 \in 1..MaxClock /\ 0 \in 0..MaxErrors /\ 0 \in 0..MaxDeaths /\ 0 <= MaxBacklog
    BY LogAssumption
  <2>2. <<>> \in Seq(Log!Entries) /\ Len(<<>>) = 0
    OBVIOUS
  <2> QED
    BY <1>1, <2>1, <2>2 DEF Log!LogInit, Log!LogTypeOK
<1>3. WaitingInOrder /\ SizesAreMeasured /\ NamesFollow /\ EntriesInOrder /\ BacklogEnds
  BY LogAssumption, <1>1 DEF Log!LogInit, WaitingInOrder, SizesAreMeasured, NamesFollow,
       EntriesInOrder, BacklogEnds, Handed
<1>4. Log!Held = {}
  BY <1>1, NothingOf DEF Log!LogInit, Log!Held
<1>5. Log!FilesHoldTheEnd
  BY <1>1, <1>4 DEF Log!LogInit, Log!FilesHoldTheEnd, Log!Rising
<1> QED
  BY <1>2, <1>3, <1>5 DEF LogInv

LEMMA LogNumbers ==
  Log!LogTypeOK => /\ Len(lines) \in Nat /\ Len(queued) \in Nat /\ Len(logFile) \in Nat
                   /\ Len(backlog) \in Nat /\ logged \in Nat /\ Handed \in Int
                   /\ lastRotation \in Nat /\ clock \in Nat
BY LogAssumption DEF Log!LogTypeOK, Handed

LEMMA NumbersOf ==
  ASSUME NEW s \in Seq(Log!Entries)
  PROVE  /\ s \in Seq(Nat) /\ DOMAIN s = 1..Len(s) /\ Len(s) \in Nat
         /\ \A i \in DOMAIN s : s[i] \in Nat /\ s[i] \in Log!Entries
<1>1. Log!Entries \subseteq Nat
  BY DEF Log!Entries
<1>2. DOMAIN s = 1..Len(s) /\ Len(s) \in Nat /\ \A i \in 1..Len(s) : s[i] \in Log!Entries
  OBVIOUS
<1>3. s = [i \in 1..Len(s) |-> s[i]]
  OBVIOUS
<1>4. s \in [1..Len(s) -> Nat]
  BY <1>1, <1>2, <1>3
<1>5. s \in Seq(Nat)
  BY <1>2, <1>4
<1> QED
  BY <1>1, <1>2, <1>5

LEMMA InOrderLater ==
  ASSUME Log!LogTypeOK, EntriesInOrder, NEW h \in Int, Handed <= h
  PROVE  /\ unwritten \subseteq 1..h
         /\ \A i \in DOMAIN logFile : logFile[i] <= h
         /\ \A f \in DOMAIN rotated : \A i \in DOMAIN rotated[f] : rotated[f][i] <= h
<1>1. unwritten \subseteq 1..h
  BY LogNumbers DEF EntriesInOrder
<1>2. ASSUME NEW i \in DOMAIN logFile
      PROVE  logFile[i] <= h
  <2>1. logFile[i] \in Nat
    BY NumbersOf DEF Log!LogTypeOK
  <2> QED
    BY <2>1, LogNumbers DEF EntriesInOrder
<1>3. ASSUME NEW f \in DOMAIN rotated, NEW i \in DOMAIN rotated[f]
      PROVE  rotated[f][i] <= h
  <2>1. rotated[f][i] \in Nat
    BY NumbersOf DEF Log!LogTypeOK
  <2>2. rotated[f][i] <= Handed
    BY DEF EntriesInOrder
  <2> QED
    BY <2>1, <2>2, LogNumbers
<1> QED
  BY <1>1, <1>2, <1>3

LEMMA LogAppends ==
  ASSUME Log!LogTypeOK, Log!Log
  PROVE  /\ Handed' = Handed
         /\ queued' \in Seq(Nat) /\ Len(queued') = Len(queued) + 1
         /\ \A i \in 1..Len(queued) : queued'[i] = queued[i]
         /\ queued'[Len(queued) + 1] = logged + 1
<1>1. queued \in Seq(Log!Entries) /\ Log!Entries \subseteq Nat /\ logged + 1 \in Nat
  BY LogNumbers DEF Log!LogTypeOK, Log!Entries
<1>2. queued \in Seq(Nat)
  BY <1>1, NumbersOf
<1>3. queued' = Append(queued, logged + 1) /\ lines' = lines /\ logged' = logged + 1
  BY DEF Log!Log
<1> QED
  BY <1>1, <1>2, <1>3, LogNumbers DEF Handed

LEMMA BatchIsHanded ==
  ASSUME Log!LogTypeOK, WaitingInOrder, drain = "appending", lines' = <<>>, queued' = queued,
    logged' = logged
  PROVE  Handed' = Handed + Len(lines) /\ Len(lines) >= 1
<1>1. lines # <<>>
  BY DEF WaitingInOrder
<1>2. Len(<<>>) = 0
  OBVIOUS
<1>3. Len(lines) >= 1
  BY <1>1, LogNumbers DEF Log!LogTypeOK
<1> QED
  BY <1>2, <1>3, LogNumbers DEF Handed

LEMMA FileAppended ==
  ASSUME Log!LogTypeOK, Log!AppendBatch
  PROVE  /\ Len(logFile') = Len(logFile) + Len(lines)
         /\ DOMAIN logFile' = 1..Len(logFile')
         /\ \A i \in 1..Len(logFile) : logFile'[i] = logFile[i]
         /\ \A i \in 1..Len(lines) : logFile'[Len(logFile) + i] = lines[i]
         /\ \A i \in DOMAIN logFile' : i \notin 1..Len(logFile)
            => i - Len(logFile) \in 1..Len(lines)
<1>1. logFile' = logFile \o lines /\ logFile \in Seq(Log!Entries) /\ lines \in Seq(Log!Entries)
  BY DEF Log!AppendBatch, Log!LogTypeOK
<1> QED
  BY <1>1, LogNumbers

LEMMA RotatedNow ==
  ASSUME Log!LogTypeOK, Log!Rename
  PROVE  /\ DOMAIN rotated' = DOMAIN rotated \cup {Log!Suffix} /\ rotated'[Log!Suffix] = logFile
         /\ \A f \in DOMAIN rotated : f # Log!Suffix => rotated'[f] = rotated[f]
         /\ Handed' = Handed /\ Len(logFile') = 0 /\ DOMAIN logFile' = {}
BY DEF Log!Rename, Handed

\* A rotation of this process is behind the names before it, or the clock was cut back.
LEMMA NamesAreBehind ==
  ASSUME Log!LogTypeOK, NamesFollow, ~cutBack, ~Log!CutBack
  PROVE  \A f \in DOMAIN rotated : f < Log!Suffix
<1> SUFFICES ASSUME NEW f \in DOMAIN rotated PROVE f < Log!Suffix
  OBVIOUS
<1>1. f \in Nat
  BY DEF Log!LogTypeOK
<1>2. Log!Suffix \in Nat /\ Log!Suffix >= clock /\ Log!Suffix > lastRotation
  BY LogNumbers, SuffixGrows
<1>3. CASE lastRotation = 0
  BY <1>1, <1>2, <1>3, LogNumbers DEF Log!CutBack
<1>4. CASE lastRotation # 0
  BY <1>1, <1>2, <1>4, LogNumbers DEF NamesFollow
<1> QED
  BY <1>3, <1>4

LEMMA PrunedNow ==
  ASSUME Log!LogTypeOK, Log!Prune
  PROVE  /\ DOMAIN rotated' = Log!Newest /\ Log!Newest \subseteq DOMAIN rotated
         /\ \A f \in Log!Newest : rotated'[f] = rotated[f]
         /\ Handed' = Handed
BY DEF Log!Prune, Handed, Log!Newest

LEMMA LogTypeSteps == Log!LogTypeOK /\ WaitingInOrder /\ SizesAreMeasured /\ [Log!LogNext]_logVars
    => Log!LogTypeOK'
<1> SUFFICES ASSUME Log!LogTypeOK, WaitingInOrder, SizesAreMeasured, [Log!LogNext]_logVars
             PROVE  Log!LogTypeOK'
  OBVIOUS
<1>1. CASE UNCHANGED logVars
  BY <1>1 DEF Log!LogTypeOK, Log!Entries, logVars
<1>2. CASE Log!Log
  <2>1. UNCHANGED <<lines, size, lastRotation, clock, logFile, rotated, unwritten, overwritten,
    flushing, cutBack, diskErrors, deaths>>
    BY <1>2 DEF Log!Log, Log!onDisk, Log!bounded, Log!Bounded
  <2>2. (logged \in 0..MaxLogs)'
    BY LogAssumption, <1>2, <2>1 DEF Log!Log, Log!onDisk, Log!bounded, Log!Bounded,
         Log!LogTypeOK, Log!Entries
  <2>3. (backlog \in Seq(Log!Entries))'
    <3>1. Append(backlog, logged + 1) \in Seq(Log!Entries) /\ Len(Append(backlog,
      logged + 1)) <= MaxBacklog + 1
      BY <1>2, LogAssumption DEF Log!Log, Log!LogTypeOK, Log!Entries
    <3> QED
      BY <1>2, <3>1, BoundedIsBounded DEF Log!Log
  <2>4. (Len(backlog) <= MaxBacklog)'
    <3>1. Append(backlog, logged + 1) \in Seq(Log!Entries) /\ Len(Append(backlog,
      logged + 1)) <= MaxBacklog + 1
      BY <1>2, LogAssumption DEF Log!Log, Log!LogTypeOK, Log!Entries
    <3> QED
      BY <1>2, <3>1, BoundedIsBounded DEF Log!Log
  <2>5. (queued \in Seq(Log!Entries))'
    BY LogAssumption, <1>2, <2>1 DEF Log!Log, Log!onDisk, Log!bounded, Log!Bounded,
         Log!LogTypeOK, Log!Entries
  <2>6. (drain \in {"none", "taking", "appending", "measuring", "pruning"})'
    BY LogAssumption, <1>2, <2>1 DEF Log!Log, Log!onDisk, Log!bounded, Log!Bounded,
         Log!LogTypeOK, Log!Entries
  <2> QED
    BY <2>1, <2>2, <2>3, <2>4, <2>5, <2>6 DEF Log!LogTypeOK, Log!Entries
<1>3. CASE Log!TakeBatch
  <2>1. UNCHANGED <<logged, backlog, size, lastRotation, clock, logFile, rotated, unwritten,
    overwritten, flushing, cutBack, diskErrors, deaths>>
    BY <1>3 DEF Log!TakeBatch, Log!onDisk, Log!bounded
  <2>2. (queued \in Seq(Log!Entries))'
    <3>1. <<>> \in Seq(Log!Entries)
      OBVIOUS
    <3>2. queued' = <<>> \/ queued' = queued
      BY <1>3 DEF Log!TakeBatch
    <3> QED
      BY <3>1, <3>2 DEF Log!LogTypeOK
  <2>3. (drain \in {"none", "taking", "appending", "measuring", "pruning"})'
    BY LogAssumption, <1>3, <2>1 DEF Log!TakeBatch, Log!onDisk, Log!bounded, Log!LogTypeOK,
         Log!Entries
  <2>4. (lines \in Seq(Log!Entries))'
    BY LogAssumption, <1>3, <2>1 DEF Log!TakeBatch, Log!onDisk, Log!bounded, Log!LogTypeOK,
         Log!Entries
  <2> QED
    BY <2>1, <2>2, <2>3, <2>4 DEF Log!LogTypeOK, Log!Entries
<1>4. CASE Log!AppendBatch
  <2>1. UNCHANGED <<logged, backlog, queued, lastRotation, clock, rotated, unwritten,
    overwritten, flushing, cutBack, diskErrors, deaths>>
    BY <1>4 DEF Log!AppendBatch, Log!bounded
  <2>2. (drain \in {"none", "taking", "appending", "measuring", "pruning"})'
    BY LogAssumption, <1>4, <2>1 DEF Log!AppendBatch, Log!bounded, Log!LogTypeOK, Log!Entries
  <2>3. (lines \in Seq(Log!Entries))'
    BY LogAssumption, <1>4, <2>1 DEF Log!AppendBatch, Log!bounded, Log!LogTypeOK, Log!Entries
  <2>4. (size \in -1..(2 * MaxLogs))'
    <3>1. Len(logFile) \in Nat /\ Len(lines) \in Nat /\ Len(queued) \in Nat
      BY DEF Log!LogTypeOK
    <3>2. (IF size = -1 THEN Len(logFile) ELSE size) = Len(logFile)
      BY DEF SizesAreMeasured
    <3>3. size' = Len(logFile) + Len(lines)
      BY <1>4, <3>2 DEF Log!AppendBatch
    <3>4. Len(logFile) + Len(lines) <= MaxLogs
      BY <3>1, LogAssumption DEF SizesAreMeasured, Handed, Log!LogTypeOK
    <3> QED
      BY <3>1, <3>3, <3>4, LogAssumption
  <2>5. (logFile \in Seq(Log!Entries))'
    BY LogAssumption, <1>4, <2>1 DEF Log!AppendBatch, Log!bounded, Log!LogTypeOK, Log!Entries
  <2> QED
    BY <2>1, <2>2, <2>3, <2>4, <2>5 DEF Log!LogTypeOK, Log!Entries
<1>5. CASE Log!AppendFails
  <2>1. UNCHANGED <<logged, backlog, queued, lastRotation, clock, logFile, rotated, overwritten,
    flushing, cutBack, deaths>>
    BY <1>5 DEF Log!AppendFails
  <2>2. (drain \in {"none", "taking", "appending", "measuring", "pruning"})'
    BY LogAssumption, <1>5, <2>1 DEF Log!AppendFails, Log!LogTypeOK, Log!Entries
  <2>3. (lines \in Seq(Log!Entries))'
    BY LogAssumption, <1>5, <2>1 DEF Log!AppendFails, Log!LogTypeOK, Log!Entries
  <2>4. (size \in -1..(2 * MaxLogs))'
    <3>1. Len(logFile) \in Nat /\ Len(lines) \in Nat /\ Len(queued) \in Nat
      BY DEF Log!LogTypeOK
    <3>2. size' = Len(logFile)
      BY <1>5 DEF Log!AppendFails, SizesAreMeasured
    <3>3. Len(logFile) <= MaxLogs
      BY <3>1, LogAssumption DEF SizesAreMeasured, Handed, Log!LogTypeOK
    <3> QED
      BY <3>1, <3>2, <3>3, LogAssumption
  <2>5. (unwritten \subseteq Log!Entries)'
    <3> QED
      BY <1>5, EntriesOf DEF Log!AppendFails, Log!LogTypeOK
  <2>6. (diskErrors \in 0..MaxErrors)'
    BY LogAssumption, <1>5, <2>1 DEF Log!AppendFails, Log!LogTypeOK, Log!Entries
  <2> QED
    BY <2>1, <2>2, <2>3, <2>4, <2>5, <2>6 DEF Log!LogTypeOK, Log!Entries
<1>6. CASE Log!Rename
  <2>1. UNCHANGED <<logged, backlog, queued, lines, clock, unwritten, flushing, diskErrors, deaths>>
    BY <1>6 DEF Log!Rename, Log!Suffix, Log!CutBack
  <2>2. (drain \in {"none", "taking", "appending", "measuring", "pruning"})'
    BY LogAssumption, <1>6, <2>1 DEF Log!Rename, Log!Suffix, Log!CutBack, Log!LogTypeOK,
         Log!Entries
  <2>3. (size \in -1..(2 * MaxLogs))'
    BY LogAssumption, <1>6, <2>1 DEF Log!Rename, Log!Suffix, Log!CutBack, Log!LogTypeOK,
         Log!Entries
  <2>4. (lastRotation \in 0..(MaxClock + MaxLogs))'
    <3>1. Len(lines) \in Nat /\ Len(queued) \in Nat
      BY DEF Log!LogTypeOK
    <3>2. lastRotation + 1 <= MaxClock + MaxLogs
      BY <1>6, <3>1, LogAssumption DEF Log!Rename, SizesAreMeasured, Handed, Log!LogTypeOK
    <3>3. Log!Suffix \in 1..(MaxClock + MaxLogs)
      BY <3>2, SuffixGrows, LogAssumption DEF Log!LogTypeOK
    <3> QED
      BY <1>6, <3>3 DEF Log!Rename
  <2>5. (logFile \in Seq(Log!Entries))'
    BY LogAssumption, <1>6, <2>1 DEF Log!Rename, Log!Suffix, Log!CutBack, Log!LogTypeOK,
         Log!Entries
  <2>6. (DOMAIN rotated \subseteq 1..(MaxClock + MaxLogs))'
    <3>1. Len(lines) \in Nat /\ Len(queued) \in Nat
      BY DEF Log!LogTypeOK
    <3>2. lastRotation + 1 <= MaxClock + MaxLogs
      BY <1>6, <3>1, LogAssumption DEF Log!Rename, SizesAreMeasured, Handed, Log!LogTypeOK
    <3>3. Log!Suffix \in 1..(MaxClock + MaxLogs)
      BY <3>2, SuffixGrows, LogAssumption DEF Log!LogTypeOK
    <3> QED
      BY <1>6, <3>3 DEF Log!Rename, Log!LogTypeOK
  <2>7. (\A f \in DOMAIN rotated : rotated[f] \in Seq(Log!Entries))'
    BY LogAssumption, <1>6, <2>1 DEF Log!Rename, Log!Suffix, Log!CutBack, Log!LogTypeOK,
         Log!Entries
  <2>8. (overwritten \in BOOLEAN)'
    BY LogAssumption, <1>6, <2>1 DEF Log!Rename, Log!Suffix, Log!CutBack, Log!LogTypeOK,
         Log!Entries
  <2>9. (cutBack \in BOOLEAN)'
    BY LogAssumption, <1>6, <2>1 DEF Log!Rename, Log!Suffix, Log!CutBack, Log!LogTypeOK,
         Log!Entries
  <2> QED
    BY <2>1, <2>2, <2>3, <2>4, <2>5, <2>6, <2>7, <2>8, <2>9 DEF Log!LogTypeOK, Log!Entries
<1>7. CASE Log!RenameFails
  <2>1. UNCHANGED <<logged, backlog, queued, lines, size, clock, logFile, rotated, unwritten,
    overwritten, flushing, deaths>>
    BY <1>7 DEF Log!RenameFails, Log!onDisk, Log!Suffix, Log!CutBack
  <2>2. (drain \in {"none", "taking", "appending", "measuring", "pruning"})'
    BY LogAssumption, <1>7, <2>1 DEF Log!RenameFails, Log!onDisk, Log!Suffix, Log!CutBack,
         Log!LogTypeOK, Log!Entries
  <2>3. (lastRotation \in 0..(MaxClock + MaxLogs))'
    <3>1. Len(lines) \in Nat /\ Len(queued) \in Nat
      BY DEF Log!LogTypeOK
    <3>2. lastRotation + 1 <= MaxClock + MaxLogs
      BY <1>7, <3>1, LogAssumption DEF Log!RenameFails, SizesAreMeasured, Handed, Log!LogTypeOK
    <3>3. Log!Suffix \in 1..(MaxClock + MaxLogs)
      BY <3>2, SuffixGrows, LogAssumption DEF Log!LogTypeOK
    <3> QED
      BY <1>7, <3>3 DEF Log!RenameFails
  <2>4. (cutBack \in BOOLEAN)'
    BY LogAssumption, <1>7, <2>1 DEF Log!RenameFails, Log!onDisk, Log!Suffix, Log!CutBack,
         Log!LogTypeOK, Log!Entries
  <2>5. (diskErrors \in 0..MaxErrors)'
    BY LogAssumption, <1>7, <2>1 DEF Log!RenameFails, Log!onDisk, Log!Suffix, Log!CutBack,
         Log!LogTypeOK, Log!Entries
  <2> QED
    BY <2>1, <2>2, <2>3, <2>4, <2>5 DEF Log!LogTypeOK, Log!Entries
<1>8. CASE Log!Prune
  <2>1. UNCHANGED <<logged, backlog, queued, lines, size, lastRotation, clock, logFile,
    unwritten, overwritten, flushing, cutBack, diskErrors, deaths>>
    BY <1>8 DEF Log!Prune, Log!bounded
  <2>2. (drain \in {"none", "taking", "appending", "measuring", "pruning"})'
    BY LogAssumption, <1>8, <2>1 DEF Log!Prune, Log!bounded, Log!LogTypeOK, Log!Entries
  <2>3. (DOMAIN rotated \subseteq 1..(MaxClock + MaxLogs))'
    <3> QED
      BY <1>8 DEF Log!Prune, Log!LogTypeOK, Log!Newest
  <2>4. (\A f \in DOMAIN rotated : rotated[f] \in Seq(Log!Entries))'
    <3> QED
      BY <1>8 DEF Log!Prune, Log!LogTypeOK, Log!Newest
  <2> QED
    BY <2>1, <2>2, <2>3, <2>4 DEF Log!LogTypeOK, Log!Entries
<1>9. CASE Log!PruneFails
  BY LogAssumption, <1>9 DEF Log!PruneFails, Log!onDisk, Log!LogTypeOK, Log!Entries
<1>10. CASE Log!Flush
  BY LogAssumption, <1>10 DEF Log!Flush, Log!onDisk, Log!bounded, Log!LogTypeOK, Log!Entries
<1>11. CASE Log!FlushReturns
  BY LogAssumption, <1>11 DEF Log!FlushReturns, Log!onDisk, Log!bounded, Log!LogTypeOK,
       Log!Entries
<1>12. CASE Log!Clock
  BY LogAssumption, <1>12 DEF Log!Clock, Log!onDisk, Log!LogTypeOK, Log!Entries
<1>13. CASE Log!Restart
  <2>1. UNCHANGED <<logged, clock, logFile, rotated, overwritten, cutBack, diskErrors>>
    BY <1>13 DEF Log!Restart
  <2>2. (backlog \in Seq(Log!Entries))'
    BY LogAssumption, <1>13, <2>1 DEF Log!Restart, Log!LogTypeOK, Log!Entries
  <2>3. (Len(backlog) <= MaxBacklog)'
    BY LogAssumption, <1>13, <2>1 DEF Log!Restart, Log!LogTypeOK, Log!Entries
  <2>4. (queued \in Seq(Log!Entries))'
    BY LogAssumption, <1>13, <2>1 DEF Log!Restart, Log!LogTypeOK, Log!Entries
  <2>5. (drain \in {"none", "taking", "appending", "measuring", "pruning"})'
    BY LogAssumption, <1>13, <2>1 DEF Log!Restart, Log!LogTypeOK, Log!Entries
  <2>6. (lines \in Seq(Log!Entries))'
    BY LogAssumption, <1>13, <2>1 DEF Log!Restart, Log!LogTypeOK, Log!Entries
  <2>7. (size \in -1..(2 * MaxLogs))'
    BY LogAssumption, <1>13, <2>1 DEF Log!Restart, Log!LogTypeOK, Log!Entries
  <2>8. (lastRotation \in 0..(MaxClock + MaxLogs))'
    BY LogAssumption, <1>13, <2>1 DEF Log!Restart, Log!LogTypeOK, Log!Entries
  <2>9. (unwritten \subseteq Log!Entries)'
    <3> QED
      BY <1>13, EntriesOf DEF Log!Restart, Log!LogTypeOK
  <2>10. (flushing \in 0..MaxLogs)'
    BY LogAssumption, <1>13, <2>1 DEF Log!Restart, Log!LogTypeOK, Log!Entries
  <2>11. (deaths \in 0..MaxDeaths)'
    BY LogAssumption, <1>13, <2>1 DEF Log!Restart, Log!LogTypeOK, Log!Entries
  <2> QED
    BY <2>1, <2>2, <2>3, <2>4, <2>5, <2>6, <2>7, <2>8, <2>9, <2>10, <2>11
       DEF Log!LogTypeOK, Log!Entries
<1> QED
  BY <1>1, <1>2, <1>3, <1>4, <1>5, <1>6, <1>7, <1>8, <1>9, <1>10, <1>11, <1>12,
     <1>13 DEF Log!LogNext

LEMMA LogStepsA == LogInvA /\ Log!LogTypeOK /\ [Log!LogNext]_logVars => LogInvA'
<1> SUFFICES ASSUME LogInvA, Log!LogTypeOK, [Log!LogNext]_logVars
             PROVE  LogInvA'
  OBVIOUS
<1>1. CASE UNCHANGED logVars
  BY <1>1 DEF LogInvA, WaitingInOrder, SizesAreMeasured, NamesFollow, EntriesInOrder,
       BacklogEnds, Log!LogTypeOK, Handed, Log!Entries, logVars
<1>2. CASE Log!Log
  <2>1. UNCHANGED <<lines, size, lastRotation, clock, logFile, rotated, unwritten, overwritten,
    flushing, cutBack, diskErrors, deaths>>
    BY <1>2 DEF Log!Log, Log!onDisk, Log!bounded, Log!Bounded
  <2>2. WaitingInOrder'
    <3>1. \A i \in DOMAIN queued' : i \in 1..Len(queued) \/ i = Len(queued) + 1
      BY LogAppends, <1>2, LogNumbers
    <3>2. queued # <<>> => drain # "none"
      BY DEF LogInvA, WaitingInOrder
    <3>3. \A i \in 1..Len(queued) : queued[i] = Handed + Len(lines) + i
      BY DEF LogInvA, WaitingInOrder, Log!LogTypeOK
    <3>4. \A i \in DOMAIN queued' : queued'[i] = Handed + Len(lines) + i
      <4> SUFFICES ASSUME NEW i \in DOMAIN queued' PROVE queued'[i] = Handed + Len(lines) + i
        OBVIOUS
      <4>1. CASE i \in 1..Len(queued)
        BY <4>1, <3>3, LogAppends, <1>2
      <4>2. CASE i = Len(queued) + 1
        <5>1. queued'[i] = logged + 1
          BY <4>2, LogAppends, <1>2
        <5> QED
          BY <4>2, <5>1, LogNumbers DEF Handed
      <4> QED
        BY <3>1, <4>1, <4>2
    <3>5. drain' # "none" /\ lines' = lines /\ Handed' = Handed
        /\ (drain = "appending" <=> drain' = "appending")
      BY <1>2, LogAppends DEF Log!Log
    <3> QED
      BY <3>4, <3>5 DEF LogInvA, WaitingInOrder
  <2>3. SizesAreMeasured'
    <3>1. Handed' = Handed
      BY <1>2, LogAppends
    <3>2. drain' = drain \/ (drain = "none" /\ drain' = "taking")
      BY <1>2 DEF Log!Log
    <3> QED
      BY <3>1, <3>2, <2>1 DEF LogInvA, SizesAreMeasured
  <2>4. EntriesInOrder'
    BY LogAssumption, <1>2, <2>1 DEF Log!Log, Log!onDisk, Log!bounded, Log!Bounded, LogInvA,
         WaitingInOrder, SizesAreMeasured, NamesFollow, EntriesInOrder, BacklogEnds,
         Log!LogTypeOK, Handed, Log!Entries
  <2>5. BacklogEnds'
    <3>1. backlog \in Seq(Nat) /\ logged + 1 \in Nat
      BY LogNumbers, NumbersOf DEF Log!LogTypeOK
    <3> DEFINE more == Append(backlog, logged + 1)
    <3>2. more \in Seq(Nat) /\ Len(more) = Len(backlog) + 1
      BY <3>1
    <3>3. \A i \in 1..Len(more) : more[i] = logged + 1 - Len(more) + i
      BY <3>1, <3>2, LogNumbers DEF LogInvA, BacklogEnds
    <3>4. backlog' = more \/ (more # <<>> /\ backlog' = Tail(more))
      <4>1. backlog' = Log!Bounded(more)
        BY <1>2 DEF Log!Log
      <4>2. CASE Len(more) > MaxBacklog
        <5>1. more # <<>>
          BY <3>1
        <5> QED
          BY <4>1, <4>2, <5>1 DEF Log!Bounded
      <4>3. CASE ~(Len(more) > MaxBacklog)
        BY <4>1, <4>3 DEF Log!Bounded
      <4> QED
        BY <4>2, <4>3
    <3>5. CASE backlog' = more
      <4>1. logged' = logged + 1 /\ DOMAIN backlog' = 1..Len(more)
        BY <3>2, <3>5, <1>2 DEF Log!Log
      <4>0. PICK n \in Nat : n = Len(more)
        BY <3>1, <3>2
      <4> HIDE DEF more
      <4>2. ASSUME NEW i \in DOMAIN backlog'
            PROVE  backlog'[i] = logged' - Len(backlog') + i
        <5>1. i \in 1..n /\ backlog'[i] = more[i] /\ Len(backlog') = n
          BY <3>5, <4>0, <4>1, <4>2
        <5>2. more[i] = logged + 1 - n + i
          BY <3>3, <4>0, <5>1
        <5>3. logged' = logged + 1 /\ logged \in Nat
          BY <4>1, LogNumbers
        <5> QED
          BY <5>1, <5>2, <5>3
      <4> QED
        BY <4>2 DEF BacklogEnds
    <3>6. CASE more # <<>> /\ backlog' = Tail(more)
      <4> HIDE DEF more
      <4>1. Len(backlog') = Len(more) - 1 /\ \A i \in 1..Len(backlog') : backlog'[i] = more[i + 1]
          /\ i + 1 \in 1..Len(more)
        BY <3>2, <3>6
      <4>2. DOMAIN backlog' = 1..Len(backlog')
        BY <3>2, <3>6
      <4>3. logged' = logged + 1
        BY <1>2 DEF Log!Log
      <4>4. ASSUME NEW i \in DOMAIN backlog'
            PROVE  backlog'[i] = logged' - Len(backlog') + i
        <5>1. backlog'[i] = more[i + 1] /\ i + 1 \in 1..Len(more) /\ i \in Nat
          BY <4>1, <4>2, <4>4
        <5>2. more[i + 1] = logged + 1 - Len(more) + (i + 1)
          BY <5>1, <3>3
        <5>3. Len(more) \in Nat /\ Len(backlog') = Len(more) - 1
          BY <3>2, <4>1, LogNumbers
        <5>4. \A a, b, j \in Int : a + 1 - b + (j + 1) = (a + 1) - (b - 1) + j
          OBVIOUS
        <5>5. logged + 1 - Len(more) + (i + 1) = (logged + 1) - (Len(more) - 1) + i
          BY <5>1, <5>3, <5>4, LogNumbers
        <5> QED
          BY <5>1, <5>2, <5>3, <5>5, <4>3
      <4> QED
        BY <4>4 DEF BacklogEnds
    <3> QED
      BY <3>4, <3>5, <3>6
  <2> QED
    BY <2>1, <2>2, <2>3, <2>4, <2>5 DEF LogInvA, WaitingInOrder, SizesAreMeasured,
         NamesFollow, EntriesInOrder, BacklogEnds, Handed
<1>3. CASE Log!TakeBatch
  <2>1. UNCHANGED <<logged, backlog, size, lastRotation, clock, logFile, rotated, unwritten,
    overwritten, flushing, cutBack, diskErrors, deaths>>
    BY <1>3 DEF Log!TakeBatch, Log!onDisk, Log!bounded
  <2>2. WaitingInOrder'
    BY LogAssumption, <1>3, <2>1 DEF Log!TakeBatch, Log!onDisk, Log!bounded, LogInvA,
         WaitingInOrder, SizesAreMeasured, NamesFollow, EntriesInOrder, BacklogEnds,
         Log!LogTypeOK, Handed, Log!Entries
  <2>3. SizesAreMeasured'
    BY LogAssumption, <1>3, <2>1 DEF Log!TakeBatch, Log!onDisk, Log!bounded, LogInvA,
         WaitingInOrder, SizesAreMeasured, NamesFollow, EntriesInOrder, BacklogEnds,
         Log!LogTypeOK, Handed, Log!Entries
  <2>4. EntriesInOrder'
    <3>1. Handed' = Handed
      BY <1>3, LogNumbers DEF Log!TakeBatch, Handed, LogInvA, WaitingInOrder
    <3> QED
      BY <3>1, <2>1 DEF LogInvA, EntriesInOrder
  <2> QED
    BY <2>1, <2>2, <2>3, <2>4 DEF LogInvA, WaitingInOrder, SizesAreMeasured, NamesFollow,
         EntriesInOrder, BacklogEnds, Handed
<1>4. CASE Log!AppendBatch
  <2>1. UNCHANGED <<logged, backlog, queued, lastRotation, clock, rotated, unwritten,
    overwritten, flushing, cutBack, diskErrors, deaths>>
    BY <1>4 DEF Log!AppendBatch, Log!bounded
  <2>2. WaitingInOrder'
    BY LogAssumption, <1>4, <2>1 DEF Log!AppendBatch, Log!bounded, LogInvA, WaitingInOrder,
         SizesAreMeasured, NamesFollow, EntriesInOrder, BacklogEnds, Log!LogTypeOK, Handed,
         Log!Entries
  <2>3. SizesAreMeasured'
    <3>1. Handed' = Handed + Len(lines) /\ Len(lines) >= 1
      BY <1>4, BatchIsHanded DEF Log!AppendBatch, LogInvA
    <3>0. Handed' \in Int /\ Handed <= Handed'
      BY <3>1, LogNumbers
    <3>2. Len(logFile') = Len(logFile) + Len(lines)
      BY <1>4, FileAppended
    <3>3. size' = Len(logFile) + Len(lines) /\ drain' \in {"measuring",
      "taking"} /\ drain = "appending" /\ lastRotation' = lastRotation
      BY <1>4 DEF Log!AppendBatch, LogInvA, SizesAreMeasured
    <3>4. Len(logFile) <= Handed /\ lastRotation <= MaxClock + Handed
      BY <3>3, LogNumbers, LogAssumption DEF LogInvA, SizesAreMeasured
    <3> QED
      BY <3>1, <3>2, <3>3, <3>4, LogNumbers, LogAssumption DEF SizesAreMeasured
  <2>4. EntriesInOrder'
    <3>1. Handed' = Handed + Len(lines) /\ Len(lines) >= 1
      BY <1>4, BatchIsHanded DEF Log!AppendBatch, LogInvA
    <3>0. Handed' \in Int /\ Handed <= Handed'
      BY <3>1, LogNumbers
    <3>2. \A i \in DOMAIN logFile' : logFile'[i] <= Handed'
      <4> SUFFICES ASSUME NEW i \in DOMAIN logFile' PROVE logFile'[i] <= Handed'
        OBVIOUS
      <4>1. CASE i \in 1..Len(logFile)
        <5>1. logFile'[i] = logFile[i] /\ i \in DOMAIN logFile
          BY <1>4, <4>1, FileAppended, NumbersOf DEF Log!LogTypeOK
        <5> QED
          BY <5>1, <3>1, InOrderLater, LogNumbers DEF LogInvA
      <4>2. CASE i \notin 1..Len(logFile)
        <5> DEFINE j == i - Len(logFile)
        <5>1. j \in 1..Len(lines) /\ i = Len(logFile) + j
          BY <1>4, <4>2, FileAppended, LogNumbers
        <5>2. logFile'[i] = lines[j]
          BY <1>4, <5>1, FileAppended
        <5>3. lines[j] = Handed + j
          BY <5>1 DEF LogInvA, WaitingInOrder, Log!LogTypeOK
        <5> QED
          BY <3>1, <5>1, <5>2, <5>3, LogNumbers
      <4> QED
        BY <4>1, <4>2
    <3>3. unwritten' \subseteq 1..Handed'
      BY <2>1, <3>1, LogNumbers DEF LogInvA, EntriesInOrder
    <3>4. \A f \in DOMAIN rotated : \A i \in DOMAIN rotated[f] : rotated[f][i] <= Handed'
      BY <3>0, InOrderLater DEF LogInvA
    <3> QED
      BY <2>1, <3>2, <3>3, <3>4 DEF EntriesInOrder
  <2> QED
    BY <2>1, <2>2, <2>3, <2>4 DEF LogInvA, WaitingInOrder, SizesAreMeasured, NamesFollow,
         EntriesInOrder, BacklogEnds, Handed
<1>5. CASE Log!AppendFails
  <2>1. UNCHANGED <<logged, backlog, queued, lastRotation, clock, logFile, rotated, overwritten,
    flushing, cutBack, deaths>>
    BY <1>5 DEF Log!AppendFails
  <2>2. WaitingInOrder'
    BY LogAssumption, <1>5, <2>1 DEF Log!AppendFails, LogInvA, WaitingInOrder,
         SizesAreMeasured, NamesFollow, EntriesInOrder, BacklogEnds, Log!LogTypeOK, Handed,
         Log!Entries
  <2>3. SizesAreMeasured'
    BY LogAssumption, <1>5, <2>1 DEF Log!AppendFails, LogInvA, WaitingInOrder,
         SizesAreMeasured, NamesFollow, EntriesInOrder, BacklogEnds, Log!LogTypeOK, Handed,
         Log!Entries
  <2>4. EntriesInOrder'
    <3>1. Handed' = Handed + Len(lines) /\ Len(lines) >= 1
      BY <1>5, BatchIsHanded DEF Log!AppendFails, LogInvA
    <3>0. Handed' \in Int /\ Handed <= Handed'
      BY <3>1, LogNumbers
    <3>2. Log!ToSet(lines) \subseteq 1..Handed'
      BY <3>1, LogNumbers DEF Log!ToSet, LogInvA, WaitingInOrder, Log!LogTypeOK
    <3>3. unwritten' \subseteq 1..Handed'
      BY <1>5, <3>1, <3>2, InOrderLater, LogNumbers DEF Log!AppendFails, LogInvA
    <3>4. \A f \in DOMAIN rotated : \A i \in DOMAIN rotated[f] : rotated[f][i] <= Handed'
      BY <3>0, InOrderLater DEF LogInvA
    <3>5. \A i \in DOMAIN logFile : logFile[i] <= Handed'
      BY <3>0, InOrderLater DEF LogInvA
    <3> QED
      BY <2>1, <3>3, <3>4, <3>5 DEF EntriesInOrder
  <2> QED
    BY <2>1, <2>2, <2>3, <2>4 DEF LogInvA, WaitingInOrder, SizesAreMeasured, NamesFollow,
         EntriesInOrder, BacklogEnds, Handed
<1>6. CASE Log!Rename
  <2>1. UNCHANGED <<logged, backlog, queued, lines, clock, unwritten, flushing, diskErrors, deaths>>
    BY <1>6 DEF Log!Rename, Log!Suffix, Log!CutBack
  <2>2. WaitingInOrder'
    BY LogAssumption, <1>6, <2>1 DEF Log!Rename, Log!Suffix, Log!CutBack, LogInvA,
         WaitingInOrder, SizesAreMeasured, NamesFollow, EntriesInOrder, BacklogEnds,
         Log!LogTypeOK, Handed, Log!Entries
  <2>3. SizesAreMeasured'
    <3>1. Log!Suffix \in {clock, lastRotation + 1} /\ clock <= MaxClock
      BY SuffixGrows, LogNumbers, LogAssumption DEF Log!LogTypeOK
    <3>2. Handed' = Handed /\ drain' \notin {"measuring"} /\ drain = "measuring"
        /\ lastRotation' = Log!Suffix
      BY <1>6 DEF Log!Rename, Handed
    <3>3. lastRotation' <= MaxClock + Handed'
      BY <3>1, <3>2, LogNumbers, LogAssumption DEF LogInvA, SizesAreMeasured

    <3>4. Len(logFile') = 0 /\ size' = 0
      BY <1>6, RotatedNow DEF Log!Rename
    <3>5. Len(logFile) <= Handed /\ lastRotation' \in Int
      BY SuffixGrows, LogNumbers, <3>2 DEF LogInvA, SizesAreMeasured
    <3>6. \A n \in Int : n + 0 = n
      OBVIOUS
    <3> QED
      BY <3>2, <3>3, <3>4, <3>5, <3>6, LogNumbers DEF SizesAreMeasured
  <2>4. NamesFollow'
    <3> SUFFICES ASSUME ~cutBack'
                 PROVE  ~overwritten' /\ (lastRotation' > 0
                                          => \A f \in DOMAIN rotated' : f <= lastRotation')
      BY DEF NamesFollow
    <3>1. ~cutBack /\ ~Log!CutBack /\ lastRotation' = Log!Suffix
      BY <1>6 DEF Log!Rename
    <3>2. \A f \in DOMAIN rotated : f < Log!Suffix /\ f \in Nat
      BY <3>1, NamesAreBehind DEF LogInvA, Log!LogTypeOK
    <3>3. Log!Suffix \in Nat
      BY SuffixGrows, LogNumbers

    <3>4. Log!Suffix \notin DOMAIN rotated
      BY <3>2, <3>3
    <3> QED
      BY <1>6, <3>1, <3>2, <3>3, <3>4, RotatedNow DEF Log!Rename, LogInvA, NamesFollow
  <2>5. EntriesInOrder'
    <3>1. Handed' = Handed
      BY <1>6, RotatedNow
    <3>2. \A f \in DOMAIN rotated' : \A i \in DOMAIN rotated'[f] : rotated'[f][i] <= Handed
      BY <1>6, RotatedNow DEF LogInvA, EntriesInOrder
    <3>3. DOMAIN logFile' = {}
      BY <1>6, RotatedNow
    <3> QED
      BY <2>1, <3>1, <3>2, <3>3 DEF LogInvA, EntriesInOrder
  <2> QED
    BY <2>1, <2>2, <2>3, <2>4, <2>5 DEF LogInvA, WaitingInOrder, SizesAreMeasured,
         NamesFollow, EntriesInOrder, BacklogEnds, Handed
<1>7. CASE Log!RenameFails
  <2>1. UNCHANGED <<logged, backlog, queued, lines, size, clock, logFile, rotated, unwritten,
    overwritten, flushing, deaths>>
    BY <1>7 DEF Log!RenameFails, Log!onDisk, Log!Suffix, Log!CutBack
  <2>2. WaitingInOrder'
    BY LogAssumption, <1>7, <2>1 DEF Log!RenameFails, Log!onDisk, Log!Suffix, Log!CutBack,
         LogInvA, WaitingInOrder, SizesAreMeasured, NamesFollow, EntriesInOrder, BacklogEnds,
         Log!LogTypeOK, Handed, Log!Entries
  <2>3. SizesAreMeasured'
    <3>1. Log!Suffix \in {clock, lastRotation + 1} /\ clock <= MaxClock
      BY SuffixGrows, LogNumbers, LogAssumption DEF Log!LogTypeOK
    <3>2. Handed' = Handed /\ drain' \notin {"measuring"} /\ drain = "measuring"
        /\ lastRotation' = Log!Suffix
      BY <1>7 DEF Log!RenameFails, Handed
    <3>3. lastRotation' <= MaxClock + Handed'
      BY <3>1, <3>2, LogNumbers, LogAssumption DEF LogInvA, SizesAreMeasured

    <3>4. logFile' = logFile /\ size' = size /\ drain' = "taking"
      BY <1>7 DEF Log!RenameFails, Log!onDisk
    <3>5. Len(logFile) <= Handed /\ lastRotation' \in Int
      BY SuffixGrows, LogNumbers, <3>2 DEF LogInvA, SizesAreMeasured
    <3>6. \A n \in Int : n + 0 = n
      OBVIOUS
    <3> QED
      BY <3>2, <3>3, <3>4, <3>5, <3>6, LogNumbers DEF SizesAreMeasured, LogInvA
  <2>4. NamesFollow'
    <3> SUFFICES ASSUME ~cutBack'
                 PROVE  ~overwritten' /\ (lastRotation' > 0
                                          => \A f \in DOMAIN rotated' : f <= lastRotation')
      BY DEF NamesFollow
    <3>1. ~cutBack /\ ~Log!CutBack /\ lastRotation' = Log!Suffix
      BY <1>7 DEF Log!RenameFails
    <3>2. \A f \in DOMAIN rotated : f < Log!Suffix /\ f \in Nat
      BY <3>1, NamesAreBehind DEF LogInvA, Log!LogTypeOK
    <3>3. Log!Suffix \in Nat
      BY SuffixGrows, LogNumbers

    <3> QED
      BY <1>7, <3>1, <3>2, <3>3 DEF Log!RenameFails, Log!onDisk, LogInvA, NamesFollow
  <2> QED
    BY <2>1, <2>2, <2>3, <2>4 DEF LogInvA, WaitingInOrder, SizesAreMeasured, NamesFollow,
         EntriesInOrder, BacklogEnds, Handed
<1>8. CASE Log!Prune
  <2>1. UNCHANGED <<logged, backlog, queued, lines, size, lastRotation, clock, logFile,
    unwritten, overwritten, flushing, cutBack, diskErrors, deaths>>
    BY <1>8 DEF Log!Prune, Log!bounded
  <2>2. WaitingInOrder'
    BY LogAssumption, <1>8, <2>1 DEF Log!Prune, Log!bounded, LogInvA, WaitingInOrder,
         SizesAreMeasured, NamesFollow, EntriesInOrder, BacklogEnds, Log!LogTypeOK, Handed,
         Log!Entries
  <2>3. SizesAreMeasured'
    BY LogAssumption, <1>8, <2>1 DEF Log!Prune, Log!bounded, LogInvA, WaitingInOrder,
         SizesAreMeasured, NamesFollow, EntriesInOrder, BacklogEnds, Log!LogTypeOK, Handed,
         Log!Entries
  <2>4. NamesFollow'
    <3> QED
      BY <1>8, <2>1, PrunedNow DEF LogInvA, NamesFollow, Log!Prune, Log!bounded
  <2>5. EntriesInOrder'
    <3>1. \A f \in DOMAIN rotated' : \A i \in DOMAIN rotated'[f] : rotated'[f][i] <= Handed
      BY <1>8, PrunedNow DEF LogInvA, EntriesInOrder
    <3> QED
      BY <1>8, <2>1, <3>1, PrunedNow DEF LogInvA, EntriesInOrder
  <2> QED
    BY <2>1, <2>2, <2>3, <2>4, <2>5 DEF LogInvA, WaitingInOrder, SizesAreMeasured,
         NamesFollow, EntriesInOrder, BacklogEnds, Handed
<1>9. CASE Log!PruneFails
  <2>1. UNCHANGED <<logged, backlog, queued, lines, size, lastRotation, clock, logFile, rotated,
    unwritten, overwritten, flushing, cutBack, deaths>>
    BY <1>9 DEF Log!PruneFails, Log!onDisk
  <2>2. WaitingInOrder'
    BY LogAssumption, <1>9, <2>1 DEF Log!PruneFails, Log!onDisk, LogInvA, WaitingInOrder,
         SizesAreMeasured, NamesFollow, EntriesInOrder, BacklogEnds, Log!LogTypeOK, Handed,
         Log!Entries
  <2>3. SizesAreMeasured'
    BY LogAssumption, <1>9, <2>1 DEF Log!PruneFails, Log!onDisk, LogInvA, WaitingInOrder,
         SizesAreMeasured, NamesFollow, EntriesInOrder, BacklogEnds, Log!LogTypeOK, Handed,
         Log!Entries
  <2> QED
    BY <2>1, <2>2, <2>3 DEF LogInvA, WaitingInOrder, SizesAreMeasured, NamesFollow,
         EntriesInOrder, BacklogEnds, Handed
<1>10. CASE Log!Flush
  <2>1. UNCHANGED <<logged, backlog, queued, drain, lines, size, lastRotation, clock, logFile,
    rotated, unwritten, overwritten, cutBack, diskErrors, deaths>>
    BY <1>10 DEF Log!Flush, Log!onDisk, Log!bounded
  <2> QED
    BY <2>1 DEF LogInvA, WaitingInOrder, SizesAreMeasured, NamesFollow, EntriesInOrder,
         BacklogEnds, Handed
<1>11. CASE Log!FlushReturns
  <2>1. UNCHANGED <<logged, backlog, queued, drain, lines, size, lastRotation, clock, logFile,
    rotated, unwritten, overwritten, cutBack, diskErrors, deaths>>
    BY <1>11 DEF Log!FlushReturns, Log!onDisk, Log!bounded
  <2> QED
    BY <2>1 DEF LogInvA, WaitingInOrder, SizesAreMeasured, NamesFollow, EntriesInOrder,
         BacklogEnds, Handed
<1>12. CASE Log!Clock
  <2>1. UNCHANGED <<logged, backlog, queued, drain, lines, size, lastRotation, logFile, rotated,
    unwritten, overwritten, flushing, cutBack, diskErrors, deaths>>
    BY <1>12 DEF Log!Clock, Log!onDisk
  <2> QED
    BY <2>1 DEF LogInvA, WaitingInOrder, SizesAreMeasured, NamesFollow, EntriesInOrder,
         BacklogEnds, Handed
<1>13. CASE Log!Restart
  <2>1. UNCHANGED <<logged, clock, logFile, rotated, overwritten, cutBack, diskErrors>>
    BY <1>13 DEF Log!Restart
  <2>2. WaitingInOrder'
    BY LogAssumption, <1>13, <2>1 DEF Log!Restart, LogInvA, WaitingInOrder, SizesAreMeasured,
         NamesFollow, EntriesInOrder, BacklogEnds, Log!LogTypeOK, Handed, Log!Entries
  <2>3. SizesAreMeasured'
    BY LogAssumption, <1>13, <2>1 DEF Log!Restart, LogInvA, WaitingInOrder, SizesAreMeasured,
         NamesFollow, EntriesInOrder, BacklogEnds, Log!LogTypeOK, Handed, Log!Entries
  <2>4. NamesFollow'
    BY LogAssumption, <1>13, <2>1 DEF Log!Restart, LogInvA, WaitingInOrder, SizesAreMeasured,
         NamesFollow, EntriesInOrder, BacklogEnds, Log!LogTypeOK, Handed, Log!Entries
  <2>5. EntriesInOrder'
    <3>1. Handed' = logged /\ Handed <= logged
      BY <1>13, LogNumbers DEF Log!Restart, Handed
    <3>2. Log!ToSet(lines) \subseteq 1..logged /\ Log!ToSet(queued) \subseteq 1..logged
      <4>1. ASSUME NEW j \in DOMAIN lines
            PROVE  lines[j] \in 1..logged
        <5>1. j \in 1..Len(lines)
          BY NumbersOf DEF Log!LogTypeOK
        <5>3. lines[j] = Handed + j
          BY DEF LogInvA, WaitingInOrder
        <5>2. Handed >= 0 /\ Handed + Len(lines) + Len(queued) = logged
          BY LogNumbers DEF LogInvA, WaitingInOrder, Handed
        <5> QED
          BY <5>1, <5>2, <5>3, LogNumbers
      <4>2. ASSUME NEW j \in DOMAIN queued
            PROVE  queued[j] \in 1..logged
        <5>1. j \in 1..Len(queued)
          BY NumbersOf DEF Log!LogTypeOK
        <5>3. queued[j] = Handed + Len(lines) + j
          BY DEF LogInvA, WaitingInOrder
        <5>2. Handed >= 0 /\ Handed + Len(lines) + Len(queued) = logged
          BY LogNumbers DEF LogInvA, WaitingInOrder, Handed
        <5> QED
          BY <5>1, <5>2, <5>3, LogNumbers
      <4> QED
        BY <4>1, <4>2 DEF Log!ToSet
    <3>3. unwritten' \subseteq 1..Handed'
      BY <1>13, <3>1, <3>2, InOrderLater, LogNumbers DEF Log!Restart, LogInvA
    <3>4. \A f \in DOMAIN rotated : \A i \in DOMAIN rotated[f] : rotated[f][i] <= Handed'
      BY <3>1, InOrderLater, LogNumbers DEF LogInvA
    <3>5. \A i \in DOMAIN logFile : logFile[i] <= Handed'
      BY <3>1, InOrderLater, LogNumbers DEF LogInvA
    <3> QED
      BY <2>1, <3>3, <3>4, <3>5 DEF EntriesInOrder
  <2>6. BacklogEnds'
    BY LogAssumption, <1>13, <2>1 DEF Log!Restart, LogInvA, WaitingInOrder, SizesAreMeasured,
         NamesFollow, EntriesInOrder, BacklogEnds, Log!LogTypeOK, Handed, Log!Entries
  <2> QED
    BY <2>1, <2>2, <2>3, <2>4, <2>5, <2>6 DEF LogInvA, WaitingInOrder, SizesAreMeasured,
         NamesFollow, EntriesInOrder, BacklogEnds, Handed
<1> QED
  BY <1>1, <1>2, <1>3, <1>4, <1>5, <1>6, <1>7, <1>8, <1>9, <1>10, <1>11, <1>12,
     <1>13 DEF Log!LogNext

LEMMA EntriesAre ==
  ASSUME Log!LogTypeOK
  PROVE  /\ Log!ToSet(logFile) = {logFile[i] : i \in DOMAIN logFile}
         /\ \A f \in DOMAIN rotated : Log!ToSet(rotated[f]) = {rotated[f][i] : i \in DOMAIN rotated[f]}
BY DEF Log!ToSet

\* What waits is what was logged and not handed to the disk.
LEMMA WaitingIs ==
  ASSUME Log!LogTypeOK, WaitingInOrder
  PROVE  Log!ToSet(queued) \cup Log!ToSet(lines) = (Handed + 1)..logged
<1>1. DOMAIN lines = 1..Len(lines) /\ DOMAIN queued = 1..Len(queued)
  BY NumbersOf DEF Log!LogTypeOK
<1>2. \A i \in 1..Len(lines) : lines[i] = Handed + i
  BY <1>1 DEF WaitingInOrder
<1>3. \A i \in 1..Len(queued) : queued[i] = Handed + Len(lines) + i
  BY <1>1 DEF WaitingInOrder
<1>4. logged = Handed + Len(lines) + Len(queued)
  BY LogNumbers DEF Handed
<1>5. Log!ToSet(lines) = (Handed + 1)..(Handed + Len(lines))
  <2>1. ASSUME NEW n \in (Handed + 1)..(Handed + Len(lines))
        PROVE  n \in Log!ToSet(lines)
    <3>1. n - Handed \in 1..Len(lines) /\ lines[n - Handed] = n
      BY <1>2, LogNumbers
    <3> QED
      BY <1>1, <3>1 DEF Log!ToSet
  <2>2. ASSUME NEW n \in Log!ToSet(lines)
        PROVE  n \in (Handed + 1)..(Handed + Len(lines))
    BY <1>1, <1>2, LogNumbers DEF Log!ToSet
  <2> QED
    BY <2>1, <2>2
<1>6. Log!ToSet(queued) = (Handed + Len(lines) + 1)..logged
  <2>1. ASSUME NEW n \in (Handed + Len(lines) + 1)..logged
        PROVE  n \in Log!ToSet(queued)
    <3>1. n - (Handed + Len(lines)) \in 1..Len(queued) /\ queued[n - (Handed + Len(lines))] = n
      BY <1>3, <1>4, LogNumbers
    <3> QED
      BY <1>1, <3>1 DEF Log!ToSet
  <2>2. ASSUME NEW n \in Log!ToSet(queued)
        PROVE  n \in (Handed + Len(lines) + 1)..logged
    BY <1>1, <1>3, <1>4, LogNumbers DEF Log!ToSet
  <2> QED
    BY <2>1, <2>2
<1> QED
  BY <1>4, <1>5, <1>6, LogNumbers

\* The run of the files, said of what was handed to the disk.
Run ==
  /\ Log!Rising(logFile)
  /\ \A f \in DOMAIN rotated :
       /\ Log!Rising(rotated[f]) /\ Log!Before(rotated[f], logFile)
       /\ \A g \in DOMAIN rotated : f < g => Log!Before(rotated[f], rotated[g])
  /\ \A e, n \in 1..Handed : e \in Log!Held /\ n >= e => (n \in Log!Held <=> n \notin unwritten)

LEMMA HeldIsHanded ==
  ASSUME Log!LogTypeOK, EntriesInOrder, Handed <= logged
  PROVE  Log!Held \subseteq 1..Handed /\ Handed \in Int
<1>1. ASSUME NEW e \in Log!ToSet(logFile)
      PROVE  e \in 1..Handed
  BY NumbersOf, LogNumbers DEF EntriesInOrder, Log!ToSet, Log!LogTypeOK, Log!Entries
<1>2. ASSUME NEW f \in DOMAIN rotated, NEW e \in Log!ToSet(rotated[f])
      PROVE  e \in 1..Handed
  <2>1. PICK i \in DOMAIN rotated[f] : e = rotated[f][i]
    BY DEF Log!ToSet
  <2>2. e \in Nat /\ e \in Log!Entries
    BY <2>1, NumbersOf DEF Log!LogTypeOK
  <2>3. e <= Handed
    BY <2>1 DEF EntriesInOrder
  <2> QED
    BY <2>2, <2>3, LogNumbers DEF Log!Entries
<1> QED
  BY <1>1, <1>2, LogNumbers DEF Log!Held

LEMMA RunIs ==
  ASSUME Log!LogTypeOK, WaitingInOrder, EntriesInOrder
  PROVE  Log!FilesHoldTheEnd <=> Run
<1>1. Log!Held \subseteq 1..Handed /\ Handed \in Int /\ Handed <= logged
  BY HeldIsHanded, LogNumbers DEF Handed
<1>2. \A e \in Log!Held : (e..logged) \ (unwritten \cup Log!ToSet(queued) \cup Log!ToSet(lines)) = (e..Handed) \ unwritten
  <2> SUFFICES ASSUME NEW e \in Log!Held
               PROVE  (e..logged) \ (unwritten \cup ((Handed + 1)..logged)) = (e..Handed) \ unwritten
    BY WaitingIs
  <2>1. e \in Int /\ logged \in Int /\ e >= 1
    BY <1>1, LogNumbers
  <2>2. \A n \in Int : n \in e..logged /\ n \notin (Handed + 1)..logged <=> n \in e..Handed
    BY <1>1, <2>1
  <2> QED
    BY <1>1, <2>1, <2>2
<1>3. \A e \in Log!Held : {n \in Log!Held : n >= e} = (e..Handed) \ unwritten <=>
         \A n \in 1..Handed : n >= e => (n \in Log!Held <=> n \notin unwritten)
  <2> SUFFICES ASSUME NEW e \in Log!Held
               PROVE  {n \in Log!Held : n >= e} = (e..Handed) \ unwritten <=>
                        \A n \in 1..Handed : n >= e => (n \in Log!Held <=> n \notin unwritten)
    OBVIOUS
  <2>1. e \in 1..Handed
    BY <1>1
  <2>2. \A n : n \in e..Handed <=> n \in 1..Handed /\ n >= e
    BY <1>1, <2>1
  <2>3. \A n \in Log!Held : n \in 1..Handed
    BY <1>1
  <2> QED
    BY <2>2, <2>3
<1>4. (\A e \in Log!Held : {n \in Log!Held : n >= e} = (e..logged) \ (unwritten \cup Log!ToSet(queued) \cup Log!ToSet(lines)))
      <=> \A e, n \in 1..Handed : e \in Log!Held /\ n >= e
          => (n \in Log!Held <=> n \notin unwritten)
  BY <1>1, <1>2, <1>3
<1> QED
  BY <1>4 DEF Log!FilesHoldTheEnd, Run

\* The steps that write nothing to a file and hand nothing over keep the run.
LEMMA RunKept ==
  ASSUME Log!LogTypeOK, Run, UNCHANGED <<logFile, rotated>>, NEW h \in Int, Handed' = h,
         \/ Handed = h
         \/ /\ Handed <= h /\ unwritten \subseteq 1..Handed
            /\ unwritten' = unwritten \cup ((Handed + 1)..h) /\ Log!Held \subseteq 1..Handed,
         Handed = h => unwritten' = unwritten
  PROVE  Run'
<1>1. Log!Held' = Log!Held
  BY DEF Log!Held
<1>2. CASE Handed = h
  BY <1>1, <1>2 DEF Run, Log!Rising, Log!Before
<1>3. CASE Handed # h
  <2>1. \A e, n \in 1..Handed' : e \in Log!Held' /\ n >= e
      => (n \in Log!Held' <=> n \notin unwritten')
    <3> SUFFICES ASSUME NEW e \in 1..h, NEW n \in 1..h, e \in Log!Held, n >= e
                 PROVE  n \in Log!Held <=> n \notin unwritten'
      BY <1>1
    <3>1. e \in 1..Handed
      BY <1>3
    <3>2. CASE n \in 1..Handed
      BY <1>3, <3>1, <3>2, LogNumbers DEF Run
    <3>3. CASE n \notin 1..Handed
      BY <1>3, <3>3, LogNumbers
    <3> QED
      BY <3>2, <3>3
  <2> QED
    BY <1>1, <2>1 DEF Run, Log!Rising, Log!Before
<1> QED
  BY <1>2, <1>3

LEMMA RunStays ==
  ASSUME Log!LogTypeOK, Run, logFile' = logFile, rotated' = rotated, unwritten' = unwritten,
         Handed' = Handed
  PROVE  Run'
<1>1. Log!Held' = Log!Held
  BY DEF Log!Held
<1> QED
  BY <1>1 DEF Run, Log!Rising, Log!Before

LEMMA RunAppended ==
  ASSUME Log!LogTypeOK, LogInvA, Run, Log!AppendBatch
  PROVE  Run'
<1>1. Handed' = Handed + Len(lines) /\ Len(lines) >= 1 /\ Handed \in Int /\ Len(lines) \in Nat
  BY BatchIsHanded, LogNumbers DEF Log!AppendBatch, LogInvA
<1>2. Log!Held \subseteq 1..Handed
  BY HeldIsHanded, LogNumbers DEF Handed, LogInvA
<1>3. Log!ToSet(lines) = (Handed + 1)..Handed'
  <2>1. DOMAIN lines = 1..Len(lines) /\ \A i \in 1..Len(lines) : lines[i] = Handed + i
    BY NumbersOf DEF Log!LogTypeOK, LogInvA, WaitingInOrder
  <2>2. ASSUME NEW n \in (Handed + 1)..Handed'
        PROVE  n \in Log!ToSet(lines)
    <3>1. n - Handed \in 1..Len(lines) /\ lines[n - Handed] = n
      BY <1>1, <2>1
    <3> QED
      BY <2>1, <3>1 DEF Log!ToSet
  <2>3. ASSUME NEW n \in Log!ToSet(lines)
        PROVE  n \in (Handed + 1)..Handed'
    BY <1>1, <2>1 DEF Log!ToSet
  <2> QED
    BY <2>2, <2>3
<1>4. Log!ToSet(logFile') = Log!ToSet(logFile) \cup Log!ToSet(lines)
  BY EntriesOfBoth DEF Log!AppendBatch, Log!LogTypeOK
<1>5. rotated' = rotated /\ unwritten' = unwritten
  BY DEF Log!AppendBatch
<1>6. Log!Held' = Log!Held \cup ((Handed + 1)..Handed')
  BY <1>3, <1>4, <1>5 DEF Log!Held
<1>7. Log!Rising(logFile')
  <2> SUFFICES ASSUME NEW i \in DOMAIN logFile', NEW j \in DOMAIN logFile', i < j
               PROVE  logFile'[i] < logFile'[j]
    BY DEF Log!Rising
  <2>0. DOMAIN logFile = 1..Len(logFile) /\ Len(logFile) \in Nat
    BY NumbersOf DEF Log!LogTypeOK
  <2>1. ASSUME NEW k \in DOMAIN logFile', k \in 1..Len(logFile)
        PROVE  k \in DOMAIN logFile /\ logFile'[k] = logFile[k] /\ logFile[k] \in Nat
               /\ logFile[k] <= Handed
    BY <2>0, <2>1, FileAppended, NumbersOf DEF Log!LogTypeOK, LogInvA, EntriesInOrder
  <2>2. ASSUME NEW k \in DOMAIN logFile', k \notin 1..Len(logFile)
        PROVE  k \in Nat /\ k > Len(logFile) /\ logFile'[k] = Handed + (k - Len(logFile))
    <3> DEFINE l == k - Len(logFile)
    <3>1. l \in 1..Len(lines) /\ k = Len(logFile) + l /\ k \in Nat
      BY <2>2, <2>0, FileAppended, <1>1
    <3>2. logFile'[k] = lines[l] /\ lines[l] = Handed + l
      BY <3>1, FileAppended, NumbersOf DEF LogInvA, WaitingInOrder, Log!LogTypeOK
    <3> QED
      BY <3>1, <3>2, <2>0
  <2>3. CASE j \in 1..Len(logFile)
    <3>1. i \in 1..Len(logFile)
      BY <2>0, <2>3, FileAppended
    <3> QED
      BY <2>1, <2>3, <3>1 DEF Run, Log!Rising
  <2>4. CASE i \in 1..Len(logFile) /\ j \notin 1..Len(logFile)
    BY <2>0, <2>1, <2>2, <2>4, <1>1
  <2>5. CASE i \notin 1..Len(logFile) /\ j \notin 1..Len(logFile)
    BY <2>0, <2>2, <2>5, <1>1
  <2> QED
    BY <2>3, <2>4, <2>5
<1>8. ASSUME NEW f \in DOMAIN rotated
      PROVE  Log!Before(rotated[f], logFile')
  <2> SUFFICES ASSUME NEW e \in Log!ToSet(rotated[f]), NEW n \in Log!ToSet(logFile')
               PROVE  e < n
    BY DEF Log!Before
  <2>1. CASE n \in Log!ToSet(logFile)
    BY <2>1 DEF Run, Log!Before
  <2>2. CASE n \in Log!ToSet(lines)
    <3>1. e \in 1..Handed
      BY <1>2 DEF Log!Held
    <3> QED
      BY <1>1, <1>3, <2>2, <3>1
  <2> QED
    BY <1>4, <2>1, <2>2
<1>9. \A e, n \in 1..Handed' : e \in Log!Held' /\ n >= e
    => (n \in Log!Held' <=> n \notin unwritten')
  <2> SUFFICES ASSUME NEW e \in 1..Handed', NEW n \in 1..Handed', e \in Log!Held', n >= e
               PROVE  n \in Log!Held' <=> n \notin unwritten
    BY <1>5
  <2>1. unwritten \subseteq 1..Handed
    BY DEF LogInvA, EntriesInOrder
  <2>2. CASE n \in 1..Handed
    <3>1. e \in Log!Held /\ e \in 1..Handed
      BY <2>2, <1>1, <1>6
    <3>2. n \in Log!Held' <=> n \in Log!Held
      BY <2>2, <1>1, <1>6
    <3> QED
      BY <2>2, <3>1, <3>2 DEF Run
  <2>3. CASE n \notin 1..Handed
    BY <2>1, <2>3, <1>1, <1>6
  <2> QED
    BY <2>2, <2>3
<1> QED
  BY <1>5, <1>7, <1>8, <1>9 DEF Run

LEMMA RunRotated ==
  ASSUME Log!LogTypeOK, LogInvA, Run, Log!Rename, ~cutBack'
  PROVE  Run'
<1>1. ~cutBack /\ ~Log!CutBack /\ unwritten' = unwritten
  BY DEF Log!Rename
<1>2. \A f \in DOMAIN rotated : f < Log!Suffix /\ f \in Nat
  BY <1>1, NamesAreBehind DEF LogInvA, Log!LogTypeOK
<1>3. Log!Suffix \in Nat /\ Log!Suffix \notin DOMAIN rotated
  BY <1>2, SuffixGrows, LogNumbers
<1>4. /\ DOMAIN rotated' = DOMAIN rotated \cup {Log!Suffix} /\ rotated'[Log!Suffix] = logFile
      /\ \A f \in DOMAIN rotated : rotated'[f] = rotated[f]
      /\ Handed' = Handed /\ DOMAIN logFile' = {} /\ Log!ToSet(logFile') = {}
  BY <1>3, RotatedNow, NothingOf DEF Log!Rename
<1>5. Log!Held' = Log!Held
  BY <1>4, <1>3 DEF Log!Held
<1>6. Log!Rising(logFile')
  BY <1>4 DEF Log!Rising
<1>7. ASSUME NEW f \in DOMAIN rotated'
      PROVE  Log!Rising(rotated'[f]) /\ Log!Before(rotated'[f], logFile')
  BY <1>4 DEF Run, Log!Before
<1>8. ASSUME NEW f \in DOMAIN rotated', NEW g \in DOMAIN rotated', f < g
      PROVE  Log!Before(rotated'[f], rotated'[g])
  <2>1. f # Log!Suffix
    BY <1>2, <1>3, <1>4, <1>8
  <2>2. CASE g = Log!Suffix
    BY <1>4, <2>1, <2>2 DEF Run
  <2>3. CASE g # Log!Suffix
    BY <1>4, <1>8, <2>1, <2>3 DEF Run
  <2> QED
    BY <2>2, <2>3
<1>9. \A e, n \in 1..Handed' : e \in Log!Held' /\ n >= e
    => (n \in Log!Held' <=> n \notin unwritten')
  BY <1>1, <1>4, <1>5 DEF Run
<1> QED
  BY <1>6, <1>7, <1>8, <1>9 DEF Run

\* Of two files, the newer one is kept if the older one is.
LEMMA NewestIsClosed ==
  ASSUME Log!LogTypeOK, NEW f \in Log!Newest, NEW g \in DOMAIN rotated, f < g
  PROVE  g \in Log!Newest
<1> DEFINE Above(x) == {h \in DOMAIN rotated : h > x}
<1>1. f \in Nat /\ g \in Nat /\ \A h \in DOMAIN rotated : h \in Nat
  BY DEF Log!LogTypeOK, Log!Newest
<1>2. Above(g) \subseteq Above(f)
  BY <1>1
<1>3. IsFiniteSet(1..(MaxClock + MaxLogs))
  BY FS_Interval, LogAssumption
<1>4. IsFiniteSet(Above(f))
  BY <1>3, FS_Subset DEF Log!LogTypeOK
<1>5. Cardinality(Above(g)) <= Cardinality(Above(f)) /\ Cardinality(Above(f)) \in Nat
    /\ Cardinality(Above(g)) \in Nat
  BY <1>2, <1>4, FS_Subset, FS_CardinalityType
<1>6. Cardinality(Above(f)) < MaxFiles
  BY LogCardinality DEF Log!Newest
<1> QED
  BY <1>5, <1>6, LogAssumption, LogCardinality DEF Log!Newest

LEMMA RunPruned ==
  ASSUME Log!LogTypeOK, LogInvA, Run, Log!Prune
  PROVE  Run'
<1>1. /\ DOMAIN rotated' = Log!Newest /\ Log!Newest \subseteq DOMAIN rotated /\ Handed' = Handed
      /\ \A f \in Log!Newest : rotated'[f] = rotated[f]
      /\ unwritten' = unwritten /\ logFile' = logFile
  BY PrunedNow DEF Log!Prune
<1>2. Log!Held' \subseteq Log!Held
  BY <1>1 DEF Log!Held
<1>3. Log!Held \subseteq 1..Handed /\ Handed \in Int
  BY HeldIsHanded, LogNumbers DEF Handed, LogInvA
<1>4. ASSUME NEW e \in Log!Held', NEW n \in Log!Held, n >= e
      PROVE  n \in Log!Held'
  <2> SUFFICES ASSUME n \notin Log!ToSet(logFile)
               PROVE  n \in Log!Held'
    BY <1>1 DEF Log!Held
  <2>1. PICK g \in DOMAIN rotated : n \in Log!ToSet(rotated[g])
    BY DEF Log!Held
  <2>2. e \in Nat /\ n \in Nat
    BY <1>2, <1>3
  <2>3. e \notin Log!ToSet(logFile)
    <3>1. e \in Log!ToSet(logFile) => n < e
      BY <2>1 DEF Run, Log!Before
    <3> QED
      BY <2>2, <3>1, <1>4
  <2>4. PICK f \in Log!Newest : e \in Log!ToSet(rotated[f])
    BY <1>1, <2>3 DEF Log!Held
  <2>5. f \in Nat /\ g \in Nat
    BY <1>1, <2>4 DEF Log!LogTypeOK
  <2>6. ~(g < f)
    <3>1. g < f => n < e
      BY <1>1, <2>1, <2>4 DEF Run, Log!Before
    <3> QED
      BY <2>2, <3>1, <1>4
  <2>7. g \in Log!Newest
    BY <2>5, <2>6, NewestIsClosed
  <2> QED
    BY <1>1, <2>1, <2>7 DEF Log!Held
<1>5. \A e, n \in 1..Handed' : e \in Log!Held' /\ n >= e
    => (n \in Log!Held' <=> n \notin unwritten')
  <2> SUFFICES ASSUME NEW e \in 1..Handed, NEW n \in 1..Handed, e \in Log!Held', n >= e
               PROVE  n \in Log!Held' <=> n \notin unwritten
    BY <1>1
  <2>1. n \in Log!Held <=> n \notin unwritten
    BY <1>2 DEF Run
  <2> QED
    BY <1>2, <1>4, <2>1
<1>6. \A f, g \in DOMAIN rotated' : /\ Log!Rising(rotated'[f]) /\ Log!Before(rotated'[f], logFile')
                                     /\ f < g => Log!Before(rotated'[f], rotated'[g])
  BY <1>1 DEF Run
<1> QED
  BY <1>1, <1>5, <1>6 DEF Run

LEMMA LogRunSteps ==
  LogInvA /\ Log!LogTypeOK /\ (~cutBack => Run) /\ [Log!LogNext]_logVars => (~cutBack' => Run')
<1> SUFFICES ASSUME LogInvA, Log!LogTypeOK, ~cutBack => Run, [Log!LogNext]_logVars, ~cutBack'
             PROVE  Run'
  OBVIOUS
<1>0. ~cutBack /\ Run
  <2>1. UNCHANGED cutBack \/ cutBack' = (cutBack \/ Log!CutBack)
    BY DEF Log!LogNext, logVars, Log!Log, Log!TakeBatch, Log!AppendBatch, Log!AppendFails,
         Log!Rename, Log!RenameFails, Log!Prune, Log!PruneFails, Log!Flush, Log!FlushReturns,
         Log!Clock, Log!Restart, Log!bounded
  <2>2. cutBack \in BOOLEAN
    BY DEF Log!LogTypeOK
  <2>3. ~cutBack
    BY <2>1, <2>2
  <2> QED
    BY <2>3
<1>1. Handed \in Int
  BY LogNumbers
<1>2. CASE \/ UNCHANGED logVars \/ Log!Log \/ Log!TakeBatch \/ Log!RenameFails \/ Log!PruneFails
    \/ Log!Flush \/ Log!FlushReturns \/ Log!Clock
  <2>1. logFile' = logFile /\ rotated' = rotated /\ unwritten' = unwritten
    BY <1>2 DEF logVars, Log!Log, Log!TakeBatch, Log!RenameFails, Log!PruneFails, Log!Flush,
         Log!FlushReturns, Log!Clock, Log!onDisk
  <2>2. Handed' = Handed
    <3>1. CASE Log!Log
      BY <3>1, LogAppends
    <3>2. CASE Log!TakeBatch
      BY <3>2, LogNumbers DEF Log!TakeBatch, Handed, LogInvA, WaitingInOrder
    <3> QED
      BY <1>2, <3>1, <3>2 DEF logVars, Log!RenameFails, Log!PruneFails, Log!Flush,
           Log!FlushReturns, Log!Clock, Handed
  <2> QED
    BY <1>0, <2>1, <2>2, RunStays
<1>3. CASE Log!AppendBatch
  BY <1>0, <1>3, RunAppended
<1>4. CASE Log!AppendFails
  <2>1. UNCHANGED <<logFile, rotated>> /\ unwritten' = unwritten \cup Log!ToSet(lines)
    BY <1>4 DEF Log!AppendFails
  <2>2. Handed' = Handed + Len(lines) /\ Len(lines) >= 1 /\ Len(lines) \in Nat
    BY <1>4, BatchIsHanded, LogNumbers DEF Log!AppendFails, LogInvA
  <2>3. Log!ToSet(lines) = (Handed + 1)..Handed'
    <3>1. DOMAIN lines = 1..Len(lines) /\ \A i \in 1..Len(lines) : lines[i] = Handed + i
      BY NumbersOf DEF Log!LogTypeOK, LogInvA, WaitingInOrder
    <3>2. ASSUME NEW n \in (Handed + 1)..Handed'
          PROVE  n \in Log!ToSet(lines)
      <4>1. n - Handed \in 1..Len(lines) /\ lines[n - Handed] = n
        BY <1>1, <2>2, <3>1
      <4> QED
        BY <3>1, <4>1 DEF Log!ToSet
    <3>3. ASSUME NEW n \in Log!ToSet(lines)
          PROVE  n \in (Handed + 1)..Handed'
      BY <1>1, <2>2, <3>1 DEF Log!ToSet
    <3> QED
      BY <3>2, <3>3
  <2>4. Log!Held \subseteq 1..Handed /\ unwritten \subseteq 1..Handed
    BY HeldIsHanded, LogNumbers DEF Handed, LogInvA, EntriesInOrder
  <2> QED
    BY <1>0, <1>1, <2>1, <2>2, <2>3, <2>4, RunKept
<1>5. CASE Log!Rename
  BY <1>0, <1>5, RunRotated
<1>6. CASE Log!Prune
  BY <1>0, <1>6, RunPruned
<1>7. CASE Log!Restart
  <2>1. UNCHANGED <<logFile,
    rotated>> /\ unwritten' = unwritten \cup Log!ToSet(queued) \cup Log!ToSet(lines)
    BY <1>7 DEF Log!Restart
  <2>2. Handed' = logged /\ Handed <= logged /\ logged \in Int
    BY <1>7, LogNumbers DEF Log!Restart, Handed
  <2>3. Log!ToSet(queued) \cup Log!ToSet(lines) = (Handed + 1)..Handed'
    BY <2>2, WaitingIs DEF LogInvA
  <2>4. Log!Held \subseteq 1..Handed /\ unwritten \subseteq 1..Handed
    BY HeldIsHanded, LogNumbers DEF Handed, LogInvA, EntriesInOrder
  <2>5. Handed = Handed' => unwritten' = unwritten
    BY <2>1, <2>2, <2>3
  <2> QED
    BY <1>0, <1>1, <2>1, <2>2, <2>3, <2>4, <2>5, RunKept
<1> QED
  BY <1>2, <1>3, <1>4, <1>5, <1>6, <1>7 DEF Log!LogNext

LEMMA LogSteps == LogInv /\ Log!LogTypeOK /\ [Log!LogNext]_logVars => LogInv' /\ Log!LogTypeOK'
<1> SUFFICES ASSUME LogInv, Log!LogTypeOK, [Log!LogNext]_logVars PROVE LogInv' /\ Log!LogTypeOK'
  OBVIOUS
<1>1. LogInvA /\ (~cutBack => Run)
  BY RunIs DEF LogInv, LogInvA
<1>2. Log!LogTypeOK'
  BY LogTypeSteps DEF LogInv
<1>3. LogInvA' /\ (~cutBack' => Run')
  BY <1>1, LogStepsA, LogRunSteps
<1>4. (Log!FilesHoldTheEnd <=> Run)'
  BY <1>2, <1>3, RunIs, PTL DEF LogInvA
<1> QED
  BY <1>2, <1>3, <1>4 DEF LogInv, LogInvA

LEMMA LogHolds == LogInv => Log!LogIsSound
BY DEF LogInv, Log!LogIsSound, Log!NothingWaits, NamesFollow, WaitingInOrder, BacklogEnds

-----------------------------------------------------------------------------
(*****************************************************************************)
(* Routing.  The walk that decides whether a driver may be shared ends with  *)
(* true just when all it would come to is shared, by induction on what it    *)
(* has not seen yet; so the cache, which the walk fills, is always right.    *)
(*****************************************************************************)
LEMMA NumberOf == \A n \in Nat : IsFiniteSet(1..n) /\ Cardinality(1..n) = n
BY FS_Interval

LEMMA RoutingCardinality == \A S : Routing!Cardinality(S) = Cardinality(S)
BY DEF Cardinality, Routing!Cardinality

\* All that the walk would come to is shared.
Whole(w) ==
  \E s \in SUBSET routingCatalogue.shared :
    w.todo \subseteq s \cup w.seen /\ \A x \in s : routingCatalogue.deps[x] \subseteq s \cup w.seen

\* The walk goes on with d.
Onward(w, d) == [todo |-> w.todo \cup routingCatalogue.deps[d], seen |-> w.seen \cup {d}]
Unseen(w) == CHOOSE x \in w.todo : x \notin w.seen

\* A function with the equation of Visit.
Visits(f) ==
  f = [w \in Routing!Walks |->
         IF w.todo \subseteq w.seen THEN TRUE
         ELSE Unseen(w) \in routingCatalogue.shared /\ f[Onward(w, Unseen(w))]]

LEMMA VisitIs == Routing!Visit = CHOOSE f : Visits(f)
BY DEF Routing!Visit, Visits, Onward, Unseen

LEMMA OnwardIs ==
  ASSUME routingCatalogue \in RoutingGraphs, NEW w \in Routing!Walks, ~(w.todo \subseteq w.seen)
  PROVE  /\ Unseen(w) \in w.todo /\ Unseen(w) \notin w.seen /\ Unseen(w) \in Drivers
         /\ Onward(w, Unseen(w)) \in Routing!Walks
<1>1. \E x \in w.todo : x \notin w.seen
  OBVIOUS
<1>2. Unseen(w) \in w.todo /\ Unseen(w) \notin w.seen
  BY <1>1 DEF Unseen
<1>3. Unseen(w) \in Drivers
  BY <1>2 DEF Routing!Walks
<1>4. routingCatalogue.deps[Unseen(w)] \in SUBSET Drivers
  BY <1>3, RoutingAssumption
<1> QED
  BY <1>2, <1>3, <1>4 DEF Onward, Routing!Walks

LEMMA WholeVisits ==
  ASSUME routingCatalogue \in RoutingGraphs
  PROVE  Visits([w \in Routing!Walks |-> Whole(w)])
<1> DEFINE f == [w \in Routing!Walks |-> Whole(w)]
<1>1. ASSUME NEW w \in Routing!Walks
      PROVE  Whole(w) =
               IF w.todo \subseteq w.seen THEN TRUE
               ELSE Unseen(w) \in routingCatalogue.shared /\ f[Onward(w, Unseen(w))]
  <2>1. CASE w.todo \subseteq w.seen
    <3>1. Whole(w)
      <4>1. {} \in SUBSET routingCatalogue.shared /\ w.todo \subseteq {} \cup w.seen
        BY <2>1
      <4> QED
        BY <4>1 DEF Whole
    <3>2. Whole(w) = TRUE
      BY <3>1 DEF Whole
    <3> QED
      BY <2>1, <3>2
  <2>2. CASE ~(w.todo \subseteq w.seen)
    <3> PICK d : d = Unseen(w)
      OBVIOUS
    <3>1. d \in w.todo /\ d \notin w.seen /\ d \in Drivers /\ Onward(w, d) \in Routing!Walks
      BY <2>2, OnwardIs
    <3>2. routingCatalogue.deps[d] \in SUBSET Drivers /\ routingCatalogue.shared \subseteq Drivers
      BY <3>1, RoutingAssumption
    <3>3. Onward(w, d).todo = w.todo \cup routingCatalogue.deps[d]
        /\ Onward(w, d).seen = w.seen \cup {d}
      BY DEF Onward
    <3>4. f[Onward(w, d)] = Whole(Onward(w, d))
      BY <3>1
    <3>5. ASSUME Whole(w)
          PROVE  d \in routingCatalogue.shared /\ Whole(Onward(w, d))
      <4> PICK s \in SUBSET routingCatalogue.shared :
            w.todo \subseteq s \cup w.seen
                /\ \A x \in s : routingCatalogue.deps[x] \subseteq s \cup w.seen
        BY <3>5 DEF Whole
      <4>1. d \in s
        BY <3>1
      <4> QED
        BY <3>3, <4>1 DEF Whole
    <3>6. ASSUME d \in routingCatalogue.shared, Whole(Onward(w, d))
          PROVE  Whole(w)
      <4> PICK s \in SUBSET routingCatalogue.shared :
            /\ w.todo \cup routingCatalogue.deps[d] \subseteq s \cup (w.seen \cup {d})
            /\ \A x \in s : routingCatalogue.deps[x] \subseteq s \cup (w.seen \cup {d})
        BY <3>3, <3>6 DEF Whole
      <4>1. s \cup {d} \in SUBSET routingCatalogue.shared
        BY <3>6
      <4>2. w.todo \subseteq (s \cup {d}) \cup w.seen
        OBVIOUS
      <4>3. \A x \in s \cup {d} : routingCatalogue.deps[x] \subseteq (s \cup {d}) \cup w.seen
        OBVIOUS
      <4> QED
        BY <4>1, <4>2, <4>3 DEF Whole
    <3>7. Whole(w) = (d \in routingCatalogue.shared /\ Whole(Onward(w, d)))
      <4>1. Whole(w) \in BOOLEAN /\ (d \in routingCatalogue.shared
                                     /\ Whole(Onward(w, d))) \in BOOLEAN
        BY DEF Whole
      <4> QED
        BY <3>5, <3>6, <4>1
    <3> HIDE DEF f
    <3> QED
      BY <2>2, <3>4, <3>7
  <2> QED
    BY <2>1, <2>2
<1>2. f = [w \in Routing!Walks |->
         IF w.todo \subseteq w.seen THEN TRUE
         ELSE Unseen(w) \in routingCatalogue.shared /\ f[Onward(w, Unseen(w))]]
  BY <1>1
<1> QED
  BY <1>2 DEF Visits

LEMMA VisitsGoOn ==
  ASSUME NEW f, Visits(f), NEW w \in Routing!Walks
  PROVE  f[w] = IF w.todo \subseteq w.seen THEN TRUE
                ELSE Unseen(w) \in routingCatalogue.shared /\ f[Onward(w, Unseen(w))]
<1> DEFINE h == [x \in Routing!Walks |->
         IF x.todo \subseteq x.seen THEN TRUE
         ELSE Unseen(x) \in routingCatalogue.shared /\ f[Onward(x, Unseen(x))]]
<1>1. f = h
  BY DEF Visits
<1>2. h[w] = IF w.todo \subseteq w.seen THEN TRUE
             ELSE Unseen(w) \in routingCatalogue.shared /\ f[Onward(w, Unseen(w))]
  OBVIOUS
<1> HIDE DEF h
<1> QED
  BY <1>1, <1>2

LEMMA OneVisit ==
  ASSUME routingCatalogue \in RoutingGraphs, NEW f, NEW g, Visits(f), Visits(g)
  PROVE  f = g
<1> DEFINE Differ == {w \in Routing!Walks : f[w] # g[w]}
           left == {Drivers \ w.seen : w \in Differ}
<1>1. f = [w \in Routing!Walks |-> f[w]] /\ g = [w \in Routing!Walks |-> g[w]]
  BY DEF Visits
<1>2. CASE Differ = {}
  BY <1>1, <1>2
<1>3. CASE Differ # {}
  <2>1. left \subseteq SUBSET Drivers /\ left # {}
    BY <1>3
  <2>2. PICK l \in left : \A m \in left : <<m, l>> \notin StrictSubsetOrdering(Drivers)
    <3>1. FiniteSubsetsOf(Drivers) = SUBSET Drivers
      BY RoutingAssumption, FS_FiniteSubsetsOfFinite
    <3>2. IsWellFoundedOn(StrictSubsetOrdering(Drivers), SUBSET Drivers)
      BY <3>1, FS_StrictSubsetOrderingWellFounded
    <3> HIDE DEF left
    <3> QED
      BY <2>1, <3>2, WFMin
  <2>3. PICK w \in Differ : l = Drivers \ w.seen
    OBVIOUS
  <2>4. ~(w.todo \subseteq w.seen)
    <3>1. w \in Routing!Walks /\ f[w] # g[w]
      OBVIOUS
    <3> QED
      BY <3>1, VisitsGoOn
  <2> PICK d : d = Unseen(w)
    OBVIOUS
  <2>5. d \in w.todo /\ d \notin w.seen /\ d \in Drivers /\ Onward(w, d) \in Routing!Walks
    BY <2>4, OnwardIs
  <2>6. f[w] = (d \in routingCatalogue.shared /\ f[Onward(w, d)])
      /\ g[w] = (d \in routingCatalogue.shared /\ g[Onward(w, d)])
    BY <2>4, VisitsGoOn
  <2>7. Onward(w, d) \in Differ
    BY <2>5, <2>6
  <2>8. Drivers \ Onward(w, d).seen \in left
    BY <2>7
  <2>9. Onward(w, d).seen = w.seen \cup {d}
    BY DEF Onward
  <2>10. <<Drivers \ Onward(w, d).seen, l>> \in StrictSubsetOrdering(Drivers)
    BY <2>3, <2>5, <2>9 DEF StrictSubsetOrdering
  <2> QED
    BY <2>2, <2>8, <2>10
<1> QED
  BY <1>2, <1>3

LEMMA VisitWhole ==
  ASSUME routingCatalogue \in RoutingGraphs, NEW w \in Routing!Walks
  PROVE  Routing!Visit[w] = Whole(w)
<1> DEFINE f == [x \in Routing!Walks |-> Whole(x)]
<1>1. Visits(f)
  BY WholeVisits
<1>2. Visits(Routing!Visit)
  <2> HIDE DEF f
  <2> QED
    BY <1>1, VisitIs
<1>3. Routing!Visit = f
  <2> HIDE DEF f
  <2> QED
    BY <1>1, <1>2, OneVisit
<1> QED
  BY <1>3

LEMMA ClosureIs ==
  ASSUME routingCatalogue \in RoutingGraphs, NEW d \in Drivers
  PROVE  /\ d \in Routing!Closure(d) /\ Routing!Closed(Routing!Closure(d))
            /\ Routing!Closure(d) \subseteq Drivers
         /\ \A r \in Routing!Closure(d) : Routing!Closure(r) \subseteq Routing!Closure(d)
<1>1. d \in Routing!Closure(d) /\ Routing!Closure(d) \subseteq Drivers
  BY DEF Routing!Closure
<1>2. Routing!Closed(Routing!Closure(d))
  <2> SUFFICES ASSUME NEW x \in Routing!Closure(d), NEW y \in routingCatalogue.deps[x]
               PROVE  y \in Routing!Closure(d)
    BY DEF Routing!Closed
  <2>1. x \in Drivers /\ y \in Drivers
    BY RoutingAssumption DEF Routing!Closure
  <2>2. ASSUME NEW ds \in SUBSET Drivers, d \in ds, Routing!Closed(ds)
        PROVE  y \in ds
    BY <2>2 DEF Routing!Closure, Routing!Closed
  <2> QED
    BY <2>1, <2>2 DEF Routing!Closure
<1>3. ASSUME NEW r \in Routing!Closure(d), NEW q \in Routing!Closure(r)
      PROVE  q \in Routing!Closure(d)
  BY <1>1, <1>2 DEF Routing!Closure
<1> QED
  BY <1>1, <1>2, <1>3

LEMMA SharedIs ==
  ASSUME routingCatalogue \in RoutingGraphs, NEW d \in Drivers
  PROVE  Routing!Visit[[todo |-> {d}, seen |-> {}]] = ~Routing!Exclusive(d)
<1> DEFINE w == [todo |-> {d}, seen |-> {}]
<1>1. w \in Routing!Walks
  BY DEF Routing!Walks
<1>2. Routing!Visit[w] = Whole(w)
  BY <1>1, VisitWhole
<1>3. ASSUME Whole(w) PROVE ~Routing!Exclusive(d)
  <2> PICK s \in SUBSET routingCatalogue.shared : d \in s
      /\ \A x \in s : routingCatalogue.deps[x] \subseteq s
    BY <1>3 DEF Whole
  <2>1. s \in SUBSET Drivers /\ Routing!Closed(s)
    BY RoutingAssumption DEF Routing!Closed
  <2> QED
    BY <2>1 DEF Routing!Exclusive, Routing!Closure
<1>4. ASSUME ~Routing!Exclusive(d) PROVE Whole(w)
  <2>1. Routing!Closure(d) \in SUBSET routingCatalogue.shared
    BY <1>4 DEF Routing!Exclusive
  <2>2. d \in Routing!Closure(d) /\ \A x \in Routing!Closure(d) : routingCatalogue.deps[x] \subseteq Routing!Closure(d)
    BY ClosureIs DEF Routing!Closed
  <2> QED
    BY <2>1, <2>2 DEF Whole
<1>5. Whole(w) \in BOOLEAN /\ (~Routing!Exclusive(d)) \in BOOLEAN
  <2>1. Whole(w) \in BOOLEAN
    BY DEF Whole
  <2>2. (~Routing!Exclusive(d)) \in BOOLEAN
    OBVIOUS
  <2> QED
    BY <2>1, <2>2
<1> QED
  BY <1>2, <1>3, <1>4, <1>5

CacheIsRight ==
  \A d \in Drivers : /\ sharedCache[d] = "yes" => ~Routing!Exclusive(d)
                     /\ sharedCache[d] = "no" => Routing!Exclusive(d)
LeasesAreKept == \A l \in Routing!Held : Routing!Exclusive(l.driver)
    => l.instance = Routing!Own(l.binding)
RoutingInv == CacheIsRight /\ LeasesAreKept

LEMMA AsksRight ==
  ASSUME Routing!RoutingTypeOK, CacheIsRight, NEW d \in Drivers
  PROVE  Routing!EffectivelyShared(d) = ~Routing!Exclusive(d)
<1>1. routingCatalogue \in RoutingGraphs /\ sharedCache[d] \in {"unknown", "yes", "no"}
  BY DEF Routing!RoutingTypeOK
<1>2. Routing!Visit[[todo |-> {d}, seen |-> {}]] = ~Routing!Exclusive(d)
  BY <1>1, SharedIs
<1>3. CASE sharedCache[d] = "unknown"
  BY <1>2, <1>3 DEF Routing!EffectivelyShared
<1>4. CASE sharedCache[d] = "yes"
  <2>1. ~Routing!Exclusive(d)
    BY <1>4 DEF CacheIsRight
  <2> QED
    BY <1>4, <2>1 DEF Routing!EffectivelyShared
<1>5. CASE sharedCache[d] = "no"
  <2>1. Routing!Exclusive(d)
    BY <1>5 DEF CacheIsRight
  <2> QED
    BY <1>5, <2>1 DEF Routing!EffectivelyShared
<1> QED
  BY <1>1, <1>3, <1>4, <1>5

LEMMA HeldAre ==
  ASSUME Routing!RoutingTypeOK
  PROVE  /\ DOMAIN leases = 1..Len(leases) /\ Len(leases) \in Nat
            /\ Routing!Held \subseteq Routing!Lease
         /\ \A i \in DOMAIN leases : leases[i] \in Routing!Lease
BY DEF Routing!RoutingTypeOK, Routing!Held

LEMMA KeepKeeps ==
  ASSUME Routing!RoutingTypeOK, NEW is \in SUBSET DOMAIN leases, Routing!Keep(is)
  PROVE  leases' \in Seq(Routing!Lease) /\ Len(leases') <= Len(leases)
         /\ Routing!Held' \subseteq Routing!Held
<1>1. DOMAIN leases = 1..Len(leases) /\ Len(leases) \in Nat
    /\ \A i \in DOMAIN leases : leases[i] \in Routing!Lease
  BY HeldAre
<1>2. IsFiniteSet(DOMAIN leases) /\ Cardinality(DOMAIN leases) = Len(leases)
  <2>1. PICK n \in Nat : n = Len(leases)
    BY <1>1
  <2>2. DOMAIN leases = 1..n
    BY <1>1, <2>1
  <2> QED
    BY <2>1, <2>2, NumberOf
<1>3. Cardinality(is) <= Len(leases) /\ Cardinality(is) \in Nat
  BY <1>2, FS_Subset, FS_CardinalityType
<1>4. PICK kept \in [1..Cardinality(is) -> is] : leases' = [i \in DOMAIN kept |-> leases[kept[i]]]
  BY RoutingCardinality DEF Routing!Keep
<1>5. leases' = [i \in 1..Cardinality(is) |-> leases[kept[i]]]
  BY <1>4
<1>6. \A i \in 1..Cardinality(is) : kept[i] \in DOMAIN leases
  OBVIOUS
<1>7. leases' \in Seq(Routing!Lease) /\ Len(leases') = Cardinality(is)
  BY <1>1, <1>3, <1>5, <1>6
<1>8. Routing!Held' \subseteq Routing!Held
  BY <1>5, <1>6 DEF Routing!Held
<1> QED
  BY <1>3, <1>7, <1>8

LEMMA KeepSteps ==
  ASSUME Routing!RoutingTypeOK, RoutingInv, NEW is \in SUBSET DOMAIN leases, Routing!Keep(is),
         UNCHANGED <<routingCatalogue, device, sharedCache, events, changes>>
  PROVE  Routing!RoutingTypeOK' /\ RoutingInv'
<1>1. leases' \in Seq(Routing!Lease) /\ Len(leases') <= Len(leases)
    /\ Routing!Held' \subseteq Routing!Held
  BY KeepKeeps
<1>2. Routing!RoutingTypeOK'
  <2>1. Len(leases') \in Nat /\ Len(leases) \in Nat
    BY <1>1, HeldAre
  <2> QED
    BY <1>1, <2>1, RoutingAssumption DEF Routing!RoutingTypeOK
<1>3. \A d : Routing!Exclusive(d)' = Routing!Exclusive(d)
  BY DEF Routing!Exclusive, Routing!Closure, Routing!Closed
<1>4. CacheIsRight'
  BY <1>3 DEF RoutingInv, CacheIsRight
<1>5. LeasesAreKept'
  BY <1>1, <1>3 DEF RoutingInv, LeasesAreKept
<1> QED
  BY <1>2, <1>4, <1>5 DEF RoutingInv

LEMMA RoutingStarts == Routing!RoutingInit => Routing!RoutingTypeOK /\ RoutingInv
<1> SUFFICES ASSUME Routing!RoutingInit PROVE Routing!RoutingTypeOK /\ RoutingInv
  OBVIOUS
<1>1. leases = <<>> /\ Routing!Held = {}
  BY DEF Routing!RoutingInit, Routing!Held
<1>2. Routing!RoutingTypeOK
  BY <1>1, RoutingAssumption DEF Routing!RoutingInit, Routing!RoutingTypeOK
<1>3. RoutingInv
  BY <1>1 DEF Routing!RoutingInit, RoutingInv, CacheIsRight, LeasesAreKept
<1> QED
  BY <1>2, <1>3

LEMMA SubscribeSteps ==
  ASSUME Routing!RoutingTypeOK, RoutingInv, NEW c \in Clients, NEW b \in RoutingBindings,
         NEW d \in Drivers, Routing!Subscribe(c, b, d)
  PROVE  Routing!RoutingTypeOK' /\ RoutingInv'
<1> DEFINE l == [client |-> c, binding |-> b, driver |-> d, instance |-> Routing!InstanceFor(b, d)]
<1>1. /\ Len(leases) < MaxLeases /\ leases' = Append(leases, l) /\ Routing!Cached(d)
      /\ routingCatalogue' = routingCatalogue /\ device' = device /\ events' = events
         /\ changes' = changes
  BY DEF Routing!Subscribe
<1>2. Routing!EffectivelyShared(d) = ~Routing!Exclusive(d)
  BY AsksRight DEF RoutingInv
<1>3. Routing!InstanceFor(b, d) \in Routing!Namespaces
  BY DEF Routing!InstanceFor, Routing!Namespaces, Routing!RoutingTypeOK
<1>4. l \in Routing!Lease
  BY <1>3 DEF Routing!Lease
<1>5. leases' \in Seq(Routing!Lease) /\ Len(leases') <= MaxLeases
    /\ Routing!Held' = Routing!Held \cup {l}
  <2>1. leases \in Seq(Routing!Lease) /\ Len(leases) \in Nat /\ DOMAIN leases = 1..Len(leases)
    BY HeldAre DEF Routing!RoutingTypeOK
  <2> HIDE DEF l
  <2>2. leases' \in Seq(Routing!Lease) /\ Len(leases') = Len(leases) + 1
    BY <1>1, <1>4, <2>1
  <2>3. DOMAIN leases' = 1..(Len(leases) + 1)
    BY <2>2
  <2>4. \A i \in DOMAIN leases : i \in DOMAIN leases' /\ leases'[i] = leases[i]
    BY <1>1, <1>4, <2>1, <2>3
  <2>5. leases'[Len(leases) + 1] = l /\ Len(leases) + 1 \in DOMAIN leases'
    BY <1>1, <1>4, <2>1, <2>3
  <2>6. \A i \in DOMAIN leases' : i \in DOMAIN leases \/ i = Len(leases) + 1
    BY <2>1, <2>3
  <2>7. Routing!Held' = Routing!Held \cup {l}
    BY <2>4, <2>5, <2>6 DEF Routing!Held
  <2> QED
    BY <1>1, <2>1, <2>2, <2>7, RoutingAssumption
<1>6. sharedCache' = [sharedCache EXCEPT ![d] = IF Routing!EffectivelyShared(d) THEN "yes" ELSE "no"]
  BY <1>1 DEF Routing!Cached
<1>7. Routing!RoutingTypeOK'
  BY <1>1, <1>5, <1>6 DEF Routing!RoutingTypeOK
<1>8. \A r : Routing!Exclusive(r)' = Routing!Exclusive(r)
  BY <1>1 DEF Routing!Exclusive, Routing!Closure, Routing!Closed
<1>9. CacheIsRight'
  BY <1>2, <1>6, <1>8 DEF RoutingInv, CacheIsRight, Routing!RoutingTypeOK
<1>10. Routing!Exclusive(d) => l.instance = Routing!Own(l.binding)
  BY <1>2 DEF Routing!InstanceFor
<1>11. LeasesAreKept'
  BY <1>5, <1>8, <1>10 DEF RoutingInv, LeasesAreKept
<1> QED
  BY <1>7, <1>9, <1>11 DEF RoutingInv

LEMMA NewestIs ==
  ASSUME Routing!RoutingTypeOK, NEW is \in SUBSET DOMAIN leases, is # {}
  PROVE  Routing!Newest(is) \in is
<1>1. DOMAIN leases = 1..Len(leases) /\ Len(leases) \in Nat
  BY HeldAre
<1>2. \E i \in is : \A j \in is : j <= i
  <2> DEFINE back == {Len(leases) - i : i \in is}
  <2>1. back \subseteq Nat /\ back # {}
    BY <1>1
  <2>2. PICK k \in back : \A m \in back : <<m, k>> \notin OpToRel(<, Nat)
    <3> HIDE DEF back
    <3> QED
      BY <2>1, NatLessThanWellFounded, WFMin
  <2>3. \A m \in back : ~(m < k)
    BY <2>1, <2>2 DEF OpToRel
  <2>4. PICK i \in is : k = Len(leases) - i
    OBVIOUS
  <2>5. ASSUME NEW j \in is PROVE j <= i
    <3>1. i \in Nat /\ j \in Nat /\ Len(leases) - j \in back
      BY <1>1
    <3>2. ~(Len(leases) - j < Len(leases) - i)
      BY <2>3, <2>4, <3>1
    <3> QED
      BY <1>1, <3>1, <3>2
  <2> QED
    BY <2>5
<1> QED
  BY <1>2 DEF Routing!Newest

LEMMA RoutingSteps ==
  Routing!RoutingTypeOK /\ RoutingInv /\ [Routing!RoutingNext]_routingVars
      => Routing!RoutingTypeOK' /\ RoutingInv'
<1> SUFFICES ASSUME Routing!RoutingTypeOK, RoutingInv, [Routing!RoutingNext]_routingVars
             PROVE  Routing!RoutingTypeOK' /\ RoutingInv'
  OBVIOUS
<1>1. ASSUME NEW c \in Clients, Routing!UnsubscribeAll(c)
      PROVE  Routing!RoutingTypeOK' /\ RoutingInv'
  <2>1. {i \in DOMAIN leases : leases[i].client # c} \in SUBSET DOMAIN leases
    OBVIOUS
  <2> QED
    BY <1>1, <2>1, KeepSteps DEF Routing!UnsubscribeAll
<1>2. ASSUME NEW c \in Clients, NEW b \in RoutingBindings, NEW d \in Drivers,
    Routing!Unsubscribe(c, b, d)
      PROVE  Routing!RoutingTypeOK' /\ RoutingInv'
  <2>1. PICK n : /\ Routing!Keep(DOMAIN leases \ {n})
                 /\ UNCHANGED <<routingCatalogue, device, sharedCache, events, changes>>
    BY <1>2 DEF Routing!Unsubscribe
  <2>2. DOMAIN leases \ {n} \in SUBSET DOMAIN leases
    OBVIOUS
  <2> QED
    BY <2>1, <2>2, KeepSteps
<1>3. ASSUME UNCHANGED <<routingCatalogue, leases, sharedCache>>,
             device' \in [RoutingBindings -> Devices \cup {Routing!NoDevice}],
             events' \in {Routing!NoEvent} \cup [instance : Routing!Namespaces, driver : Drivers],
             changes' \in 0..MaxRoutingChanges
      PROVE  Routing!RoutingTypeOK' /\ RoutingInv'
  <2>1. Routing!RoutingTypeOK'
    BY <1>3 DEF Routing!RoutingTypeOK
  <2>2. Routing!Held' = Routing!Held /\ \A d : Routing!Exclusive(d)' = Routing!Exclusive(d)
    BY <1>3 DEF Routing!Held, Routing!Exclusive, Routing!Closure, Routing!Closed
  <2> QED
    BY <1>3, <2>1, <2>2 DEF RoutingInv, CacheIsRight, LeasesAreKept
<1>4. ASSUME NEW b \in RoutingBindings, NEW n \in Devices \cup {Routing!NoDevice},
    Routing!ChangeDevice(b, n)
      PROVE  Routing!RoutingTypeOK' /\ RoutingInv'
  <2>1. device' \in [RoutingBindings -> Devices \cup {Routing!NoDevice}]
      /\ changes' \in 0..MaxRoutingChanges
    BY <1>4, RoutingAssumption DEF Routing!ChangeDevice, Routing!RoutingTypeOK
  <2> QED
    BY <1>3, <1>4, <2>1 DEF Routing!ChangeDevice, Routing!RoutingTypeOK
<1>5. CASE Routing!Writes
  <2>1. events' \in [instance : Routing!Namespaces, driver : Drivers]
    BY <1>5, HeldAre DEF Routing!Writes, Routing!Lease
  <2> QED
    BY <1>3, <1>5, <2>1 DEF Routing!Writes, Routing!RoutingTypeOK
<1>6. CASE Routing!HandleDriverEvent
  BY <1>3, <1>6 DEF Routing!HandleDriverEvent, Routing!RoutingTypeOK
<1>7. CASE UNCHANGED routingVars
  BY <1>3, <1>7 DEF routingVars, Routing!RoutingTypeOK
<1> QED
  BY <1>1, <1>2, <1>4, <1>5, <1>6, <1>7, SubscribeSteps DEF Routing!RoutingNext

LEMMA RoutingHolds ==
  Routing!RoutingTypeOK /\ RoutingInv => Routing!RoutingIsSound
<1> SUFFICES ASSUME Routing!RoutingTypeOK, RoutingInv PROVE Routing!RoutingIsSound
  OBVIOUS
<1>1. \A d \in Drivers : Routing!EffectivelyShared(d) = ~Routing!Exclusive(d)
  BY AsksRight DEF RoutingInv
<1>2. ASSUME NEW l \in Routing!Held, NEW d \in Drivers, Routing!Covers(l, d), Routing!Exclusive(d)
      PROVE  l.instance = Routing!Own(l.binding)
  <2>1. routingCatalogue \in RoutingGraphs /\ l.driver \in Drivers
    BY HeldAre DEF Routing!Lease, Routing!RoutingTypeOK
  <2>2. Routing!Closure(d) \subseteq Routing!Closure(l.driver)
    BY <1>2, <2>1, ClosureIs DEF Routing!Covers
  <2>3. Routing!Exclusive(l.driver)
    BY <1>2, <2>2 DEF Routing!Exclusive
  <2> QED
    BY <2>3 DEF RoutingInv, LeasesAreKept
<1>3. \A a, b : Routing!Own(a) = Routing!Own(b) => a = b
  BY DEF Routing!Own
<1>4. \A l, m \in Routing!Held, d \in Drivers :
        Routing!Covers(l, d) /\ Routing!Covers(m, d) /\ Routing!Exclusive(d)
            /\ l.instance = m.instance => l.binding = m.binding
  BY <1>2, <1>3
<1>5. ASSUME NEW b \in RoutingBindings, NEW d \in Drivers, \E l \in Routing!Held : l.binding = b
    /\ Routing!Covers(l, d)
      PROVE  \E l \in Routing!Held : /\ l.binding = b /\ Routing!Covers(l, d)
                                     /\ l.instance = Routing!ResolveInstance(b, d)
  <2> DEFINE mine == {i \in DOMAIN leases : leases[i].binding = b /\ Routing!Covers(leases[i], d)}
  <2>1. mine \in SUBSET DOMAIN leases /\ mine # {}
    BY <1>5 DEF Routing!Held
  <2>2. Routing!Newest(mine) \in mine
    <3> HIDE DEF mine
    <3> QED
      BY <2>1, NewestIs
  <2>3. Routing!ResolveInstance(b, d) = leases[Routing!Newest(mine)].instance
    BY <2>1 DEF Routing!ResolveInstance
  <2> PICK n : n = Routing!Newest(mine)
    OBVIOUS
  <2>4. n \in DOMAIN leases /\ leases[n].binding = b /\ Routing!Covers(leases[n], d)
    BY <2>2
  <2>5. leases[n] \in Routing!Held /\ leases[n].instance = Routing!ResolveInstance(b, d)
    BY <2>3, <2>4 DEF Routing!Held
  <2> QED
    BY <2>4, <2>5
<1>6. ASSUME events # Routing!NoEvent, NEW b \in Routing!Recipients(events.instance,
                                                                    events.driver),
                                                                        Routing!Exclusive(events.driver)
      PROVE  events.instance = Routing!Own(b)
  <2> PICK l \in Routing!Held : l.driver = events.driver /\ l.instance = events.instance
      /\ l.binding = b
    BY DEF Routing!Recipients
  <2> QED
    BY <1>6 DEF RoutingInv, LeasesAreKept
<1> QED
  BY <1>1, <1>4, <1>5, <1>6 DEF Routing!RoutingIsSound

-----------------------------------------------------------------------------
(*****************************************************************************)
(* Settings.  Each request in a driver's queue is one that a command waits   *)
(* for, and the last one of a queue is what resolves for the binding, or a   *)
(* command under way will still replace it.                                  *)
(*****************************************************************************)
\* The system's settings come first, then the app's.
LEMMA SettingsFacts ==
  /\ MyBindings = <<System, App>> /\ System # App
  /\ {"none", "microphone"} \cap {System, App} = {}
  /\ MaxSettingsChanges \in Nat /\ MaxStarts \in Nat /\ MaxRefusals \in Nat
BY SettingsAssumption DEF MyBindings

OwnSteps == {"camera", "device", "rate"}
Instances == Settings!Names \cup {Settings!Mic}
CommandStates ==
  {Settings!Idle} \cup [at : {"global"}, previous : Cameras, left : SUBSET Settings!Names]
                  \cup [at : {"camera", "device", "rate"}, previous : Settings!Own,
                        next : Settings!Own]

\* What a request to an instance says of the command that waits for it.
Meant(i, r, state) ==
  IF i = Settings!Mic
  THEN /\ r.set \in {"device", "rate"} /\ state.at = r.set
       /\ r.to = IF r.set = "device" THEN state.next.mic ELSE state.next.rate
  ELSE r.set = "mode" /\ state.at \in {"global", "camera"}

Running(i) == IF i = Settings!Mic THEN mic.state = "running" ELSE camera[i].state = "running"

\* Two requests are of two commands.
OneEach(w) ==
  \A i, j \in Instances : \A k \in DOMAIN w[i], l \in DOMAIN w[j] :
    w[i][k].cmd = w[j][l].cmd => i = j /\ k = l

\* Each request is one its command waits for, at a driver that runs.
RequestsAreMeant ==
  /\ OneEach(waiting)
  /\ \A i \in Instances :
       /\ waiting[i] # <<>> => Running(i)
       /\ \A k \in DOMAIN waiting[i] : Meant(i, waiting[i][k], command[waiting[i][k].cmd])

\* A value is what resolves for the binding, or a command will still replace it.
Settled(b, v) ==
  \/ v = Settings!Resolved(b)
  \/ \E c \in SettingsCommands : /\ command[c].at = "global" /\ b \in command[c].left
                                  /\ Settings!Merged(command[c].previous,
                                                     Settings!OwnOf(b, own)) # Settings!Resolved(b)

CameraSettles(b) ==
  /\ camera[b].state = "starting" /\ b \notin missed => camera[b].mode = Settings!Resolved(b)
  /\ camera[b].state = "running" /\ b \notin missed \cup crossed =>
       IF waiting[b] # <<>> THEN Settled(b, waiting[b][Len(waiting[b])].to)
       ELSE b \notin refused => Settled(b, camera[b].mode)

\* The microphone has these settings of the app, a rate if they name one.
MicHas(o) == mic.device = o.mic
RateIs(o) == o.rate # Settings!None => mic.rate = o.rate

OneForTheMic ==
  Settings!Mic \notin crossed =>
    /\ \A c, d \in SettingsCommands : command[c].at \in OwnSteps /\ command[d].at \in OwnSteps
       => c = d
    /\ \A c \in SettingsCommands : command[c].at \in OwnSteps => command[c].next = own

MicFollows(c) ==
  LET p == command[c].previous
  IN /\ command[c].at = "camera" => (MicHas(p) /\ RateIs(p)) \/ (MicHas(own) /\ RateIs(own))
     /\ command[c].at = "device" => RateIs(p) \/ RateIs(own)
     /\ command[c].at = "rate" => MicHas(own)

MicSettles ==
  /\ mic.state = "starting" /\ Settings!Mic \notin missed => MicHas(own) /\ RateIs(own)
  /\ mic.state = "running" /\ Settings!Mic \notin missed \cup refused \cup crossed =>
       /\ (\A c \in SettingsCommands : command[c].at \notin OwnSteps) => MicHas(own) /\ RateIs(own)
       /\ \A c \in SettingsCommands : MicFollows(c)

SettingsInv ==
  /\ RequestsAreMeant /\ OneForTheMic /\ MicSettles
  /\ \A b \in Settings!Names : CameraSettles(b)

-----------------------------------------------------------------------------
LEMMA NamesAre ==
  /\ Settings!Names = {System, App} /\ System # App /\ Settings!Mic \notin Settings!Names
     /\ Settings!None \notin Instances
  /\ DOMAIN MyBindings = {1, 2} /\ MyBindings[1] = System /\ MyBindings[2] = App
<1>1. MyBindings = <<System, App>>
  BY SettingsFacts
<1>2. DOMAIN MyBindings = {1, 2} /\ MyBindings[1] = System /\ MyBindings[2] = App
  BY <1>1
<1>3. Settings!Names = {System, App}
  BY <1>2 DEF Settings!Names
<1> QED
  BY <1>2, <1>3, SettingsFacts DEF Settings!Mic, Settings!None, Instances

LEMMA CommandIs ==
  ASSUME Settings!SettingsTypeOK, NEW c \in SettingsCommands
  PROVE  /\ command[c] \in CommandStates
         /\ \/ command[c] = Settings!Idle /\ command[c].at = "idle"
            \/ command[c].at = "global" /\ command[c].previous \in Cameras
               /\ command[c].left \subseteq Settings!Names
            \/ command[c].at \in OwnSteps /\ command[c].previous \in Settings!Own
               /\ command[c].next \in Settings!Own
<1>1. command[c] \in CommandStates
  BY DEF Settings!SettingsTypeOK, CommandStates
<1> QED
  BY <1>1 DEF CommandStates, Settings!Idle, OwnSteps

LEMMA StatesAre ==
  /\ Settings!Idle \in CommandStates /\ Settings!Idle.at = "idle"
     /\ Settings!Ends.then = Settings!Idle /\ Settings!Ends.to = Settings!None
  /\ \A p \in Cameras, l \in SUBSET Settings!Names : [at |-> "global", previous |-> p,
                                                      left |-> l] \in CommandStates
  /\ \A a \in OwnSteps, p, n \in Settings!Own : [at |-> a, previous |-> p,
                                                 next |-> n] \in CommandStates
BY DEF CommandStates, Settings!Idle, Settings!Ends, OwnSteps

LEMMA MergedIs ==
  ASSUME NEW g \in Cameras, NEW o \in Settings!Own, NEW b
  PROVE  Settings!Merged(g, Settings!OwnOf(b, o)) \in Cameras
BY DEF Settings!Merged, Settings!OwnOf, Settings!NoSettings, Settings!Own

LEMMA ResolvedIs ==
  ASSUME Settings!SettingsTypeOK, NEW b
  PROVE  Settings!Resolved(b) \in Cameras
         /\ Settings!Resolved(b) = Settings!Merged(global, Settings!OwnOf(b, own))
BY MergedIs DEF Settings!Resolved, Settings!SettingsTypeOK

\* What the loop over the cameras does next, and what it leaves.
Passed(b, previous, g) ==
  camera[b].state = "running" => Settings!Merged(previous,
                                                 Settings!OwnOf(b, own)) = Settings!Merged(g, Settings!OwnOf(b, own))

LoopSends(c, previous, left, g, k) ==
  \E b \in left : \E rest \in SUBSET (left \ {b}) :
    /\ camera[b].state = "running"
    /\ k = Settings!Waits([at |-> "global", previous |-> previous, left |-> rest], b, c, "mode",
                          Settings!Merged(g, Settings!OwnOf(b, own)))
    /\ \A d \in left \ (rest \cup {b}) : Passed(d, previous, g)
LoopStops(previous, left, g, k) == k = Settings!Ends /\ \A b \in left : Passed(b, previous, g)

LEMMA NextCameraDoes ==
  ASSUME NEW c, NEW previous, NEW left \in SUBSET Settings!Names, NEW g
  PROVE  LET k == Settings!NextCamera(c, previous, left, g)
         IN LoopStops(previous, left, g, k) \/ LoopSends(c, previous, left, g, k)
<1> DEFINE now(b) == Settings!Merged(g, Settings!OwnOf(b, own))
           changed == {i \in DOMAIN MyBindings :
                         /\ MyBindings[i] \in left /\ camera[MyBindings[i]].state = "running"
                         /\ Settings!Merged(previous,
                                            Settings!OwnOf(MyBindings[i],
                                                           own)) # now(MyBindings[i])}
           first == CHOOSE i \in changed : \A j \in changed : i <= j
           rest == left \ {MyBindings[i] : i \in 1..first}
           then == [at |-> "global", previous |-> previous, left |-> rest]
<1>1. Settings!NextCamera(c, previous, left, g) =
        IF changed = {} THEN Settings!Ends ELSE Settings!Waits(then, MyBindings[first], c, "mode",
                                                               now(MyBindings[first]))
  BY DEF Settings!NextCamera
<1>2. changed \subseteq {1, 2}
  BY NamesAre
<1>3. CASE changed = {}
  <2>1. \A b \in left : Passed(b, previous, g)
    BY <1>3, NamesAre DEF Passed
  <2> QED
    BY <1>1, <1>3, <2>1 DEF LoopStops
<1>4. CASE changed # {}
  <2>1. \E i \in changed : \A j \in changed : i <= j
    <3>1. CASE 1 \in changed
      BY <1>2, <3>1
    <3>2. CASE 1 \notin changed
      BY <1>2, <1>4, <3>2
    <3> QED
      BY <3>1, <3>2
  <2>2. first \in changed /\ \A j \in changed : first <= j
    BY <2>1
  <2>3. first \in {1, 2}
    BY <1>2, <2>2
  <2> HIDE DEF first
  <2>4. MyBindings[first] \in left /\ camera[MyBindings[first]].state = "running"
    BY <2>2
  <2>5. MyBindings[first] \notin rest
    BY <2>3
  <2>6. \A d \in left \ (rest \cup {MyBindings[first]}) : Passed(d, previous, g)
    <3> SUFFICES ASSUME NEW d \in left, d \notin rest, d # MyBindings[first]
                 PROVE  Passed(d, previous, g)
      OBVIOUS
    <3>1. PICK i \in 1..first : d = MyBindings[i]
      OBVIOUS
    <3>2. i \notin changed
      <4>1. i < first
        BY <2>3, <3>1
      <4> QED
        BY <2>2, <2>3, <4>1
    <3>3. i \in DOMAIN MyBindings
      BY <2>3, <3>1, NamesAre
    <3> QED
      BY <3>1, <3>2, <3>3 DEF Passed
  <2>7. rest \in SUBSET (left \ {MyBindings[first]})
    BY <2>5
  <2>8. Settings!NextCamera(c, previous, left, g) = Settings!Waits(then, MyBindings[first], c,
                                                                   "mode", now(MyBindings[first]))
    BY <1>1, <1>4
  <2> HIDE DEF changed, rest
  <2> QED
    BY <2>4, <2>6, <2>7, <2>8 DEF LoopSends
<1> QED
  BY <1>3, <1>4
-----------------------------------------------------------------------------
(* A continuation that its command can be in.                               *)
Fits(k, c) ==
  \/ k = Settings!Ends
  \/ \E i \in Instances, r \in Settings!Requests, s \in CommandStates :
       /\ k = [then |-> s, to |-> i, request |-> r]
       /\ r.cmd = c /\ Meant(i, r, s) /\ Running(i)

LEMMA RequestIs ==
  ASSUME NEW c \in SettingsCommands
  PROVE  /\ \A v \in Cameras : [cmd |-> c, set |-> "mode", to |-> v] \in Settings!Requests
         /\ \A v \in Mics \cup {Settings!None} : [cmd |-> c, set |-> "device",
                                                  to |-> v] \in Settings!Requests
         /\ \A v \in Rates : [cmd |-> c, set |-> "rate", to |-> v] \in Settings!Requests
BY DEF Settings!Requests

LEMMA RequestHas ==
  ASSUME NEW r \in Settings!Requests
  PROVE  /\ r.cmd \in SettingsCommands
         /\ r.set = "mode" => r.to \in Cameras
         /\ r.set = "device" => r.to \in Mics \cup {Settings!None}
         /\ r.set = "rate" => r.to \in Rates
BY DEF Settings!Requests

LEMMA NextCameraFits ==
  ASSUME Settings!SettingsTypeOK, NEW c \in SettingsCommands, NEW previous \in Cameras,
         NEW left \in SUBSET Settings!Names, NEW g \in Cameras
  PROVE  Fits(Settings!NextCamera(c, previous, left, g), c)
<1> DEFINE k == Settings!NextCamera(c, previous, left, g)
<1>1. CASE k = Settings!Ends
  BY <1>1 DEF Fits
<1>2. CASE k # Settings!Ends
  <2>1. PICK b \in left, rest \in SUBSET left :
          /\ camera[b].state = "running"
          /\ k = Settings!Waits([at |-> "global", previous |-> previous, left |-> rest], b, c,
                                "mode", Settings!Merged(g, Settings!OwnOf(b, own)))
    BY <1>2, NextCameraDoes DEF LoopStops, LoopSends
  <2> DEFINE s == [at |-> "global", previous |-> previous, left |-> rest]
             r == [cmd |-> c, set |-> "mode", to |-> Settings!Merged(g, Settings!OwnOf(b, own))]
  <2>2. Settings!Merged(g, Settings!OwnOf(b, own)) \in Cameras
    BY MergedIs DEF Settings!SettingsTypeOK
  <2>3. s \in CommandStates /\ r \in Settings!Requests
    BY <2>2, StatesAre, RequestIs
  <2>4. b \in Instances /\ b # Settings!Mic
    BY NamesAre DEF Instances
  <2>5. k = [then |-> s, to |-> b, request |-> r]
    BY <2>1 DEF Settings!Waits
  <2>6. Meant(b, r, s) /\ Running(b) /\ r.cmd = c
    BY <2>1, <2>4 DEF Meant, Running
  <2> QED
    BY <2>3, <2>4, <2>5, <2>6 DEF Fits
<1> QED
  BY <1>1, <1>2

LEMMA SetRateFits ==
  ASSUME NEW c \in SettingsCommands, NEW previous \in Settings!Own, NEW next \in Settings!Own,
         mic.state = "running"
  PROVE  Fits(Settings!SetRate(c, previous, next), c)
<1>1. CASE next.rate \notin {Settings!None, previous.rate}
  <2> DEFINE s == [at |-> "rate", previous |-> previous, next |-> next]
             r == [cmd |-> c, set |-> "rate", to |-> next.rate]
  <2>1. next.rate \in Rates
    BY <1>1 DEF Settings!Own
  <2>2. s \in CommandStates /\ r \in Settings!Requests
    BY <2>1, StatesAre, RequestIs DEF OwnSteps
  <2>3. Settings!SetRate(c, previous, next) = [then |-> s, to |-> Settings!Mic, request |-> r]
    BY <1>1 DEF Settings!SetRate, Settings!Waits
  <2>4. Meant(Settings!Mic, r, s) /\ Running(Settings!Mic) /\ r.cmd = c
      /\ Settings!Mic \in Instances
    BY DEF Meant, Running, Instances
  <2> QED
    BY <2>2, <2>3, <2>4 DEF Fits
<1>2. CASE next.rate \in {Settings!None, previous.rate}
  BY <1>2 DEF Settings!SetRate, Fits
<1> QED
  BY <1>1, <1>2

LEMMA SetDeviceFits ==
  ASSUME NEW c \in SettingsCommands, NEW previous \in Settings!Own, NEW next \in Settings!Own
  PROVE  Fits(Settings!SetDevice(c, previous, next), c)
<1>1. CASE mic.state # "running"
  BY <1>1 DEF Settings!SetDevice, Fits
<1>2. CASE mic.state = "running" /\ next.mic # previous.mic
  <2> DEFINE s == [at |-> "device", previous |-> previous, next |-> next]
             r == [cmd |-> c, set |-> "device", to |-> next.mic]
  <2>1. next.mic \in Mics \cup {Settings!None}
    BY DEF Settings!Own
  <2>2. s \in CommandStates /\ r \in Settings!Requests
    BY <2>1, StatesAre, RequestIs DEF OwnSteps
  <2>3. Settings!SetDevice(c, previous, next) = [then |-> s, to |-> Settings!Mic, request |-> r]
    BY <1>2 DEF Settings!SetDevice, Settings!Waits
  <2>4. Meant(Settings!Mic, r, s) /\ Running(Settings!Mic) /\ r.cmd = c
      /\ Settings!Mic \in Instances
    BY <1>2 DEF Meant, Running, Instances
  <2> QED
    BY <2>2, <2>3, <2>4 DEF Fits
<1>3. CASE mic.state = "running" /\ next.mic = previous.mic
  BY <1>3, SetRateFits DEF Settings!SetDevice
<1> QED
  BY <1>1, <1>2, <1>3

LEMMA GoOnFits ==
  ASSUME Settings!SettingsTypeOK, NEW c \in SettingsCommands, command[c].at \in {"device", "rate"}
         => mic.state = "running"
  PROVE  Fits(Settings!GoOn(c), c)
<1>1. CASE command[c].at = "global"
  BY <1>1, CommandIs, NextCameraFits DEF Settings!GoOn, Settings!SettingsTypeOK,
       Settings!Idle, OwnSteps
<1>2. CASE command[c].at = "camera"
  BY <1>2, CommandIs, SetDeviceFits DEF Settings!GoOn
<1>3. CASE command[c].at = "device"
  BY <1>3, CommandIs, SetRateFits DEF Settings!GoOn
<1>4. CASE command[c].at \notin {"global", "camera", "device"}
  BY <1>4 DEF Settings!GoOn, Fits
<1> QED
  BY <1>1, <1>2, <1>3, <1>4

-----------------------------------------------------------------------------
(* Queues of requests.                                                      *)
LEMMA TailOf ==
  ASSUME NEW S, NEW s \in Seq(S), s # <<>>
  PROVE  /\ Head(s) \in S /\ Tail(s) \in Seq(S) /\ Len(Tail(s)) = Len(s) - 1 /\ Len(s) \in Nat
            /\ Len(s) >= 1
         /\ DOMAIN s = 1..Len(s) /\ DOMAIN Tail(s) = 1..(Len(s) - 1)
         /\ Head(s) = s[1] /\ \A k \in DOMAIN Tail(s) : Tail(s)[k] = s[k + 1] /\ k + 1 \in DOMAIN s
            /\ k + 1 # 1
         /\ Tail(s) # <<>> => Tail(s)[Len(Tail(s))] = s[Len(s)]
         /\ Tail(s) = <<>> => s[Len(s)] = Head(s)
<1>1. Len(s) \in Nat /\ Len(s) >= 1 /\ DOMAIN s = 1..Len(s) /\ Head(s) = s[1] /\ Head(s) \in S
  OBVIOUS
<1>2. Tail(s) \in Seq(S) /\ Len(Tail(s)) = Len(s) - 1 /\ DOMAIN Tail(s) = 1..(Len(s) - 1)
  OBVIOUS
<1>3. \A k \in DOMAIN Tail(s) : Tail(s)[k] = s[k + 1] /\ k + 1 \in DOMAIN s /\ k + 1 # 1
  BY <1>1, <1>2
<1>4. Tail(s) # <<>> => Len(Tail(s)) \in DOMAIN Tail(s)
  BY <1>1, <1>2
<1>5. Tail(s) # <<>> => Tail(s)[Len(Tail(s))] = s[Len(s)]
  BY <1>1, <1>2, <1>3, <1>4
<1>6. Tail(s) = <<>> => Len(s) = 1
  BY <1>1, <1>2
<1> QED
  BY <1>1, <1>2, <1>3, <1>5, <1>6

LEMMA AppendOf ==
  ASSUME NEW S, NEW s \in Seq(S), NEW e \in S
  PROVE  /\ Append(s, e) \in Seq(S) /\ Append(s, e) # <<>> /\ Len(s) \in Nat
         /\ DOMAIN s = 1..Len(s) /\ DOMAIN Append(s, e) = 1..(Len(s) + 1)
            /\ Len(Append(s, e)) = Len(s) + 1
         /\ Append(s, e)[Len(s) + 1] = e
         /\ \A k \in DOMAIN Append(s, e) :
              k # Len(s) + 1 => k \in DOMAIN s /\ Append(s, e)[k] = s[k]
OBVIOUS

\* No request of c waits, and each that waits in w did in the queues now.
Freed(w, c) ==
  /\ w \in [Instances -> Seq(Settings!Requests)] /\ OneEach(w)
  /\ \A i \in Instances : \A k \in DOMAIN w[i] :
       w[i][k].cmd # c /\ \E l \in DOMAIN waiting[i] : w[i][k] = waiting[i][l]

LEMMA AnsweredIsFreed ==
  ASSUME Settings!SettingsTypeOK, RequestsAreMeant, NEW i \in Instances, waiting[i] # <<>>
  PROVE  Freed([waiting EXCEPT ![i] = Tail(@)], Head(waiting[i]).cmd)
<1> DEFINE w == [waiting EXCEPT ![i] = Tail(@)]
<1>1. waiting \in [Instances -> Seq(Settings!Requests)] /\ waiting[i] \in Seq(Settings!Requests)
  BY DEF Settings!SettingsTypeOK, Instances
<1>2. /\ Head(waiting[i]) = waiting[i][1] /\ 1 \in DOMAIN waiting[i]
      /\ \A k \in DOMAIN Tail(waiting[i]) : /\ Tail(waiting[i])[k] = waiting[i][k + 1]
                                            /\ k + 1 \in DOMAIN waiting[i] /\ k + 1 # 1
      /\ Tail(waiting[i]) \in Seq(Settings!Requests) /\ DOMAIN Tail(waiting[i]) \subseteq Nat
  BY <1>1, TailOf
<1>3. w[i] = Tail(waiting[i]) /\ \A j \in Instances : j # i => w[j] = waiting[j]
  BY <1>1
<1>4. w \in [Instances -> Seq(Settings!Requests)]
  BY <1>1, <1>2
<1>5. OneEach(waiting)
  BY DEF RequestsAreMeant
<1> HIDE DEF w
<1>6. ASSUME NEW a \in Instances, NEW k \in DOMAIN w[a]
      PROVE  \E l \in DOMAIN waiting[a] : w[a][k] = waiting[a][l]
             /\ l = (IF a = i THEN k + 1 ELSE k)
  BY <1>2, <1>3
<1>7. OneEach(w)
  <2> SUFFICES ASSUME NEW a \in Instances, NEW b \in Instances, NEW k \in DOMAIN w[a],
      NEW l \in DOMAIN w[b],
                      w[a][k].cmd = w[b][l].cmd
               PROVE  a = b /\ k = l
    BY DEF OneEach
  <2>1. PICK x \in DOMAIN waiting[a] : w[a][k] = waiting[a][x] /\ x = (IF a = i THEN k + 1 ELSE k)
    BY <1>6
  <2>2. PICK y \in DOMAIN waiting[b] : w[b][l] = waiting[b][y] /\ y = (IF b = i THEN l + 1 ELSE l)
    BY <1>6
  <2>3. a = b /\ x = y
    BY <1>5, <2>1, <2>2 DEF OneEach
  <2>4. CASE a = i
    <3>1. k \in Nat /\ l \in Nat
      BY <1>2, <1>3, <2>3, <2>4
    <3> QED
      BY <2>1, <2>2, <2>3, <2>4, <3>1
  <2>5. CASE a # i
    BY <2>1, <2>2, <2>3, <2>5
  <2> QED
    BY <2>4, <2>5
<1>8. ASSUME NEW a \in Instances, NEW k \in DOMAIN w[a]
      PROVE  w[a][k].cmd # Head(waiting[i]).cmd
  <2>1. PICK x \in DOMAIN waiting[a] : w[a][k] = waiting[a][x] /\ x = (IF a = i THEN k + 1 ELSE k)
    BY <1>6
  <2>2. a = i => x # 1
    BY <1>2, <1>3, <2>1
  <2> QED
    BY <1>2, <1>5, <2>1, <2>2 DEF OneEach
<1> QED
  BY <1>4, <1>6, <1>7, <1>8 DEF Freed, w

LEMMA IdleIsFreed ==
  ASSUME Settings!SettingsTypeOK, RequestsAreMeant, NEW c \in SettingsCommands,
         command[c] = Settings!Idle
  PROVE  Freed(waiting, c)
<1>1. waiting \in [Instances -> Seq(Settings!Requests)]
  BY DEF Settings!SettingsTypeOK, Instances
<1>2. ASSUME NEW i \in Instances, NEW k \in DOMAIN waiting[i], waiting[i][k].cmd = c
      PROVE  FALSE
  BY <1>2, StatesAre DEF RequestsAreMeant, Meant
<1> QED
  BY <1>1, <1>2 DEF Freed, RequestsAreMeant

\* What goes on keeps the requests and the commands in step.
LEMMA GoesOn ==
  ASSUME Settings!SettingsTypeOK, RequestsAreMeant, NEW c \in SettingsCommands, NEW k, Fits(k, c),
         NEW w, Freed(w, c),
         Settings!Continue(c, k, w), \A i \in Instances : Running(i)' = Running(i)
  PROVE  /\ command' \in [SettingsCommands -> CommandStates]
            /\ waiting' \in [Instances -> Seq(Settings!Requests)]
         /\ RequestsAreMeant'
         /\ command'[c] = k.then /\ \A d \in SettingsCommands : d # c => command'[d] = command[d]
         /\ k.to = Settings!None => waiting' = w
         /\ k.to # Settings!None =>
              /\ k.to \in Instances /\ waiting'[k.to] # <<>>
              /\ waiting'[k.to][Len(waiting'[k.to])] = k.request
              /\ \A j \in Instances : j # k.to => waiting'[j] = w[j]
<1>1. command \in [SettingsCommands -> CommandStates]
  BY DEF Settings!SettingsTypeOK, CommandStates
<1>2. k.then \in CommandStates
  BY StatesAre DEF Fits
<1>3. /\ command' \in [SettingsCommands -> CommandStates]
      /\ command'[c] = k.then /\ \A d \in SettingsCommands : d # c => command'[d] = command[d]
  BY <1>1, <1>2 DEF Settings!Continue
<1>4. w \in [Instances -> Seq(Settings!Requests)] /\ OneEach(w)
  BY DEF Freed
<1>5. ASSUME NEW i \in Instances, NEW n \in DOMAIN w[i]
      PROVE  /\ Running(i) /\ w[i][n].cmd # c /\ w[i][n].cmd \in SettingsCommands
             /\ Meant(i, w[i][n], command'[w[i][n].cmd])
  <2>1. PICK l \in DOMAIN waiting[i] : w[i][n] = waiting[i][l]
    BY DEF Freed
  <2>2. w[i][n] \in Settings!Requests
    BY <1>4
  <2>3. w[i][n].cmd \in SettingsCommands
    BY <2>2, RequestHas
  <2>4. w[i][n].cmd # c
    BY DEF Freed
  <2>5. waiting[i] # <<>>
    BY <2>1
  <2>6. Running(i) /\ Meant(i, w[i][n], command[w[i][n].cmd])
    BY <2>1, <2>5 DEF RequestsAreMeant
  <2> QED
    BY <1>3, <2>3, <2>4, <2>6
<1>6. ASSUME NEW i \in Instances, w[i] # <<>>
      PROVE  Running(i)
  <2>1. 1 \in DOMAIN w[i]
    BY <1>4, <1>6
  <2> QED
    BY <1>5, <2>1
<1>7. CASE k = Settings!Ends
  <2>1. k.to = Settings!None /\ waiting' = w
    BY <1>7, StatesAre DEF Settings!Continue
  <2>2. RequestsAreMeant'
    <3>1. OneEach(waiting')
      BY <1>4, <2>1
    <3>2. ASSUME NEW i \in Instances
          PROVE  /\ waiting'[i] # <<>> => Running(i)'
                 /\ \A n \in DOMAIN waiting'[i] : Meant(i, waiting'[i][n],
                                                        command'[waiting'[i][n].cmd])
      BY <1>5, <1>6, <2>1
    <3>3. Instances' = Instances
      BY DEF Instances, Settings!Names
    <3> QED
      BY <3>1, <3>2, <3>3 DEF RequestsAreMeant, OneEach, Meant
  <2> QED
    BY <1>3, <1>4, <2>1, <2>2
<1>8. CASE k # Settings!Ends
  <2>1. PICK t \in Instances, r \in Settings!Requests, s \in CommandStates :
          /\ k = [then |-> s, to |-> t, request |-> r] /\ r.cmd = c /\ Meant(t, r, s) /\ Running(t)
    BY <1>8 DEF Fits
  <2>2. k.to = t /\ k.request = r /\ k.then = s /\ t # Settings!None
    BY <2>1, NamesAre
  <2>3. waiting' = [w EXCEPT ![t] = Append(@, r)]
    BY <2>2 DEF Settings!Continue
  <2>4. waiting'[t] = Append(w[t], r) /\ \A j \in Instances : j # t => waiting'[j] = w[j]
    BY <1>4, <2>3
  <2>5. /\ Append(w[t], r) \in Seq(Settings!Requests) /\ Append(w[t], r) # <<>> /\ Len(w[t]) \in Nat
        /\ Len(Append(w[t], r)) = Len(w[t]) + 1 /\ Append(w[t], r)[Len(w[t]) + 1] = r
        /\ \A n \in DOMAIN Append(w[t], r) :
             n # Len(w[t]) + 1 => n \in DOMAIN w[t] /\ Append(w[t], r)[n] = w[t][n]
    BY <1>4, AppendOf
  <2>6. waiting' \in [Instances -> Seq(Settings!Requests)]
    BY <1>4, <2>3, <2>5
  <2>7. ASSUME NEW i \in Instances, NEW n \in DOMAIN waiting'[i]
        PROVE  \/ i = t /\ n = Len(w[t]) + 1 /\ waiting'[i][n] = r
               \/ n \in DOMAIN w[i] /\ waiting'[i][n] = w[i][n]
    BY <2>4, <2>5
  <2>8. OneEach(waiting')
    <3> SUFFICES ASSUME NEW a \in Instances, NEW b \in Instances, NEW m \in DOMAIN waiting'[a],
                        NEW n \in DOMAIN waiting'[b], waiting'[a][m].cmd = waiting'[b][n].cmd
                 PROVE  a = b /\ m = n
      BY DEF OneEach
    <3>1. CASE m \in DOMAIN w[a] /\ waiting'[a][m] = w[a][m] /\ n \in DOMAIN w[b]
        /\ waiting'[b][n] = w[b][n]
      BY <1>4, <3>1 DEF OneEach
    <3>2. CASE m \in DOMAIN w[a] /\ waiting'[a][m] = w[a][m] /\ waiting'[b][n] = r
      BY <1>5, <2>1, <3>2
    <3>3. CASE n \in DOMAIN w[b] /\ waiting'[b][n] = w[b][n] /\ waiting'[a][m] = r
      BY <1>5, <2>1, <3>3
    <3> QED
      BY <2>7, <3>1, <3>2, <3>3
  <2>9. ASSUME NEW i \in Instances, NEW n \in DOMAIN waiting'[i]
        PROVE  Meant(i, waiting'[i][n], command'[waiting'[i][n].cmd])
    <3>1. CASE i = t /\ waiting'[i][n] = r
      BY <1>3, <2>1, <2>2, <3>1
    <3>2. CASE n \in DOMAIN w[i] /\ waiting'[i][n] = w[i][n]
      BY <1>5, <3>2
    <3> QED
      BY <2>7, <3>1, <3>2
  <2>10. ASSUME NEW i \in Instances, waiting'[i] # <<>>
         PROVE  Running(i)'
    BY <1>6, <2>1, <2>4, <2>10
  <2>11. RequestsAreMeant'
    <3>1. Instances' = Instances
      BY DEF Instances, Settings!Names
    <3> QED
      BY <2>8, <2>9, <2>10, <3>1 DEF RequestsAreMeant, OneEach, Meant
  <2> QED
    BY <1>3, <2>2, <2>4, <2>5, <2>6, <2>11
<1> QED
  BY <1>7, <1>8
-----------------------------------------------------------------------------
(* The drivers' own steps.                                                  *)
LEMMA SettingsTypeIs ==
  Settings!SettingsTypeOK <=>
    /\ global \in Cameras /\ own \in Settings!Own
    /\ camera \in [Settings!Names -> [state : Settings!States, mode : Cameras]]
    /\ mic \in [state : Settings!States, device : Mics \cup {Settings!None},
                rate : Rates \cup {Settings!None}]
    /\ command \in [SettingsCommands -> CommandStates]
       /\ waiting \in [Instances -> Seq(Settings!Requests)]
    /\ missed \subseteq Instances /\ refused \subseteq Instances /\ crossed \subseteq Instances
    /\ bounds \in [changes : 0..MaxSettingsChanges, starts : 0..MaxStarts,
                   refusals : 0..MaxRefusals]
BY DEF Settings!SettingsTypeOK, CommandStates, Instances

LEMMA BoundsGrow ==
  ASSUME bounds \in [changes : 0..MaxSettingsChanges, starts : 0..MaxStarts,
                     refusals : 0..MaxRefusals]
  PROVE  /\ bounds.changes < MaxSettingsChanges =>
              [bounds EXCEPT !.changes = @ + 1] \in [changes : 0..MaxSettingsChanges,
                                                     starts : 0..MaxStarts,
                                                         refusals : 0..MaxRefusals]
         /\ bounds.starts < MaxStarts =>
              [bounds EXCEPT !.starts = @ + 1] \in [changes : 0..MaxSettingsChanges,
                                                    starts : 0..MaxStarts,
                                                        refusals : 0..MaxRefusals]
         /\ bounds.refusals < MaxRefusals =>
              [bounds EXCEPT !.refusals = @ + 1] \in [changes : 0..MaxSettingsChanges,
                                                      starts : 0..MaxStarts,
                                                          refusals : 0..MaxRefusals]
BY SettingsFacts

\* A step of a driver leaves the commands and their requests alone.
LEMMA RequestsStay ==
  ASSUME RequestsAreMeant, UNCHANGED <<waiting, command>>,
         \A i \in Instances : waiting[i] # <<>> => (Running(i) => Running(i)')
  PROVE  RequestsAreMeant'
<1>1. Instances' = Instances
  BY DEF Instances, Settings!Names
<1>2. waiting' = waiting /\ command' = command
  OBVIOUS
<1>3. ASSUME NEW i \in Instances, waiting[i] # <<>>
      PROVE  Running(i)'
  BY <1>3 DEF RequestsAreMeant
<1> QED
  BY <1>1, <1>2, <1>3 DEF RequestsAreMeant, OneEach, Meant

\* A camera that a step leaves alone still has, or gets, its settings.
LEMMA CameraStays ==
  ASSUME NEW b \in Settings!Names, CameraSettles(b), UNCHANGED <<global, own, command, crossed>>,
         camera'[b] = camera[b], waiting'[b] = waiting[b], b \in missed
             => b \in missed', b \in refused => b \in refused'
  PROVE  CameraSettles(b)'
<1>1. \A v : Settled(b, v)' = Settled(b, v)
  BY DEF Settled, Settings!Resolved
<1>2. Settings!Resolved(b)' = Settings!Resolved(b)
  BY DEF Settings!Resolved
<1>3. global' = global /\ own' = own /\ command' = command /\ crossed' = crossed
  OBVIOUS
<1> QED
  BY <1>1, <1>2, <1>3 DEF CameraSettles

LEMMA StartMicSteps ==
  ASSUME Settings!SettingsTypeOK, SettingsInv, Settings!StartMic
  PROVE  Settings!SettingsTypeOK' /\ SettingsInv'
<1>1. Settings!SettingsTypeOK'
  <2>1. mic' \in [state : Settings!States, device : Mics \cup {Settings!None},
                  rate : Rates \cup {Settings!None}]
    BY SettingsTypeIs DEF Settings!StartMic, Settings!States, Settings!Own
  <2>2. bounds' \in [changes : 0..MaxSettingsChanges, starts : 0..MaxStarts,
                     refusals : 0..MaxRefusals]
    BY SettingsTypeIs, BoundsGrow DEF Settings!StartMic
  <2>3. missed' \subseteq Instances /\ refused' \subseteq Instances /\ crossed' \subseteq Instances
    BY SettingsTypeIs DEF Settings!StartMic
  <2> QED
    BY <2>1, <2>2, <2>3 DEF Settings!StartMic, Settings!SettingsTypeOK, Instances
<1>2. UNCHANGED <<global, own, camera, command, waiting, crossed>> /\ mic.state = "off"
    /\ mic'.state = "starting"
      /\ missed' = missed \ {Settings!Mic} /\ refused' = refused \ {Settings!Mic}
  BY DEF Settings!StartMic
<1>3. RequestsAreMeant'
  <2>1. waiting[Settings!Mic] = <<>>
    BY <1>2 DEF SettingsInv, RequestsAreMeant, Running, Instances
  <2> QED
    BY <1>2, <2>1, RequestsStay DEF SettingsInv, Running
<1>4. OneForTheMic'
  BY <1>2 DEF SettingsInv, OneForTheMic
<1>5. MicSettles'
  BY DEF Settings!StartMic, MicSettles, MicHas, RateIs
<1>6. ASSUME NEW b \in Settings!Names
      PROVE  CameraSettles(b)'
  BY <1>2, NamesAre, CameraStays DEF SettingsInv
<1> QED
  BY <1>1, <1>3, <1>4, <1>5, <1>6 DEF SettingsInv, Settings!Names

LEMMA StartCameraSteps ==
  ASSUME Settings!SettingsTypeOK, SettingsInv, NEW n \in Settings!Names, Settings!StartCamera(n)
  PROVE  Settings!SettingsTypeOK' /\ SettingsInv'
<1>1. UNCHANGED <<global, own, mic, command, waiting, crossed>> /\ camera[n].state = "off"
    /\ n # Settings!Mic
      /\ missed' = missed \ {n} /\ refused' = refused \ {n}
      /\ camera'[n] = [state |-> "starting", mode |-> Settings!Resolved(n)]
         /\ \A b \in Settings!Names : b # n => camera'[b] = camera[b]
  BY SettingsTypeIs, NamesAre DEF Settings!StartCamera
<1>2. Settings!SettingsTypeOK'
  <2>1. camera' \in [Settings!Names -> [state : Settings!States, mode : Cameras]]
    BY SettingsTypeIs, ResolvedIs DEF Settings!StartCamera, Settings!States
  <2>2. bounds' \in [changes : 0..MaxSettingsChanges, starts : 0..MaxStarts,
                     refusals : 0..MaxRefusals]
    BY SettingsTypeIs, BoundsGrow DEF Settings!StartCamera
  <2>3. missed' \subseteq Instances /\ refused' \subseteq Instances /\ crossed' \subseteq Instances
    BY SettingsTypeIs, <1>1
  <2> QED
    BY <1>1, <2>1, <2>2, <2>3 DEF Settings!SettingsTypeOK, Instances
<1>3. RequestsAreMeant'
  <2>1. waiting[n] = <<>>
    BY <1>1 DEF SettingsInv, RequestsAreMeant, Running, Instances
  <2>2. \A i \in Instances : i # n => (Running(i) => Running(i)')
    BY <1>1 DEF Running, Instances
  <2> QED
    BY <1>1, <2>1, <2>2, RequestsStay DEF SettingsInv
<1>4. OneForTheMic'
  BY <1>1 DEF SettingsInv, OneForTheMic
<1>5. MicSettles'
  BY <1>1 DEF SettingsInv, MicSettles, MicHas, RateIs, MicFollows
<1>6. ASSUME NEW b \in Settings!Names
      PROVE  CameraSettles(b)'
  <2>1. CASE b = n
    BY <1>1, <2>1 DEF CameraSettles, Settings!Resolved
  <2>2. CASE b # n
    BY <1>1, <2>2, CameraStays DEF SettingsInv
  <2> QED
    BY <2>1, <2>2
<1> QED
  BY <1>2, <1>3, <1>4, <1>5, <1>6 DEF SettingsInv, Settings!Names

\* A camera or the microphone runs, or stops with nothing asked of it.
LEMMA RunsOrStops ==
  ASSUME Settings!SettingsTypeOK, SettingsInv, Settings!Runs \/ Settings!Stops
  PROVE  Settings!SettingsTypeOK' /\ SettingsInv'
<1>1. UNCHANGED <<global, own, command, waiting, missed, refused, crossed, bounds>>
  BY DEF Settings!Runs, Settings!Stops
<1>2. CASE UNCHANGED mic
  <2>1. PICK n \in Settings!Names :
          /\ UNCHANGED mic /\ waiting[n] = <<>>
          /\ \/ camera[n].state = "starting" /\ camera' = [camera EXCEPT ![n].state = "running"]
             \/ camera[n].state = "running" /\ camera' = [camera EXCEPT ![n].state = "off"]
             \/ camera' = camera
    <3>1. \A n \in Settings!Names : camera[n].state = "starting" => waiting[n] = <<>>
      BY NamesAre DEF SettingsInv, RequestsAreMeant, Running, Instances
    <3>2. ASSUME NEW n \in Settings!Names, waiting[n] = <<>>,
                 \/ camera[n].state = "starting" /\ camera' = [camera EXCEPT ![n].state = "running"]
                 \/ camera[n].state = "running" /\ camera' = [camera EXCEPT ![n].state = "off"]
          PROVE  \E m \in Settings!Names :
                   /\ UNCHANGED mic /\ waiting[m] = <<>>
                   /\ \/ camera[m].state = "starting"
                         /\ camera' = [camera EXCEPT ![m].state = "running"]
                      \/ camera[m].state = "running" /\ camera' = [camera EXCEPT ![m].state = "off"]
                      \/ camera' = camera
      BY <1>2, <3>2
    <3>3. ASSUME mic' # mic PROVE FALSE
      BY <1>2, <3>3
    <3>4. mic \in [state : Settings!States, device : Mics \cup {Settings!None},
                   rate : Rates \cup {Settings!None}]
      BY SettingsTypeIs
    <3>5. ~(mic.state = "starting" /\ mic' = [mic EXCEPT !.state = "running"])
      BY <3>4, <1>2
    <3>6. ~(mic.state = "running" /\ mic' = [mic EXCEPT !.state = "off"])
      BY <3>4, <1>2
    <3> QED
      BY <3>1, <3>2, <3>5, <3>6 DEF Settings!Runs, Settings!Stops
  <2>2. n # Settings!Mic /\ camera'[n].mode = camera[n].mode /\ \A b \in Settings!Names : b # n
      => camera'[b] = camera[b]
    BY <2>1, SettingsTypeIs, NamesAre
  <2>3. Settings!SettingsTypeOK'
    <3>0. camera \in [Settings!Names -> [state : Settings!States, mode : Cameras]]
      BY SettingsTypeIs
    <3>1. camera' \in [Settings!Names -> [state : Settings!States, mode : Cameras]]
      <4>1. CASE camera' = [camera EXCEPT ![n].state = "running"]
        BY <3>0, <4>1 DEF Settings!States
      <4>2. CASE camera' = [camera EXCEPT ![n].state = "off"]
        BY <3>0, <4>2 DEF Settings!States
      <4> QED
        BY <2>1, <3>0, <4>1, <4>2
    <3> QED
      BY <1>1, <2>1, <3>1 DEF Settings!SettingsTypeOK
  <2>4. RequestsAreMeant'
    <3>1. \A i \in Instances : i # n => (Running(i) => Running(i)')
      BY <2>1, <2>2 DEF Running, Instances
    <3> QED
      BY <1>1, <2>1, <3>1, RequestsStay DEF SettingsInv
  <2>5. OneForTheMic' /\ MicSettles'
    BY <1>1, <2>1 DEF SettingsInv, OneForTheMic, MicSettles, MicHas, RateIs, MicFollows
  <2>6. ASSUME NEW b \in Settings!Names
        PROVE  CameraSettles(b)'
    <3>1. CASE b # n
      BY <1>1, <2>2, <3>1, CameraStays DEF SettingsInv
    <3>2. CASE b = n /\ camera' = camera
      BY <1>1, <3>2, CameraStays DEF SettingsInv
    <3>3. CASE b = n /\ camera' # camera
      <4>1. camera'[n].state = "off" \/ (camera[n].state = "starting"
                                         /\ camera'[n].state = "running")
        BY <2>1, <3>3, SettingsTypeIs
      <4>2. Settings!Resolved(n)' = Settings!Resolved(n) /\ waiting'[n] = <<>>
        BY <1>1, <2>1 DEF Settings!Resolved
      <4>3. CameraSettles(n)
        BY DEF SettingsInv
      <4>4. camera[n].state = "starting" /\ n \notin missed
          => camera'[n].mode = Settings!Resolved(n)'
        BY <2>2, <4>2, <4>3 DEF CameraSettles
      <4>5. CASE camera'[n].state = "off"
        BY <3>3, <4>5 DEF CameraSettles
      <4>6. CASE camera[n].state = "starting" /\ camera'[n].state = "running"
        BY <1>1, <3>3, <4>2, <4>4, <4>6 DEF CameraSettles, Settled
      <4> QED
        BY <4>1, <4>5, <4>6
    <3> QED
      BY <3>1, <3>2, <3>3
  <2> QED
    BY <2>3, <2>4, <2>5, <2>6 DEF SettingsInv, Settings!Names
<1>3. CASE ~UNCHANGED mic
  <2>1. /\ UNCHANGED camera /\ waiting[Settings!Mic] = <<>>
        /\ \/ mic.state = "starting" /\ mic' = [mic EXCEPT !.state = "running"]
           \/ mic.state = "running" /\ mic' = [mic EXCEPT !.state = "off"]
    BY <1>3 DEF Settings!Runs, Settings!Stops, SettingsInv, RequestsAreMeant, Running, Instances
  <2>2. mic'.device = mic.device /\ mic'.rate = mic.rate
        /\ (mic'.state = "off" \/ (mic.state = "starting" /\ mic'.state = "running"))
        /\ mic' \in [state : Settings!States, device : Mics \cup {Settings!None},
                     rate : Rates \cup {Settings!None}]
    BY <2>1, SettingsTypeIs DEF Settings!States
  <2>3. Settings!SettingsTypeOK'
    BY <1>1, <2>1, <2>2 DEF Settings!SettingsTypeOK
  <2>4. RequestsAreMeant'
    <3>1. \A i \in Instances : i # Settings!Mic => (Running(i) => Running(i)')
      BY <2>1 DEF Running
    <3> QED
      BY <1>1, <2>1, <3>1, RequestsStay DEF SettingsInv
  <2>5. OneForTheMic'
    BY <1>1 DEF SettingsInv, OneForTheMic
  <2>6. MicSettles'
    <3>1. MicHas(own)' = MicHas(own) /\ RateIs(own)' = RateIs(own)
      BY <1>1, <2>2 DEF MicHas, RateIs
    <3>2. CASE mic'.state = "off"
      BY <3>2 DEF MicSettles
    <3>3. CASE mic.state = "starting" /\ mic'.state = "running"
      <4> SUFFICES ASSUME Settings!Mic \notin missed \cup refused \cup crossed
                   PROVE  MicHas(own)' /\ RateIs(own)' /\ \A c \in SettingsCommands : MicFollows(c)'
        BY <1>1, <3>3 DEF MicSettles
      <4>1. MicHas(own)' /\ RateIs(own)'
        BY <3>1, <3>3 DEF SettingsInv, MicSettles
      <4> QED
        BY <4>1 DEF MicFollows
    <3> QED
      BY <2>2, <3>2, <3>3
  <2>7. ASSUME NEW b \in Settings!Names
        PROVE  CameraSettles(b)'
    BY <1>1, <2>1, CameraStays DEF SettingsInv
  <2> QED
    BY <2>3, <2>4, <2>5, <2>6, <2>7 DEF SettingsInv, Settings!Names
<1> QED
  BY <1>2, <1>3
-----------------------------------------------------------------------------
(* The commands' steps.                                                     *)
LoopGoes(previous, left, g, k) ==
  /\ k.then.at \in {"idle", "global"}
  /\ k.to # Settings!None => k.to \in left
     /\ k.request.to = Settings!Merged(g, Settings!OwnOf(k.to, own))
  /\ \A b \in left : camera[b].state = "running" =>
       \/ k.to = b
       \/ k.then.at = "global" /\ k.then.previous = previous /\ b \in k.then.left
       \/ Settings!Merged(previous, Settings!OwnOf(b, own)) = Settings!Merged(g, Settings!OwnOf(b, own))

LEMMA LoopLeaves ==
  ASSUME NEW c, NEW previous, NEW left \in SUBSET Settings!Names, NEW g
  PROVE  LoopGoes(previous, left, g, Settings!NextCamera(c, previous, left, g))
<1> DEFINE k == Settings!NextCamera(c, previous, left, g)
<1> SUFFICES LoopGoes(previous, left, g, k)
  OBVIOUS
<1> HIDE DEF k
<1>1. CASE k = Settings!Ends /\ \A b \in left : Passed(b, previous, g)
  BY <1>1, StatesAre DEF LoopGoes, Passed
<1>2. ASSUME NEW t \in left, NEW rest \in SUBSET left,
             k = Settings!Waits([at |-> "global", previous |-> previous, left |-> rest], t, c,
                                "mode",
                                  Settings!Merged(g, Settings!OwnOf(t, own))),
             \A d \in left \ (rest \cup {t}) : Passed(d, previous, g)
      PROVE  LoopGoes(previous, left, g, k)
  BY <1>2 DEF LoopGoes, Settings!Waits, Passed
<1>0. LoopStops(previous, left, g, k) \/ LoopSends(c, previous, left, g, k)
  BY NextCameraDoes DEF k
<1>3. CASE ~(k = Settings!Ends /\ \A b \in left : Passed(b, previous, g))
  <2>1. PICK t \in left : \E rest \in SUBSET (left \ {t}) :
          /\ k = Settings!Waits([at |-> "global", previous |-> previous, left |-> rest], t, c,
                                "mode",
                                Settings!Merged(g, Settings!OwnOf(t, own)))
          /\ \A d \in left \ (rest \cup {t}) : Passed(d, previous, g)
    BY <1>0, <1>3 DEF LoopStops, LoopSends
  <2>2. PICK rest \in SUBSET (left \ {t}) :
          /\ k = Settings!Waits([at |-> "global", previous |-> previous, left |-> rest], t, c,
                                "mode",
                                Settings!Merged(g, Settings!OwnOf(t, own)))
          /\ \A d \in left \ (rest \cup {t}) : Passed(d, previous, g)
    BY <2>1
  <2> QED
    BY <1>2, <2>2
<1> QED
  BY <1>1, <1>3

LEMMA ChangeGlobalSteps ==
  ASSUME Settings!SettingsTypeOK, SettingsInv, NEW c \in SettingsCommands, Settings!ChangeGlobal(c)
  PROVE  Settings!SettingsTypeOK' /\ SettingsInv'
<1> DEFINE running == {b \in Settings!Names : camera[b].state = "running"}
           k == Settings!NextCamera(c, global, running, global')
<1>1. /\ command[c] = Settings!Idle /\ global' \in Cameras
         /\ UNCHANGED <<own, camera, mic, refused, crossed>>
      /\ missed' = missed \cup {b \in Settings!Names : camera[b].state = "starting"
                                /\ Settings!Resolved(b) # Settings!Resolved(b)'}
      /\ Settings!Continue(c, k, waiting) /\ bounds.changes < MaxSettingsChanges
         /\ bounds' = [bounds EXCEPT !.changes = @ + 1]
  BY DEF Settings!ChangeGlobal, Settings!UpdateGlobal
<1> HIDE DEF k
<1>2. Fits(k, c)
  BY <1>1, NextCameraFits DEF Settings!SettingsTypeOK, k
<1>3. Freed(waiting, c)
  BY <1>1, IdleIsFreed DEF SettingsInv
<1>4. \A i \in Instances : Running(i)' = Running(i)
  BY <1>1 DEF Running
<1>5. /\ command' \in [SettingsCommands -> CommandStates]
         /\ waiting' \in [Instances -> Seq(Settings!Requests)]
      /\ RequestsAreMeant'
      /\ command'[c] = k.then /\ \A d \in SettingsCommands : d # c => command'[d] = command[d]
      /\ k.to = Settings!None => waiting' = waiting
      /\ k.to # Settings!None =>
           /\ k.to \in Instances /\ waiting'[k.to] # <<>>
           /\ waiting'[k.to][Len(waiting'[k.to])] = k.request
           /\ \A j \in Instances : j # k.to => waiting'[j] = waiting[j]
  BY <1>1, <1>2, <1>3, <1>4, GoesOn DEF SettingsInv
<1>6. /\ k.then.at \in {"idle", "global"}
      /\ k.to # Settings!None => k.to \in running
         /\ k.request.to = Settings!Merged(global', Settings!OwnOf(k.to, own))
      /\ \A b \in running :
           \/ k.to = b
           \/ k.then.at = "global" /\ k.then.previous = global /\ b \in k.then.left
           \/ Settings!Merged(global, Settings!OwnOf(b, own)) = Settings!Merged(global',
                                                                                Settings!OwnOf(b, own))
  BY LoopLeaves DEF LoopGoes, k
<1>7. Settings!SettingsTypeOK'
  <2>1. bounds' \in [changes : 0..MaxSettingsChanges, starts : 0..MaxStarts,
                     refusals : 0..MaxRefusals]
    BY <1>1, SettingsTypeIs, BoundsGrow
  <2>2. missed' \subseteq Instances
    BY <1>1, SettingsTypeIs DEF Instances
  <2>3. /\ own' \in Settings!Own /\ camera' \in [Settings!Names -> [state : Settings!States,
                                                                    mode : Cameras]]
        /\ mic' \in [state : Settings!States, device : Mics \cup {Settings!None},
                     rate : Rates \cup {Settings!None}]
        /\ refused' \subseteq Instances /\ crossed' \subseteq Instances
    BY <1>1, SettingsTypeIs
  <2> QED
    BY <1>1, <1>5, <2>1, <2>2, <2>3 DEF Settings!SettingsTypeOK, Instances, CommandStates
<1>8. \A d \in SettingsCommands : command'[d].at \in OwnSteps <=> command[d].at \in OwnSteps
  BY <1>1, <1>5, <1>6, StatesAre DEF OwnSteps
<1>9. \A d \in SettingsCommands : command'[d].at \in OwnSteps => command'[d] = command[d]
  BY <1>5, <1>6 DEF OwnSteps
<1>10. OneForTheMic'
  BY <1>1, <1>8, <1>9 DEF SettingsInv, OneForTheMic
<1>11. MicSettles'
  <2>1. Settings!Mic \in missed' <=> Settings!Mic \in missed
    BY <1>1, NamesAre
  <2>2. MicHas(own)' = MicHas(own) /\ RateIs(own)' = RateIs(own)
    BY <1>1 DEF MicHas, RateIs
  <2>3. ASSUME NEW d \in SettingsCommands, MicFollows(d)
        PROVE  MicFollows(d)'
    <3>1. CASE command'[d].at \in OwnSteps
      BY <1>1, <1>9, <2>3, <3>1 DEF MicFollows, MicHas, RateIs
    <3>2. CASE command'[d].at \notin OwnSteps
      BY <3>2 DEF MicFollows, OwnSteps
    <3> QED
      BY <3>1, <3>2
  <2> QED
    BY <1>1, <1>8, <2>1, <2>2, <2>3 DEF SettingsInv, MicSettles
<1>12. ASSUME NEW b \in Settings!Names
       PROVE  CameraSettles(b)'
  <2>1. b \in Instances /\ b # Settings!None /\ CameraSettles(b) /\ camera' = camera /\ own' = own
    BY <1>1, NamesAre DEF Instances, SettingsInv
  <2>2. Settings!Resolved(b)' = Settings!Merged(global', Settings!OwnOf(b, own))
      /\ Settings!Resolved(b) = Settings!Merged(global, Settings!OwnOf(b, own))
    BY <2>1 DEF Settings!Resolved
  <2>3. CASE camera[b].state = "starting"
    BY <1>1, <2>1, <2>3 DEF CameraSettles
  <2>4. CASE camera[b].state = "running" /\ k.to = b
    <3>1. waiting'[b] # <<>> /\ waiting'[b][Len(waiting'[b])].to = Settings!Resolved(b)'
      BY <1>5, <1>6, <2>1, <2>2, <2>4
    <3> QED
      BY <2>1, <2>4, <3>1 DEF CameraSettles, Settled
  <2>5. CASE camera[b].state = "running" /\ k.to # b
    <3>1. waiting'[b] = waiting[b]
      BY <1>5, <2>1, <2>5
    <3>2. ASSUME NEW v, Settled(b, v)
          PROVE  v = Settings!Resolved(b)' \/ \E d \in SettingsCommands :
                   /\ command'[d].at = "global" /\ b \in command'[d].left
                   /\ Settings!Merged(command'[d].previous,
                                      Settings!OwnOf(b, own)) # Settings!Resolved(b)'
      <4>1. CASE Settings!Resolved(b)' = Settings!Resolved(b)
        <5>1. CASE v = Settings!Resolved(b)
          BY <4>1, <5>1
        <5>2. CASE v # Settings!Resolved(b)
          <6>1. PICK d \in SettingsCommands : /\ command[d].at = "global" /\ b \in command[d].left
                                              /\ Settings!Merged(command[d].previous,
                                                                 Settings!OwnOf(b, own)) # Settings!Resolved(b)
            BY <3>2, <5>2 DEF Settled
          <6>2. d # c
            BY <1>1, <6>1, StatesAre
          <6> QED
            BY <1>5, <4>1, <6>1, <6>2
        <5> QED
          BY <5>1, <5>2
      <4>2. CASE Settings!Resolved(b)' # Settings!Resolved(b)
        BY <1>5, <1>6, <2>2, <2>5, <4>2
      <4> QED
        BY <4>1, <4>2
    <3>3. refused' = refused /\ crossed' = crossed /\ missed \subseteq missed'
      BY <1>1
    <3> QED
      BY <2>1, <2>5, <3>1, <3>2, <3>3 DEF CameraSettles, Settled
  <2>6. CASE camera[b].state \notin {"starting", "running"}
    BY <2>1, <2>6 DEF CameraSettles
  <2> QED
    BY <2>3, <2>4, <2>5, <2>6
<1> QED
  BY <1>5, <1>7, <1>10, <1>11, <1>12 DEF SettingsInv, Settings!Names

\* What a change of the app's settings asks the microphone for.
LEMMA DeviceGoes ==
  ASSUME NEW c, NEW p, NEW n, NEW k, k = Settings!SetDevice(c, p, n)
         \/ (mic.state = "running" /\ n.mic = p.mic /\ k = Settings!SetRate(c, p, n))
  PROVE  /\ k.then = Settings!Idle \/ (k.then.at \in {"device", "rate"} /\ k.then.previous = p
                                       /\ k.then.next = n)
         /\ k.to \in {Settings!None, Settings!Mic}
         /\ mic.state = "running" =>
              /\ k.then.at = "rate" => n.mic = p.mic
              /\ k.then = Settings!Idle => n.mic = p.mic /\ n.rate \in {Settings!None, p.rate}
BY StatesAre, NamesAre DEF Settings!SetDevice, Settings!SetRate, Settings!Waits,
     Settings!Idle, Settings!Ends

LEMMA ChangeOwnSteps ==
  ASSUME Settings!SettingsTypeOK, SettingsInv, NEW c \in SettingsCommands, Settings!ChangeOwn(c)
  PROVE  Settings!SettingsTypeOK' /\ SettingsInv'
<1> DEFINE sends == Settings!Resolved(App) # Settings!Resolved(App)'
    /\ camera[App].state = "running"
           camerasTurn == Settings!Waits([at |-> "camera", previous |-> own, next |-> own'], App,
                                         c, "mode", Settings!Resolved(App)')
           k == IF sends THEN camerasTurn ELSE Settings!SetDevice(c, own, own')
<1>1. /\ command[c] = Settings!Idle /\ own' \in Settings!Own
         /\ UNCHANGED <<global, camera, mic, refused>>
      /\ missed \subseteq missed' /\ missed' \subseteq missed \cup {App, Settings!Mic}
      /\ camera[App].state = "starting" /\ Settings!Resolved(App) # Settings!Resolved(App)'
         => App \in missed'
      /\ mic.state = "starting" => Settings!Mic \in missed'
      /\ crossed \subseteq crossed' /\ crossed' \subseteq crossed \cup {App, Settings!Mic}
      /\ (\E d \in SettingsCommands : command[d].at \in OwnSteps) => Settings!Mic \in crossed'
      /\ (\E d \in SettingsCommands : command[d].at = "global" /\ App \in command[d].left)
         => App \in crossed'
      /\ bounds.changes < MaxSettingsChanges /\ bounds' = [bounds EXCEPT !.changes = @ + 1]
  BY DEF Settings!ChangeOwn, Settings!UpdateOwn, OwnSteps
<1>2. Settings!Continue(c, k, waiting)
  BY DEF Settings!ChangeOwn
<1>3. App \in Settings!Names /\ App \in Instances /\ App # Settings!Mic /\ App # Settings!None
    /\ Settings!Mic # Settings!None /\ own \in Settings!Own /\ System # App
  BY NamesAre DEF Instances, Settings!SettingsTypeOK
<1>4. Settings!Resolved(App)' \in Cameras
  BY <1>1, MergedIs DEF Settings!Resolved, Settings!SettingsTypeOK
<1>5. sends => /\ k.then = [at |-> "camera", previous |-> own, next |-> own'] /\ k.to = App
               /\ k.request = [cmd |-> c, set |-> "mode", to |-> Settings!Resolved(App)']
  BY DEF Settings!Waits
<1>6. ~sends => k = Settings!SetDevice(c, own, own')
  OBVIOUS
<1> HIDE DEF k
<1>7. Fits(k, c)
  <2>1. CASE sends
    <3> DEFINE s == [at |-> "camera", previous |-> own, next |-> own']
               r == [cmd |-> c, set |-> "mode", to |-> Settings!Resolved(App)']
    <3>1. s \in CommandStates /\ r \in Settings!Requests
      BY <1>1, <1>3, <1>4, StatesAre, RequestIs DEF OwnSteps
    <3>2. Meant(App, r, s) /\ Running(App) /\ r.cmd = c
      BY <1>3, <2>1 DEF Meant, Running
    <3>3. k = [then |-> s, to |-> App, request |-> r]
      BY <2>1 DEF k, Settings!Waits
    <3> QED
      BY <1>3, <3>1, <3>2, <3>3 DEF Fits
  <2>2. CASE ~sends
    BY <1>1, <1>3, <1>6, <2>2, SetDeviceFits
  <2> QED
    BY <2>1, <2>2
<1>8. Freed(waiting, c)
  BY <1>1, IdleIsFreed DEF SettingsInv
<1>9. \A i \in Instances : Running(i)' = Running(i)
  BY <1>1 DEF Running
<1>10. /\ command' \in [SettingsCommands -> CommandStates]
          /\ waiting' \in [Instances -> Seq(Settings!Requests)]
       /\ RequestsAreMeant'
       /\ command'[c] = k.then /\ \A d \in SettingsCommands : d # c => command'[d] = command[d]
       /\ k.to = Settings!None => waiting' = waiting
       /\ k.to # Settings!None =>
            /\ k.to \in Instances /\ waiting'[k.to] # <<>>
            /\ waiting'[k.to][Len(waiting'[k.to])] = k.request
            /\ \A j \in Instances : j # k.to => waiting'[j] = waiting[j]
  BY <1>2, <1>7, <1>8, <1>9, GoesOn DEF SettingsInv
<1>11. Settings!SettingsTypeOK'
  <2>1. bounds' \in [changes : 0..MaxSettingsChanges, starts : 0..MaxStarts,
                     refusals : 0..MaxRefusals]
    BY <1>1, SettingsTypeIs, BoundsGrow
  <2>2. missed' \subseteq Instances /\ crossed' \subseteq Instances
    BY <1>1, <1>3, SettingsTypeIs DEF Instances
  <2>3. /\ global' \in Cameras /\ camera' \in [Settings!Names -> [state : Settings!States,
                                                                  mode : Cameras]]
        /\ mic' \in [state : Settings!States, device : Mics \cup {Settings!None},
                     rate : Rates \cup {Settings!None}]
        /\ refused' \subseteq Instances
    BY <1>1, SettingsTypeIs
  <2> QED
    BY <1>1, <1>10, <2>1, <2>2, <2>3 DEF Settings!SettingsTypeOK, Instances, CommandStates
<1>12. ~sends => /\ k.then = Settings!Idle
                    \/ (k.then.at \in {"device", "rate"} /\ k.then.previous = own
                        /\ k.then.next = own')
                 /\ k.to \in {Settings!None, Settings!Mic}
                 /\ mic.state = "running" =>
                      /\ k.then.at = "rate" => own'.mic = own.mic
                      /\ k.then = Settings!Idle => own'.mic = own.mic
                         /\ own'.rate \in {Settings!None, own.rate}
  BY <1>6, DeviceGoes
<1>13. k.then = Settings!Idle \/ (k.then.at \in OwnSteps /\ k.then.previous = own
                                  /\ k.then.next = own')
  BY <1>5, <1>12 DEF OwnSteps
<1>14. OneForTheMic'
  <2> SUFFICES ASSUME Settings!Mic \notin crossed'
               PROVE  /\ \A a, b \in SettingsCommands : command'[a].at \in OwnSteps
                         /\ command'[b].at \in OwnSteps => a = b
                      /\ \A a \in SettingsCommands : command'[a].at \in OwnSteps
                         => command'[a].next = own'
    BY DEF OneForTheMic
  <2>1. \A d \in SettingsCommands : command[d].at \notin OwnSteps
    BY <1>1
  <2>2. \A d \in SettingsCommands : command'[d].at \in OwnSteps => d = c
    BY <1>10, <2>1
  <2> QED
    BY <1>10, <1>13, <2>2, StatesAre DEF OwnSteps
<1>15. MicSettles'
  <2>1. mic'.state # "starting" \/ Settings!Mic \in missed'
    BY <1>1
  <2>2. ASSUME mic'.state = "running", Settings!Mic \notin missed', Settings!Mic \notin refused',
      Settings!Mic \notin crossed'
        PROVE  /\ (\A d \in SettingsCommands : command'[d].at \notin OwnSteps) => MicHas(own)'
                  /\ RateIs(own)'
               /\ \A d \in SettingsCommands : MicFollows(d)'
    <3>1. \A d \in SettingsCommands : command[d].at \notin OwnSteps
      BY <1>1, <2>2
    <3>2. MicHas(own) /\ RateIs(own) /\ mic' = mic /\ mic.state = "running"
      BY <1>1, <2>2, <3>1 DEF SettingsInv, MicSettles
    <3>3. \A d \in SettingsCommands : d # c => MicFollows(d)'
      BY <1>10, <3>1 DEF MicFollows, OwnSteps
    <3>4. MicFollows(c)'
      <4>1. CASE sends
        BY <1>5, <1>10, <3>2, <4>1 DEF MicFollows, MicHas, RateIs
      <4>2. CASE ~sends /\ k.then = Settings!Idle
        BY <1>10, <4>2, StatesAre DEF MicFollows
      <4>3. CASE ~sends /\ k.then # Settings!Idle
        BY <1>10, <1>12, <3>2, <4>3 DEF MicFollows, MicHas, RateIs
      <4> QED
        BY <4>1, <4>2, <4>3
    <3>5. ASSUME command'[c].at \notin OwnSteps
          PROVE  MicHas(own)' /\ RateIs(own)'
      <4>1. k.then = Settings!Idle /\ ~sends
        BY <1>5, <1>10, <1>13, <3>5 DEF OwnSteps
      <4>2. own'.mic = own.mic /\ own'.rate \in {Settings!None, own.rate}
        BY <1>12, <3>2, <4>1
      <4> QED
        BY <3>2, <4>2 DEF MicHas, RateIs
    <3> QED
      BY <3>3, <3>4, <3>5
  <2> QED
    BY <2>1, <2>2 DEF MicSettles
<1>16. ASSUME NEW b \in Settings!Names
       PROVE  CameraSettles(b)'
  <2>1. b \in Instances /\ b # Settings!None /\ b # Settings!Mic /\ CameraSettles(b)
      /\ camera' = camera
    BY <1>1, NamesAre DEF Instances, SettingsInv
  <2>2. CASE b = App
    <3>1. CASE camera[App].state = "starting"
      BY <1>1, <2>1, <2>2, <3>1 DEF CameraSettles
    <3>2. CASE camera[App].state = "running" /\ sends
      <4>1. waiting'[App] # <<>> /\ waiting'[App][Len(waiting'[App])].to = Settings!Resolved(App)'
        BY <1>3, <1>5, <1>10, <3>2
      <4> QED
        BY <2>1, <2>2, <3>2, <4>1 DEF CameraSettles, Settled
    <3>3. CASE camera[App].state = "running" /\ ~sends
      <4>1. Settings!Resolved(App)' = Settings!Resolved(App) /\ waiting'[App] = waiting[App]
        BY <1>3, <1>10, <1>12, <3>3
      <4>2. App \notin crossed' => \A v : Settled(App, v) => v = Settings!Resolved(App)'
        BY <1>1, <4>1 DEF Settled
      <4>3. missed \subseteq missed' /\ crossed \subseteq crossed' /\ refused' = refused
        BY <1>1
      <4> QED
        BY <2>1, <2>2, <3>3, <4>1, <4>2, <4>3 DEF CameraSettles, Settled
    <3>4. CASE camera[App].state \notin {"starting", "running"}
      BY <2>1, <2>2, <3>4 DEF CameraSettles
    <3> QED
      BY <3>1, <3>2, <3>3, <3>4
  <2>3. CASE b = System
    <3>1. \A o : Settings!OwnOf(b, o) = Settings!NoSettings
      BY <2>3 DEF Settings!OwnOf
    <3>2. Settings!Resolved(b)' = Settings!Resolved(b)
      BY <1>1, <3>1 DEF Settings!Resolved
    <3>3. waiting'[b] = waiting[b]
      BY <1>3, <1>5, <1>10, <1>12, <2>1, <2>3
    <3>4. \A v : Settled(b, v) => v = Settings!Resolved(b)' \/ \E d \in SettingsCommands :
                   /\ command'[d].at = "global" /\ b \in command'[d].left
                   /\ Settings!Merged(command'[d].previous,
                                      Settings!OwnOf(b, own')) # Settings!Resolved(b)'
      BY <1>1, <1>10, <3>1, <3>2, StatesAre DEF Settled
    <3>5. missed \subseteq missed' /\ crossed \subseteq crossed' /\ refused' = refused
      BY <1>1
    <3>6. b \in missed' => b \in missed
      BY <1>1, <1>3, <2>1, <2>3
    <3> QED
      BY <2>1, <3>2, <3>3, <3>4, <3>5, <3>6 DEF CameraSettles, Settled
  <2> QED
    BY <2>2, <2>3, NamesAre
<1> QED
  BY <1>10, <1>11, <1>14, <1>15, <1>16 DEF SettingsInv, Settings!Names

\* An answer: the request at the head of the queue, the queues without it, what its command does next.
LEMMA AnswerSteps ==
  ASSUME Settings!SettingsTypeOK, SettingsInv, NEW i \in Instances, Settings!Answer(i)
  PROVE  Settings!SettingsTypeOK' /\ SettingsInv'
<1> DEFINE r == Head(waiting[i])
           w == [waiting EXCEPT ![i] = Tail(@)]
           c == r.cmd
<1>1. waiting[i] # <<>> /\ UNCHANGED <<global, own, missed, crossed>>
  BY DEF Settings!Answer
<1>2. PICK ok \in BOOLEAN :
        /\ Settings!Continue(c, IF ok \/ i # Settings!Mic THEN Settings!GoOn(c) ELSE Settings!Ends,
                             w)
        /\ ok => /\ IF i = Settings!Mic THEN /\ mic' = IF r.set = "device" THEN [mic EXCEPT !.device = r.to]
                                                      ELSE [mic EXCEPT !.rate = r.to]
                                             /\ UNCHANGED camera
                    ELSE camera' = [camera EXCEPT ![i].mode = r.to] /\ UNCHANGED mic
                 /\ refused' = IF i = Settings!Mic THEN refused ELSE refused \ {i}
                 /\ UNCHANGED bounds
        /\ ~ok => /\ bounds.refusals < MaxRefusals
                  /\ bounds' = [bounds EXCEPT !.refusals = @ + 1]
                  /\ refused' = refused \cup {i}
                  /\ UNCHANGED <<camera, mic>>
  <2>1. CASE /\ IF i = Settings!Mic THEN /\ mic' = IF r.set = "device" THEN [mic EXCEPT !.device = r.to]
                                                      ELSE [mic EXCEPT !.rate = r.to]
                                         /\ UNCHANGED camera
                 ELSE camera' = [camera EXCEPT ![i].mode = r.to] /\ UNCHANGED mic
             /\ refused' = IF i = Settings!Mic THEN refused ELSE refused \ {i}
             /\ Settings!Continue(c, Settings!GoOn(c), w)
             /\ UNCHANGED bounds
    BY <2>1
  <2>2. CASE /\ bounds.refusals < MaxRefusals
             /\ bounds' = [bounds EXCEPT !.refusals = @ + 1]
             /\ refused' = refused \cup {i}
             /\ Settings!Continue(c, IF i = Settings!Mic THEN Settings!Ends ELSE Settings!GoOn(c),
                                  w)
             /\ UNCHANGED <<camera, mic>>
    BY <2>2
  <2> QED
    BY <2>1, <2>2 DEF Settings!Answer
<1> DEFINE k == IF ok \/ i # Settings!Mic THEN Settings!GoOn(c) ELSE Settings!Ends
<1>3. waiting[i] \in Seq(Settings!Requests) /\ waiting \in [Instances -> Seq(Settings!Requests)]
  BY SettingsTypeIs
<1>4. /\ r \in Settings!Requests /\ c \in SettingsCommands /\ r = waiting[i][1]
         /\ 1 \in DOMAIN waiting[i] /\ Len(waiting[i]) \in DOMAIN waiting[i]
      /\ w[i] = Tail(waiting[i]) /\ \A j \in Instances : j # i => w[j] = waiting[j]
      /\ w[i] # <<>> => w[i][Len(w[i])] = waiting[i][Len(waiting[i])]
      /\ w[i] = <<>> => waiting[i][Len(waiting[i])] = r
  BY <1>1, <1>3, TailOf, RequestHas
<1>5. Freed(w, c)
  BY <1>1, AnsweredIsFreed DEF SettingsInv
<1>6. Meant(i, r, command[c]) /\ Running(i)
  BY <1>1, <1>4 DEF SettingsInv, RequestsAreMeant
<1>7. command[c].at \in {"device", "rate"} => mic.state = "running"
  BY <1>6 DEF Meant, Running
<1>8. Fits(k, c)
  BY <1>4, <1>7, GoOnFits DEF Fits
<1>9. i # Settings!Mic => i \in Settings!Names
  BY DEF Instances
<1>10. /\ camera' \in [Settings!Names -> [state : Settings!States, mode : Cameras]]
       /\ mic' \in [state : Settings!States, device : Mics \cup {Settings!None},
                    rate : Rates \cup {Settings!None}]
       /\ mic'.state = mic.state /\ \A b \in Settings!Names : camera'[b].state = camera[b].state
       /\ \A b \in Settings!Names : b # i => camera'[b] = camera[b]
       /\ i # Settings!Mic => mic' = mic
  <2>1. camera \in [Settings!Names -> [state : Settings!States, mode : Cameras]]
        /\ mic \in [state : Settings!States, device : Mics \cup {Settings!None},
                    rate : Rates \cup {Settings!None}]
    BY SettingsTypeIs
  <2>2. CASE ok /\ i = Settings!Mic
    <3>1. CASE r.set = "device"
      BY <1>2, <1>4, <2>1, <2>2, <3>1, RequestHas
    <3>2. CASE r.set = "rate"
      BY <1>2, <1>4, <2>1, <2>2, <3>2, RequestHas
    <3> QED
      BY <1>6, <2>2, <3>1, <3>2 DEF Meant
  <2>3. CASE ok /\ i # Settings!Mic
    <3>1. r.to \in Cameras
      BY <1>4, <1>6, <2>3, RequestHas DEF Meant
    <3> QED
      BY <1>2, <1>9, <2>1, <2>3, <3>1
  <2>4. CASE ~ok
    BY <1>2, <2>1, <2>4
  <2> QED
    BY <2>2, <2>3, <2>4
<1>11. \A j \in Instances : Running(j)' = Running(j)
  BY <1>10 DEF Running, Instances
<1>12. Settings!Continue(c, k, w)
  BY <1>2
<1>13. k = (IF ok \/ i # Settings!Mic THEN Settings!GoOn(c) ELSE Settings!Ends)
  OBVIOUS
<1> HIDE DEF k, w, r
<1>14. /\ command' \in [SettingsCommands -> CommandStates]
          /\ waiting' \in [Instances -> Seq(Settings!Requests)]
       /\ RequestsAreMeant'
       /\ command'[c] = k.then /\ \A d \in SettingsCommands : d # c => command'[d] = command[d]
       /\ k.to = Settings!None => waiting' = w
       /\ k.to # Settings!None =>
            /\ k.to \in Instances /\ waiting'[k.to] # <<>>
            /\ waiting'[k.to][Len(waiting'[k.to])] = k.request
            /\ \A j \in Instances : j # k.to => waiting'[j] = w[j]
  BY <1>4, <1>5, <1>8, <1>11, <1>12, GoesOn DEF SettingsInv
<1>15. Settings!SettingsTypeOK'
  <2>1. bounds' \in [changes : 0..MaxSettingsChanges, starts : 0..MaxStarts,
                     refusals : 0..MaxRefusals]
    BY <1>2, SettingsTypeIs, BoundsGrow
  <2>2. refused' \subseteq Instances
    BY <1>2, SettingsTypeIs
  <2>3. global' \in Cameras /\ own' \in Settings!Own /\ missed' \subseteq Instances
      /\ crossed' \subseteq Instances
    BY <1>1, SettingsTypeIs
  <2> QED
    BY <1>10, <1>14, <2>1, <2>2, <2>3 DEF Settings!SettingsTypeOK, Instances, CommandStates
<1>16. \/ command[c].at = "global" /\ i # Settings!Mic
       \/ command[c].at = "camera" /\ i # Settings!Mic
       \/ command[c].at = "device" /\ i = Settings!Mic
       \/ command[c].at = "rate" /\ i = Settings!Mic
  BY <1>6 DEF Meant
<1>17. command[c].at = "global" =>
         /\ command[c].previous \in Cameras /\ command[c].left \subseteq Settings!Names
         /\ k = Settings!NextCamera(c, command[c].previous, command[c].left, global)
  BY <1>4, <1>13, <1>16, CommandIs DEF Settings!GoOn, Settings!Idle, OwnSteps
<1>18. command[c].at \in OwnSteps => command[c].previous \in Settings!Own
    /\ command[c].next \in Settings!Own
  BY <1>4, CommandIs DEF OwnSteps, Settings!Idle
<1>19. command[c].at \in OwnSteps =>
         /\ k.then = Settings!Idle \/ ( /\ k.then.at \in {"device", "rate"}
                                        /\ k.then.previous = command[c].previous
                                           /\ k.then.next = command[c].next)
         /\ k.to \in {Settings!None, Settings!Mic}
  <2>1. CASE command[c].at = "camera"
    BY <1>13, <1>16, <2>1, DeviceGoes DEF Settings!GoOn
  <2>2. CASE command[c].at = "device"
    BY <1>13, <1>16, <2>2, StatesAre, NamesAre DEF Settings!GoOn, Settings!SetRate,
         Settings!Waits
  <2>3. CASE command[c].at = "rate"
    BY <1>13, <1>16, <2>3, StatesAre, NamesAre DEF Settings!GoOn
  <2> QED
    BY <2>1, <2>2, <2>3 DEF OwnSteps
<1>20. command[c].at = "global" =>
         /\ k.then.at \in {"idle", "global"}
         /\ k.to # Settings!None => k.to \in Settings!Names
            /\ k.request.to = Settings!Merged(global, Settings!OwnOf(k.to, own))
         /\ \A b \in command[c].left : camera[b].state = "running" =>
              \/ k.to = b
              \/ k.then.at = "global" /\ k.then.previous = command[c].previous /\ b \in k.then.left
              \/ Settings!Merged(command[c].previous,
                                 Settings!OwnOf(b, own)) = Settings!Merged(global, Settings!OwnOf(b, own))
  <2> SUFFICES ASSUME command[c].at = "global"
               PROVE  /\ k.then.at \in {"idle", "global"}
                      /\ k.to # Settings!None => k.to \in Settings!Names
                         /\ k.request.to = Settings!Merged(global, Settings!OwnOf(k.to, own))
                      /\ \A b \in command[c].left : camera[b].state = "running" =>
                           \/ k.to = b
                           \/ k.then.at = "global" /\ k.then.previous = command[c].previous
                              /\ b \in k.then.left
                           \/ Settings!Merged(command[c].previous,
                                              Settings!OwnOf(b, own)) = Settings!Merged(global, Settings!OwnOf(b, own))
    OBVIOUS
  <2>1. command[c].left \in SUBSET Settings!Names
      /\ k = Settings!NextCamera(c, command[c].previous, command[c].left, global)
    BY <1>17
  <2>2. /\ k.then.at \in {"idle", "global"}
        /\ k.to # Settings!None => k.to \in command[c].left
           /\ k.request.to = Settings!Merged(global, Settings!OwnOf(k.to, own))
        /\ \A b \in command[c].left : camera[b].state = "running" =>
             \/ k.to = b
             \/ k.then.at = "global" /\ k.then.previous = command[c].previous /\ b \in k.then.left
             \/ Settings!Merged(command[c].previous,
                                Settings!OwnOf(b, own)) = Settings!Merged(global, Settings!OwnOf(b, own))
    <3>1. PICK l \in SUBSET Settings!Names, p \in {command[c].previous} : l = command[c].left
        /\ p = command[c].previous
      BY <2>1
    <3>2. k = Settings!NextCamera(c, p, l, global)
      BY <2>1, <3>1
    <3>3. LoopGoes(p, l, global, k)
      BY <3>2, LoopLeaves
    <3> QED
      BY <3>1, <3>3 DEF LoopGoes
  <2> QED
    BY <2>1, <2>2
<1>21. \A d \in SettingsCommands : command'[d].at \in OwnSteps => command[d].at \in OwnSteps
    /\ command'[d].next = command[d].next
  <2>1. ASSUME command'[c].at \in OwnSteps
        PROVE  command[c].at \in OwnSteps /\ command'[c].next = command[c].next
    BY <1>14, <1>16, <1>19, <1>20, <2>1, StatesAre DEF OwnSteps
  <2> QED
    BY <1>14, <2>1
<1>22. OneForTheMic'
  BY <1>1, <1>21 DEF SettingsInv, OneForTheMic
<1>23. MicSettles'
  <2>1. mic'.state = "starting" /\ Settings!Mic \notin missed' => MicHas(own)' /\ RateIs(own)'
    <3>1. mic.state = "starting" => i # Settings!Mic
      BY <1>6 DEF Running
    <3> QED
      BY <1>1, <1>10, <3>1 DEF SettingsInv, MicSettles, MicHas, RateIs
  <2>2. ASSUME mic'.state = "running", Settings!Mic \notin missed', Settings!Mic \notin refused',
      Settings!Mic \notin crossed'
        PROVE  /\ (\A d \in SettingsCommands : command'[d].at \notin OwnSteps) => MicHas(own)'
                  /\ RateIs(own)'
               /\ \A d \in SettingsCommands : MicFollows(d)'
    <3>1. mic.state = "running" /\ Settings!Mic \notin missed /\ Settings!Mic \notin crossed
        /\ own' = own
      BY <1>1, <1>10, <2>2
    <3>2. Settings!Mic \notin refused /\ (i = Settings!Mic => ok)
      BY <1>2, <2>2
    <3>3. /\ (\A d \in SettingsCommands : command[d].at \notin OwnSteps) => MicHas(own)
             /\ RateIs(own)
          /\ \A d \in SettingsCommands : MicFollows(d)
      BY <3>1, <3>2 DEF SettingsInv, MicSettles
    <3>4. command[c].at \in OwnSteps =>
            /\ command[c].next = own
            /\ \A d \in SettingsCommands : d # c => command[d].at \notin OwnSteps
      BY <1>4, <3>1 DEF SettingsInv, OneForTheMic
    <3>5. CASE command[c].at = "global"
      <4>1. mic' = mic /\ \A d \in SettingsCommands : command'[d].at \in OwnSteps
          <=> command[d].at \in OwnSteps
        BY <1>10, <1>14, <1>16, <1>20, <3>5 DEF OwnSteps
      <4>2. ASSUME NEW d \in SettingsCommands
            PROVE  MicFollows(d)'
        <5>1. CASE command'[d].at \in OwnSteps
          <6>1. command'[d] = command[d]
            BY <1>14, <3>5, <4>1, <5>1 DEF OwnSteps
          <6> QED
            BY <3>1, <3>3, <4>1, <6>1 DEF MicFollows, MicHas, RateIs
        <5>2. CASE command'[d].at \notin OwnSteps
          BY <5>2 DEF MicFollows, OwnSteps
        <5> QED
          BY <5>1, <5>2
      <4> QED
        BY <3>1, <3>3, <4>1, <4>2 DEF MicHas, RateIs
    <3>6. CASE command[c].at \in OwnSteps
      <4> DEFINE p == command[c].previous
                 n == command[c].next
      <4>0. PICK m \in SettingsCommands : m = c
        BY <1>4
      <4>1. n = own /\ \A d \in SettingsCommands : d # c => command[d].at \notin OwnSteps
        BY <3>4, <3>6
      <4>2. \A d \in SettingsCommands : d # c => command'[d].at \notin OwnSteps
        BY <1>14, <4>1
      <4>3. \A d \in SettingsCommands : d # m => MicFollows(d)'
        BY <4>0, <4>2 DEF MicFollows, OwnSteps
      <4>4. MicFollows(c)
        BY <1>4, <3>3
      <4>5. CASE command[c].at = "camera"
        <5>1. mic' = mic /\ k = Settings!SetDevice(c, p, n)
          BY <1>10, <1>13, <1>16, <4>5 DEF Settings!GoOn
        <5>2. /\ k.then = Settings!Idle \/ (k.then.at \in {"device", "rate"} /\ k.then.previous = p
                                            /\ k.then.next = n)
              /\ k.then.at = "rate" => n.mic = p.mic
              /\ k.then = Settings!Idle => n.mic = p.mic /\ n.rate \in {Settings!None, p.rate}
          BY <3>1, <5>1, DeviceGoes
        <5>3. (MicHas(p) /\ RateIs(p)) \/ (MicHas(own) /\ RateIs(own))
          BY <4>4, <4>5 DEF MicFollows
        <5>4. MicFollows(m)'
          <6>0. command'[m] = k.then
            BY <1>14, <4>0
          <6>1. CASE k.then = Settings!Idle
            BY <6>0, <6>1, StatesAre DEF MicFollows
          <6>2. CASE k.then.at = "device"
            BY <3>1, <4>1, <5>1, <5>2, <5>3, <6>0, <6>2, StatesAre DEF MicFollows, RateIs
          <6>3. CASE k.then.at = "rate"
            BY <3>1, <4>1, <5>1, <5>2, <5>3, <6>0, <6>3, StatesAre DEF MicFollows, MicHas
          <6> QED
            BY <5>2, <6>1, <6>2, <6>3
        <5>5. ASSUME command'[c].at \notin OwnSteps
              PROVE  MicHas(own)' /\ RateIs(own)'
          BY <1>14, <3>1, <4>1, <5>1, <5>2, <5>3, <5>5 DEF MicHas, RateIs, OwnSteps
        <5> QED
          BY <4>0, <4>3, <5>4, <5>5
      <4>6. CASE command[c].at = "device"
        <5>1. /\ i = Settings!Mic /\ ok /\ r.set = "device" /\ r.to = n.mic
                 /\ mic' = [mic EXCEPT !.device = r.to]
              /\ k = Settings!SetRate(c, p, n)
          BY <1>2, <1>6, <1>13, <1>16, <3>2, <4>6 DEF Settings!GoOn, Meant
        <5>2. mic'.device = own.mic /\ mic'.rate = mic.rate
          BY <4>1, <5>1, SettingsTypeIs
        <5>3. RateIs(p) \/ RateIs(own)
          BY <4>4, <4>6 DEF MicFollows
        <5>4. (k.then = Settings!Idle /\ n.rate \in {Settings!None, p.rate}) \/ k.then.at = "rate"
          BY <5>1, StatesAre DEF Settings!SetRate, Settings!Waits
        <5>5. MicFollows(m)'
          BY <1>14, <3>1, <4>0, <5>2, <5>4, StatesAre DEF MicFollows, MicHas
        <5>6. ASSUME command'[c].at \notin OwnSteps
              PROVE  MicHas(own)' /\ RateIs(own)'
          BY <1>14, <3>1, <4>1, <5>2, <5>3, <5>4, <5>6 DEF MicHas, RateIs, OwnSteps
        <5> QED
          BY <4>0, <4>3, <5>5, <5>6
      <4>7. CASE command[c].at = "rate"
        <5>1. /\ i = Settings!Mic /\ ok /\ r.set = "rate" /\ r.to = n.rate
                 /\ mic' = [mic EXCEPT !.rate = r.to]
              /\ k = Settings!Ends
          BY <1>2, <1>6, <1>13, <1>16, <3>2, <4>7 DEF Settings!GoOn, Meant
        <5>2. mic'.device = mic.device /\ mic'.rate = own.rate
          BY <4>1, <5>1, SettingsTypeIs
        <5>3. MicHas(own)
          BY <4>4, <4>7 DEF MicFollows
        <5>4. MicHas(own)' /\ RateIs(own)'
          BY <3>1, <5>2, <5>3 DEF MicHas, RateIs
        <5>5. MicFollows(m)'
          BY <5>4 DEF MicFollows
        <5> QED
          BY <4>3, <5>4, <5>5
      <4> QED
        BY <3>6, <4>5, <4>6, <4>7 DEF OwnSteps
    <3> QED
      BY <1>16, <3>5, <3>6 DEF OwnSteps
  <2> QED
    BY <2>1, <2>2 DEF MicSettles
<1>24. ASSUME NEW b \in Settings!Names
       PROVE  CameraSettles(b)'
  <2>1. b \in Instances /\ b # Settings!None /\ b # Settings!Mic /\ CameraSettles(b)
      /\ Settings!Resolved(b)' = Settings!Resolved(b)
        /\ camera'[b].state = camera[b].state /\ own' = own
        /\ Settings!Resolved(b) = Settings!Merged(global, Settings!OwnOf(b, own))
    BY <1>1, <1>10, NamesAre DEF Instances, SettingsInv, Settings!Resolved
  <2>2. CASE camera[b].state = "starting"
    <3>1. b # i
      BY <1>6, <2>1, <2>2 DEF Running
    <3> QED
      BY <1>1, <1>10, <2>1, <2>2, <3>1 DEF CameraSettles
  <2>3. CASE camera[b].state = "running" /\ k.to = b
    <3>1. command[c].at = "global"
      BY <1>16, <1>19, <2>1, <2>3 DEF OwnSteps
    <3>2. k.request.to = Settings!Resolved(b)
      BY <1>20, <2>1, <2>3, <3>1
    <3>3. waiting'[b] # <<>> /\ waiting'[b][Len(waiting'[b])].to = Settings!Resolved(b)'
      BY <1>14, <2>1, <2>3, <3>2
    <3> QED
      BY <2>1, <2>3, <3>3 DEF CameraSettles, Settled
  <2>4. CASE camera[b].state = "running" /\ k.to # b
    <3>1. waiting'[b] = w[b]
      BY <1>14, <2>1, <2>4
    <3>2. ASSUME NEW v, Settled(b, v)
          PROVE  v = Settings!Resolved(b)' \/ \E d \in SettingsCommands :
                   /\ command'[d].at = "global" /\ b \in command'[d].left
                   /\ Settings!Merged(command'[d].previous,
                                      Settings!OwnOf(b, own)) # Settings!Resolved(b)'
      <4>1. CASE v = Settings!Resolved(b)
        BY <2>1, <4>1
      <4>2. CASE v # Settings!Resolved(b)
        <5>1. PICK d \in SettingsCommands : /\ command[d].at = "global" /\ b \in command[d].left
                                            /\ Settings!Merged(command[d].previous,
                                                               Settings!OwnOf(b, own)) # Settings!Resolved(b)
          BY <3>2, <4>2 DEF Settled
        <5>2. CASE d # c
          BY <1>14, <2>1, <5>1, <5>2
        <5>3. CASE d = c
          <6>1. /\ k.then.at = "global" /\ k.then.previous = command[c].previous
                   /\ b \in k.then.left
            BY <1>20, <2>1, <2>4, <5>1, <5>3
          <6> QED
            BY <1>4, <1>14, <2>1, <5>1, <5>3, <6>1
        <5> QED
          BY <5>2, <5>3
      <4> QED
        BY <4>1, <4>2
    <3>3. CASE b # i
      <4>1. waiting'[b] = waiting[b] /\ camera'[b] = camera[b] /\ (b \in refused => b \in refused')
        BY <1>2, <1>4, <1>10, <2>1, <3>1, <3>3
      <4> QED
        BY <1>1, <2>1, <2>4, <3>2, <4>1 DEF CameraSettles, Settled
    <3>4. CASE b = i
      <4>1. waiting[b] # <<>>
        BY <1>1, <3>4
      <4>2. CASE w[b] # <<>>
        <5>1. waiting'[b] # <<>> /\ waiting'[b][Len(waiting'[b])] = waiting[b][Len(waiting[b])]
          BY <1>4, <3>1, <3>4, <4>2
        <5> QED
          BY <1>1, <2>1, <2>4, <3>2, <4>1, <5>1 DEF CameraSettles, Settled
      <4>3. CASE w[b] = <<>>
        <5>1. waiting'[b] = <<>> /\ waiting[b][Len(waiting[b])].to = r.to
          BY <1>4, <3>1, <3>4, <4>3
        <5>2. CASE ok
          <6>1. camera'[b].mode = r.to
            BY <1>2, <2>1, <3>4, <5>2, SettingsTypeIs
          <6> QED
            BY <1>1, <2>1, <2>4, <3>2, <4>1, <5>1, <6>1 DEF CameraSettles, Settled
        <5>3. CASE ~ok
          <6>1. b \in refused'
            BY <1>2, <3>4, <5>3
          <6> QED
            BY <2>1, <2>4, <5>1, <6>1 DEF CameraSettles
        <5> QED
          BY <5>2, <5>3
      <4> QED
        BY <4>2, <4>3
    <3> QED
      BY <3>3, <3>4
  <2>5. CASE camera[b].state \notin {"starting", "running"}
    BY <2>1, <2>5 DEF CameraSettles
  <2> QED
    BY <2>2, <2>3, <2>4, <2>5
<1> QED
  BY <1>14, <1>15, <1>22, <1>23, <1>24 DEF SettingsInv, Settings!Names

LEMMA SettingsStarts == Settings!SettingsInit => Settings!SettingsTypeOK /\ SettingsInv
<1> SUFFICES ASSUME Settings!SettingsInit PROVE Settings!SettingsTypeOK /\ SettingsInv
  OBVIOUS
<1>1. Settings!SettingsTypeOK
  <2>1. Settings!NoSettings \in Settings!Own /\ <<>> \in Seq(Settings!Requests)
      /\ 0 \in 0..MaxSettingsChanges /\ 0 \in 0..MaxStarts /\ 0 \in 0..MaxRefusals
    BY SettingsFacts DEF Settings!NoSettings, Settings!Own
  <2> QED
    BY <2>1, StatesAre DEF Settings!SettingsInit, SettingsTypeIs, Settings!SettingsTypeOK,
         CommandStates, Settings!States
<1>2. \A i \in Instances : waiting[i] = <<>>
  BY DEF Settings!SettingsInit, Instances
<1>3. RequestsAreMeant
  BY <1>2 DEF RequestsAreMeant, OneEach
<1>4. \A c \in SettingsCommands : command[c].at = "idle"
  BY StatesAre DEF Settings!SettingsInit
<1>5. OneForTheMic /\ MicSettles
  BY <1>4 DEF Settings!SettingsInit, OneForTheMic, MicSettles, OwnSteps
<1>6. \A b \in Settings!Names : CameraSettles(b)
  BY DEF Settings!SettingsInit, CameraSettles
<1> QED
  BY <1>1, <1>3, <1>5, <1>6 DEF SettingsInv

LEMMA SettingsSteps ==
  Settings!SettingsTypeOK /\ SettingsInv /\ [Settings!SettingsNext]_settingsVars
      => Settings!SettingsTypeOK' /\ SettingsInv'
<1> SUFFICES ASSUME Settings!SettingsTypeOK, SettingsInv, [Settings!SettingsNext]_settingsVars
             PROVE  Settings!SettingsTypeOK' /\ SettingsInv'
  OBVIOUS
<1>1. CASE UNCHANGED settingsVars
  <2>1. Settings!SettingsTypeOK'
    BY <1>1 DEF settingsVars, Settings!SettingsTypeOK
  <2>2. RequestsAreMeant'
    BY <1>1, RequestsStay DEF settingsVars, SettingsInv, Running
  <2>3. OneForTheMic' /\ MicSettles'
    BY <1>1 DEF settingsVars, SettingsInv, OneForTheMic, MicSettles, MicHas, RateIs, MicFollows
  <2>4. ASSUME NEW b \in Settings!Names
        PROVE  CameraSettles(b)'
    BY <1>1, CameraStays DEF settingsVars, SettingsInv
  <2> QED
    BY <2>1, <2>2, <2>3, <2>4 DEF SettingsInv, Settings!Names
<1> QED
  BY <1>1, StartMicSteps, StartCameraSteps, RunsOrStops, ChangeGlobalSteps, ChangeOwnSteps,
       AnswerSteps DEF Settings!SettingsNext, Instances

LEMMA SettingsHold == Settings!SettingsTypeOK /\ SettingsInv => Settings!DriversFollowSettings
<1> SUFFICES ASSUME Settings!SettingsTypeOK, SettingsInv, Settings!Quiet
             PROVE  LET sure == (Settings!Names \cup {Settings!Mic}) \ (missed \cup refused \cup crossed)
                    IN /\ \A b \in Settings!Names \cap sure : camera[b].state = "running"
                          => camera[b].mode = Settings!Resolved(b)
                       /\ mic.state = "running" /\ Settings!Mic \in sure =>
                            mic.device = own.mic
                                /\ (own.rate # Settings!None => mic.rate = own.rate)
  BY DEF Settings!DriversFollowSettings
<1>1. \A c \in SettingsCommands : command[c].at = "idle"
  BY StatesAre DEF Settings!Quiet
<1>2. \A b \in Settings!Names : \A v : Settled(b, v) => v = Settings!Resolved(b)
  BY <1>1 DEF Settled
<1>3. ASSUME NEW b \in Settings!Names
      PROVE  waiting[b] = <<>>
  <2>1. waiting[b] \in Seq(Settings!Requests) /\ b \in Instances
    BY SettingsTypeIs DEF Instances
  <2>2. waiting[b] # <<>> => 1 \in DOMAIN waiting[b] /\ waiting[b][1].cmd \in SettingsCommands
    BY <2>1, TailOf, RequestHas
  <2> QED
    BY <1>1, <2>1, <2>2 DEF SettingsInv, RequestsAreMeant, Meant
<1>4. ASSUME NEW b \in Settings!Names, b \notin missed, b \notin refused, b \notin crossed,
    camera[b].state = "running"
      PROVE  camera[b].mode = Settings!Resolved(b)
  BY <1>2, <1>3, <1>4 DEF SettingsInv, CameraSettles
<1>5. mic.state = "running" /\ Settings!Mic \notin missed \cup refused \cup crossed => MicHas(own)
    /\ RateIs(own)
  BY <1>1 DEF SettingsInv, MicSettles, OwnSteps
<1> QED
  BY <1>4, <1>5 DEF MicHas, RateIs

-----------------------------------------------------------------------------
(*****************************************************************************)
(* The catalogue.  The entries of the queue wake calls that wait for them,   *)
(* a change under way is the queue's first entry, and a host runs what its   *)
(* last change told it to run: so no file is removed under a bridge.         *)
(*****************************************************************************)
Building == {"building", "environment"}
Leaving == {"releasing", "removing"}

\* The name is locked by the one install that builds under it, while nothing
\* is installed.
OneBuilds ==
  /\ locked => checkout = Catalogue!None
  /\ \A c \in Calls : calls[c] \in Building => locked
  /\ \A c, d \in Calls : calls[c] \in Building /\ calls[d] \in Building => c = d

\* The app manager lists what is on disk.
ListedIsOnDisk == catalogueCatalogue = Catalogue!Discovered

\* Each entry of the queue wakes calls of its own, which wait for its kind.
QueueIsAwaited ==
  /\ \A i \in DOMAIN queue : \A c \in queue[i].waiters :
       calls[c] = IF queue[i].what = "sync" THEN "queued" ELSE "releasing"
  /\ \A i, j \in DOMAIN queue : queue[i].waiters \cap queue[j].waiters # {} => i = j
  /\ \A i \in DOMAIN queue : queue[i].what = "release" => queue[i].waiters # {}

\* A change under way is the first of the queue, and what it will add is there.
ChangeIsFirst ==
  change # Catalogue!Idle =>
    /\ queue # <<>>
    /\ queue[1].what = "release" => change.wanted = Catalogue!None
    /\ change.wanted = "installed" => checkout = "valid"

\* The hub's bridge is what the hosts were last told to run, except while a
\* change lets it go.
HostIsSynced ==
  /\ change.at # "release" => /\ leaving = Catalogue!NoHost
                                 /\ (host = Catalogue!NoHost <=> synced = Catalogue!None)
                              /\ host # Catalogue!NoHost => host.kind = synced
  /\ change.at = "release" => host = Catalogue!NoHost

\* A bridge of the installed app, whatever it does, has the app's directory.
FilesStay ==
  \A h \in {host, leaving} \ {Catalogue!NoHost} :
    /\ h.kind = "installed" => checkout = "valid"
    /\ h.phase = "up" => env[h.kind] = "ready"

\* When an uninstall removes the app, no bridge of it is left.
NothingRunsWhenRemoved ==
  Catalogue!Removing => host = Catalogue!NoHost /\ leaving = Catalogue!NoHost
      /\ change = Catalogue!Idle

UninstallIsUnderWay == uninstalling => \E c \in Calls : calls[c] \in Leaving

\* The hosts are told what the app manager lists, or will be: by a sync that
\* has not begun, or by an uninstall that ends with one.
Target == IF change = Catalogue!Idle THEN synced ELSE change.wanted
SyncWaits == \E i \in DOMAIN queue : queue[i].what = "sync" /\ (i > 1 \/ change = Catalogue!Idle)
WillFollow ==
  Target = Catalogue!AppDriverSource \/ SyncWaits \/ \E c \in Calls : calls[c] \in Leaving

CatalogueInv ==
  /\ OneBuilds /\ ListedIsOnDisk /\ QueueIsAwaited /\ ChangeIsFirst /\ HostIsSynced
  /\ FilesStay /\ NothingRunsWhenRemoved /\ UninstallIsUnderWay /\ WillFollow

CallStates == {"idle", "cloning", "building", "environment", "queued", "stopping", "releasing",
               "removing"}
Waits == {"queued", "releasing"}
Changes == [at : {"stop", "release"}, todo : SUBSET Users,
            wanted : Catalogue!Kinds \union {Catalogue!None}]

LEMMA CatalogueTypeIs ==
  ASSUME Catalogue!TypeOK
  PROVE  /\ uninstalling \in BOOLEAN /\ locked \in BOOLEAN /\ active \in BOOLEAN
         /\ host \in Catalogue!Host \union {Catalogue!NoHost}
            /\ leaving \in Catalogue!Host \union {Catalogue!NoHost}
         /\ calls \in [Calls -> CallStates] /\ queue \in Seq(Catalogue!Entry)
         /\ (change = Catalogue!Idle /\ change.at = "idle")
            \/ (change \in Changes /\ change # Catalogue!Idle)
         /\ catalogueCatalogue \in {"installed", "builtin", Catalogue!None}
            /\ synced \in {"installed", "builtin", Catalogue!None}
         /\ env \in [{"installed", "builtin"} -> {Catalogue!None, "partial", "ready", "stale"}]
         /\ checkout \in {Catalogue!None, "valid", "invalid"}
<1>1. /\ uninstalling \in BOOLEAN /\ locked \in BOOLEAN /\ active \in BOOLEAN
      /\ host \in Catalogue!Host \union {Catalogue!NoHost}
         /\ leaving \in Catalogue!Host \union {Catalogue!NoHost}
  BY DEF Catalogue!TypeOK
<1>2. calls \in [Calls -> CallStates] /\ queue \in Seq(Catalogue!Entry)
  BY DEF Catalogue!TypeOK, CallStates
<1>3. change = Catalogue!Idle \/ change \in Changes
  BY DEF Catalogue!TypeOK, Changes
<1>4. Catalogue!Idle.at = "idle" /\ \A x \in Changes : x.at # "idle"
  BY DEF Catalogue!Idle, Changes
<1>5. /\ catalogueCatalogue \in {"installed", "builtin", Catalogue!None}
         /\ synced \in {"installed", "builtin", Catalogue!None}
      /\ env \in [{"installed", "builtin"} -> {Catalogue!None, "partial", "ready", "stale"}]
      /\ checkout \in {Catalogue!None, "valid", "invalid"}
  BY DEF Catalogue!TypeOK, Catalogue!Kinds
<1>6. (change = Catalogue!Idle /\ change.at = "idle")
    \/ (change \in Changes /\ change # Catalogue!Idle)
  <2>1. CASE change = Catalogue!Idle
    <3>1. change.at = "idle"
      BY <2>1 DEF Catalogue!Idle
    <3> QED
      BY <2>1, <3>1
  <2>2. CASE change \in Changes
    <3>1. change.at # "idle"
      BY <1>4, <2>2
    <3>2. change # Catalogue!Idle
      BY <1>4, <3>1
    <3> QED
      BY <2>2, <3>2
  <2> QED
    BY <1>3, <2>1, <2>2
<1> QED
  BY <1>1, <1>2, <1>5, <1>6

LEMMA QueueIs ==
  ASSUME Catalogue!TypeOK
  PROVE  /\ Len(queue) \in Nat /\ DOMAIN queue = 1..Len(queue)
         /\ queue # <<>> <=> Len(queue) > 0
         /\ \A i \in 1..Len(queue) : queue[i] \in Catalogue!Entry
            /\ queue[i].waiters \subseteq Calls
                                      /\ queue[i].what \in {"sync", "release"}
<1>1. queue \in Seq(Catalogue!Entry)
  BY DEF Catalogue!TypeOK
<1>2. \A i \in 1..Len(queue) : queue[i] \in Catalogue!Entry
  BY <1>1
<1> QED
  BY <1>1, <1>2 DEF Catalogue!Entry

\* What a sync that is asked for does to the queue: it joins the last entry or
\* becomes one.
LEMMA SyncJoins ==
  ASSUME Catalogue!TypeOK, ChangeIsFirst, NEW ws \in SUBSET Calls, Catalogue!QueueSync(ws)
  PROVE  \E k \in 1..(Len(queue) + 1) :
           /\ k \in {Len(queue), Len(queue) + 1}
           /\ queue' \in Seq(Catalogue!Entry) /\ Len(queue') = k
           /\ \A i \in 1..Len(queue) : i # k => queue'[i] = queue[i]
           /\ queue'[k].what = "sync"
           /\ k <= Len(queue) => queue[k].what = "sync"
           /\ queue'[k].waiters = IF k <= Len(queue) THEN queue[k].waiters \union ws ELSE ws
           /\ k > 1 \/ change = Catalogue!Idle
<1> DEFINE n == Len(queue)
           e == [what |-> "sync", waiters |-> ws]
<1>1. n \in Nat /\ DOMAIN queue = 1..n /\ queue \in Seq(Catalogue!Entry)
    /\ \A i \in 1..n : queue[i] \in Catalogue!Entry
  BY QueueIs, CatalogueTypeIs
<1>2. e \in Catalogue!Entry
  BY DEF Catalogue!Entry
<1>3. CASE n > 0 /\ queue[n].what = "sync" /\ (n > 1 \/ change = Catalogue!Idle)
  <2>1. queue' = [queue EXCEPT ![n].waiters = @ \union ws]
    BY <1>3 DEF Catalogue!QueueSync
  <2>2. n \in 1..n /\ queue[n] \in Catalogue!Entry
      /\ [queue[n] EXCEPT !.waiters = @ \union ws] \in Catalogue!Entry
    BY <1>1, <1>3 DEF Catalogue!Entry
  <2>3. queue' \in Seq(Catalogue!Entry) /\ Len(queue') = n
    BY <1>1, <2>1, <2>2
  <2>4. \A i \in 1..n : i # n => queue'[i] = queue[i]
    BY <1>1, <2>1
  <2>5. queue'[n] = [queue[n] EXCEPT !.waiters = @ \union ws]
    BY <1>1, <2>1, <2>2
  <2>6. queue'[n].what = "sync" /\ queue'[n].waiters = queue[n].waiters \union ws
    BY <1>3, <2>2, <2>5 DEF Catalogue!Entry
  <2>7. n \in 1..(n + 1) /\ n <= n
    BY <1>1, <1>3
  <2> HIDE DEF n
  <2> QED
    BY <1>3, <2>3, <2>4, <2>6, <2>7 DEF n
<1>4. CASE ~(n > 0 /\ queue[n].what = "sync" /\ (n > 1 \/ change = Catalogue!Idle))
  <2>1. queue' = Append(queue, e)
    BY <1>4 DEF Catalogue!QueueSync
  <2>2. queue' \in Seq(Catalogue!Entry) /\ Len(queue') = n + 1 /\ queue'[n + 1] = e
    BY <1>1, <1>2, <2>1
  <2>3. \A i \in 1..n : queue'[i] = queue[i]
    BY <1>1, <1>2, <2>1
  <2>4. n + 1 > 1 \/ change = Catalogue!Idle
    BY <1>1, QueueIs DEF ChangeIsFirst
  <2> HIDE DEF n
  <2> QED
    BY <1>1, <2>2, <2>3, <2>4
<1> QED
  BY <1>3, <1>4

\* Who does not wait in the queue is in no entry of it.
LEMMA OutOfQueue ==
  ASSUME Catalogue!TypeOK, QueueIsAwaited, NEW c \in Calls, calls[c] \notin Waits,
         NEW i \in 1..Len(queue)
  PROVE  c \notin queue[i].waiters
BY QueueIs DEF QueueIsAwaited, Waits

LEMMA SyncIsQueued ==
  ASSUME Catalogue!TypeOK, QueueIsAwaited, ChangeIsFirst, NEW ws \in SUBSET Calls,
         Catalogue!QueueSync(ws), change' = change,
         \A c \in Calls : calls[c] \in Waits => calls'[c] = calls[c],
         \A c \in ws : calls[c] \notin Waits /\ calls'[c] = "queued"
  PROVE  /\ queue' \in Seq(Catalogue!Entry) /\ queue' # <<>> /\ QueueIsAwaited' /\ SyncWaits'
         /\ queue # <<>> => queue'[1].what = queue[1].what
<1>1. PICK k \in 1..(Len(queue) + 1) :
           /\ k \in {Len(queue), Len(queue) + 1}
           /\ queue' \in Seq(Catalogue!Entry) /\ Len(queue') = k
           /\ \A i \in 1..Len(queue) : i # k => queue'[i] = queue[i]
           /\ queue'[k].what = "sync"
           /\ k <= Len(queue) => queue[k].what = "sync"
           /\ queue'[k].waiters = IF k <= Len(queue) THEN queue[k].waiters \union ws ELSE ws
           /\ k > 1 \/ change = Catalogue!Idle
  BY SyncJoins
<1>0. Len(queue) \in Nat /\ k \in {Len(queue), Len(queue) + 1}
  <2>1. Len(queue) \in Nat
    BY QueueIs
  <2>2. k \in {Len(queue), Len(queue) + 1}
    BY <1>1
  <2> QED
    BY <2>1, <2>2
<1>2. /\ Len(queue) \in Nat /\ DOMAIN queue = 1..Len(queue) /\ DOMAIN queue' = 1..k
      /\ \A i \in 1..Len(queue) : queue[i].waiters \subseteq Calls
  <2>1. queue' \in Seq(Catalogue!Entry) /\ Len(queue') = k
    BY <1>1
  <2>2. DOMAIN queue' = 1..k
    BY <2>1
  <2> QED
    BY <2>2, QueueIs
<1>3. /\ \A i \in 1..k : i # k => i \in 1..Len(queue)
      /\ k <= Len(queue) => k = Len(queue) /\ k \in 1..Len(queue)
      /\ k \in 1..k
  BY <1>0, k \in 1..(Len(queue) + 1)
<1>4. \A i \in 1..Len(queue) : queue[i].waiters \cap ws = {}
  BY OutOfQueue
<1>5. \A i \in 1..k : \A c \in queue'[i].waiters :
        calls'[c] = IF queue'[i].what = "sync" THEN "queued" ELSE "releasing"
  <2> SUFFICES ASSUME NEW i \in 1..k, NEW c \in queue'[i].waiters
               PROVE  calls'[c] = IF queue'[i].what = "sync" THEN "queued" ELSE "releasing"
    OBVIOUS
  <2>1. CASE i # k \/ (k <= Len(queue) /\ c \in queue[k].waiters)
    <3>1. i \in 1..Len(queue) /\ c \in queue[i].waiters /\ queue'[i].what = queue[i].what
      BY <1>1, <1>2, <1>3, <2>1
    <3>2. calls[c] = IF queue[i].what = "sync" THEN "queued" ELSE "releasing"
      BY <1>2, <3>1 DEF QueueIsAwaited
    <3>3. c \in Calls /\ calls[c] \in Waits
      BY <1>2, <3>1, <3>2 DEF Waits
    <3> QED
      BY <3>1, <3>2, <3>3
  <2>2. CASE i = k /\ c \in ws
    BY <1>1, <2>2
  <2> QED
    BY <1>1, <2>1, <2>2
<1>6. ASSUME NEW i \in 1..k, NEW j \in 1..k, queue'[i].waiters \cap queue'[j].waiters # {}
      PROVE  i = j
  <2>1. \A m, l \in 1..Len(queue) : queue[m].waiters \cap queue[l].waiters # {} => m = l
    BY <1>2 DEF QueueIsAwaited
  <2>2. CASE i # k /\ j # k
    BY <1>1, <1>3, <1>6, <2>1, <2>2
  <2>3. CASE i # k /\ j = k
    <3>1. i \in 1..Len(queue) /\ queue'[i] = queue[i]
      BY <1>1, <1>3, <2>3
    <3>2. CASE k <= Len(queue)
      <4>1. k \in 1..Len(queue) /\ queue'[k].waiters = queue[k].waiters \union ws
        BY <1>1, <1>3, <3>2
      <4> QED
        BY <1>4, <1>6, <2>1, <2>3, <3>1, <4>1
    <3>3. CASE ~(k <= Len(queue))
      BY <1>1, <1>4, <1>6, <2>3, <3>1, <3>3
    <3> QED
      BY <3>2, <3>3
  <2>4. CASE i = k /\ j # k
    <3>1. j \in 1..Len(queue) /\ queue'[j] = queue[j]
      BY <1>1, <1>3, <2>4
    <3>2. CASE k <= Len(queue)
      <4>1. k \in 1..Len(queue) /\ queue'[k].waiters = queue[k].waiters \union ws
        BY <1>1, <1>3, <3>2
      <4> QED
        BY <1>4, <1>6, <2>1, <2>4, <3>1, <4>1
    <3>3. CASE ~(k <= Len(queue))
      BY <1>1, <1>4, <1>6, <2>4, <3>1, <3>3
    <3> QED
      BY <3>2, <3>3
  <2> QED
    BY <2>2, <2>3, <2>4
<1>7. ASSUME NEW i \in 1..k, queue'[i].what = "release"
      PROVE  queue'[i].waiters # {}
  <2>1. i # k
    BY <1>1, <1>7
  <2> QED
    BY <1>1, <1>2, <1>3, <1>7, <2>1 DEF QueueIsAwaited
<1>8. QueueIsAwaited'
  <2>1. \A i, j \in 1..k : queue'[i].waiters \cap queue'[j].waiters # {} => i = j
    BY <1>6
  <2>2. \A i \in 1..k : queue'[i].what = "release" => queue'[i].waiters # {}
    BY <1>7
  <2> QED
    BY <1>2, <1>5, <2>1, <2>2 DEF QueueIsAwaited
<1>9. SyncWaits'
  <2>1. k \in DOMAIN queue' /\ queue'[k].what = "sync" /\ (k > 1 \/ change' = Catalogue!Idle)
    BY <1>1, <1>2, <1>3
  <2> QED
    BY <2>1 DEF SyncWaits
<1>10. queue # <<>> => queue'[1].what = queue[1].what
  <2> SUFFICES ASSUME queue # <<>> PROVE queue'[1].what = queue[1].what
    OBVIOUS
  <2>1. 1 \in 1..Len(queue)
    BY QueueIs
  <2>2. CASE k = 1
    BY <1>1, <2>1, <2>2
  <2>3. CASE k # 1
    BY <1>1, <2>1, <2>3
  <2> QED
    BY <2>2, <2>3
<1>11. queue' # <<>>
  BY <1>1
<1> QED
  BY <1>1, <1>8, <1>9, <1>10, <1>11

LEMMA QueueStays ==
  ASSUME Catalogue!TypeOK, QueueIsAwaited, queue' = queue, \A c \in Calls : calls[c] \in Waits
         => calls'[c] = calls[c]
  PROVE  QueueIsAwaited'
<1>1. \A i \in DOMAIN queue : \A c \in queue[i].waiters : c \in Calls /\ calls[c] \in Waits
  BY QueueIs DEF QueueIsAwaited, Waits
<1> QED
  BY <1>1 DEF QueueIsAwaited

LEMMA ReleaseIsQueued ==
  ASSUME Catalogue!TypeOK, QueueIsAwaited, NEW c \in Calls,
         queue' = Append(queue, [what |-> "release", waiters |-> {c}]),
         calls[c] \notin Waits, calls'[c] = "releasing",
         \A d \in Calls \ {c} : calls'[d] = calls[d]
  PROVE  /\ queue' \in Seq(Catalogue!Entry) /\ queue' # <<>> /\ QueueIsAwaited'
         /\ queue # <<>> => queue'[1].what = queue[1].what
<1> DEFINE e == [what |-> "release", waiters |-> {c}]
           n == Len(queue)
<1>1. n \in Nat /\ DOMAIN queue = 1..n /\ queue \in Seq(Catalogue!Entry)
    /\ \A i \in 1..n : queue[i] \in Catalogue!Entry
  BY QueueIs, CatalogueTypeIs
<1>2. e \in Catalogue!Entry /\ e.what = "release" /\ e.waiters = {c}
  BY DEF Catalogue!Entry
<1> HIDE DEF e
<1>3. queue' = Append(queue, e)
  BY DEF e
<1>4. /\ queue' \in Seq(Catalogue!Entry) /\ Len(queue') = n + 1 /\ queue'[n + 1] = e
      /\ \A i \in 1..n : queue'[i] = queue[i]
  BY <1>1, <1>2, <1>3
<1>5. DOMAIN queue' = 1..(n + 1) /\ \A i \in 1..(n + 1) : i \in 1..n \/ i = n + 1
  BY <1>1, <1>4
<1>6. \A i \in 1..n : c \notin queue[i].waiters /\ queue[i].waiters \subseteq Calls
  BY OutOfQueue, QueueIs
<1> HIDE DEF n
<1>7. QueueIsAwaited'
  <2>1. \A i \in 1..(n + 1) : \A d \in queue'[i].waiters :
          calls'[d] = IF queue'[i].what = "sync" THEN "queued" ELSE "releasing"
    <3> SUFFICES ASSUME NEW i \in 1..(n + 1), NEW d \in queue'[i].waiters
                 PROVE  calls'[d] = IF queue'[i].what = "sync" THEN "queued" ELSE "releasing"
      OBVIOUS
    <3>1. CASE i \in 1..n
      <4>1. d \in queue[i].waiters /\ d \in Calls \ {c} /\ queue'[i] = queue[i]
        BY <1>4, <1>6, <3>1
      <4> QED
        BY <1>1, <3>1, <4>1 DEF QueueIsAwaited
    <3>2. CASE i = n + 1
      BY <1>2, <1>4, <3>2
    <3> QED
      BY <1>5, <3>1, <3>2
  <2>2. \A i, j \in 1..(n + 1) : queue'[i].waiters \cap queue'[j].waiters # {} => i = j
    <3> SUFFICES ASSUME NEW i \in 1..(n + 1), NEW j \in 1..(n + 1),
        queue'[i].waiters \cap queue'[j].waiters # {}
                 PROVE  i = j
      OBVIOUS
    <3>1. CASE i \in 1..n /\ j \in 1..n
      BY <1>1, <1>4, <3>1 DEF QueueIsAwaited
    <3>2. CASE i \in 1..n /\ j = n + 1
      BY <1>2, <1>4, <1>6, <3>2
    <3>3. CASE i = n + 1 /\ j \in 1..n
      BY <1>2, <1>4, <1>6, <3>3
    <3> QED
      BY <1>5, <3>1, <3>2, <3>3
  <2>3. \A i \in 1..(n + 1) : queue'[i].what = "release" => queue'[i].waiters # {}
    BY <1>1, <1>2, <1>4, <1>5 DEF QueueIsAwaited
  <2> QED
    BY <1>5, <2>1, <2>2, <2>3 DEF QueueIsAwaited
<1>8. queue # <<>> => queue'[1].what = queue[1].what
  <2> SUFFICES ASSUME queue # <<>> PROVE queue'[1].what = queue[1].what
    OBVIOUS
  <2>1. 1 \in 1..n
    BY QueueIs DEF n
  <2> QED
    BY <1>4, <2>1
<1>9. queue' # <<>>
  <2>1. Len(queue') > 0
    BY <1>1, <1>4
  <2> QED
    BY <2>1
<1> QED
  BY <1>4, <1>7, <1>8, <1>9

\* The first change is made: its calls go on, the rest of the queue stays.
LEMMA FinishDoes ==
  ASSUME Catalogue!TypeOK, QueueIsAwaited, queue # <<>>, Catalogue!Finish
  PROVE  /\ change' = Catalogue!Idle /\ queue' \in Seq(Catalogue!Entry) /\ QueueIsAwaited'
            /\ calls' \in [Calls -> CallStates]
         /\ \A c \in Calls : \/ calls'[c] = calls[c]
                             \/ calls[c] = "queued" /\ queue[1].what = "sync" /\ calls'[c] = "idle"
                             \/ calls[c] = "releasing" /\ queue[1].what = "release"
                                /\ calls'[c] = "removing"
         /\ queue[1].what = "release" => \E c \in Calls : calls'[c] = "removing"
         /\ \A i \in DOMAIN queue : i > 1 => i - 1 \in DOMAIN queue' /\ queue'[i - 1] = queue[i]
<1> DEFINE n == Len(queue)
           e == queue[1]
<1>1. /\ n \in Nat /\ n > 0 /\ DOMAIN queue = 1..n /\ queue \in Seq(Catalogue!Entry)
      /\ \A i \in 1..n : queue[i] \in Catalogue!Entry /\ queue[i].waiters \subseteq Calls
         /\ queue[i].what \in {"sync", "release"}
  BY QueueIs, CatalogueTypeIs
<1>2. Head(queue) = e /\ 1 \in 1..n
  BY <1>1
<1>3. e.what \in {"sync", "release"} /\ e.waiters \subseteq Calls
  BY <1>1, <1>2
<1>4. queue' = Tail(queue) /\ change' = Catalogue!Idle
  BY DEF Catalogue!Finish
<1>5. /\ queue' \in Seq(Catalogue!Entry) /\ Len(queue') = n - 1 /\ DOMAIN queue' = 1..(n - 1)
      /\ \A i \in 1..(n - 1) : queue'[i] = queue[i + 1]
  BY <1>1, <1>4
<1>6. calls' = [c \in Calls |-> IF c \notin e.waiters THEN calls[c]
                                ELSE IF calls[c] = "releasing" THEN "removing" ELSE "idle"]
  BY <1>2 DEF Catalogue!Finish
<1>7. \A c \in e.waiters : calls[c] = IF e.what = "sync" THEN "queued" ELSE "releasing"
  BY <1>1, <1>2 DEF QueueIsAwaited
<1> HIDE DEF e
<1>8. \A c \in Calls : \/ calls'[c] = calls[c]
                       \/ calls[c] = "queued" /\ e.what = "sync" /\ calls'[c] = "idle"
                       \/ calls[c] = "releasing" /\ e.what = "release" /\ calls'[c] = "removing"
  BY <1>3, <1>6, <1>7
<1>9. calls' \in [Calls -> CallStates]
  BY <1>6, CatalogueTypeIs DEF CallStates
<1>10. e.what = "release" => \E c \in Calls : calls'[c] = "removing"
  <2> SUFFICES ASSUME e.what = "release" PROVE \E c \in Calls : calls'[c] = "removing"
    OBVIOUS
  <2>1. e.waiters # {}
    BY <1>1, <1>2 DEF QueueIsAwaited, e
  <2> QED
    BY <1>3, <1>6, <1>7, <2>1
<1>11. \A i \in 1..(n - 1) : i + 1 \in 1..n /\ i + 1 # 1
  BY <1>1
<1>12. \A i \in 1..n : i # 1 => queue[i].waiters \cap e.waiters = {}
  BY <1>1, <1>2 DEF QueueIsAwaited, e
<1>13. \A i \in 1..n : i > 1 => i - 1 \in 1..(n - 1) /\ queue'[i - 1] = queue[i]
  <2> SUFFICES ASSUME NEW i \in 1..n, i > 1 PROVE i - 1 \in 1..(n - 1) /\ queue'[i - 1] = queue[i]
    OBVIOUS
  <2>1. i - 1 \in 1..(n - 1) /\ (i - 1) + 1 = i
    BY <1>1
  <2> QED
    BY <1>5, <2>1
<1> HIDE DEF n
<1>14. QueueIsAwaited'
  <2>1. ASSUME NEW i \in 1..(n - 1), NEW c \in queue'[i].waiters
        PROVE  calls'[c] = IF queue'[i].what = "sync" THEN "queued" ELSE "releasing"
    <3>1. i + 1 \in 1..n /\ queue'[i] = queue[i + 1] /\ c \in queue[i + 1].waiters
        /\ c \notin e.waiters
      BY <1>5, <1>11, <1>12
    <3>2. c \in Calls
      BY <1>1, <3>1
    <3>3. calls'[c] = calls[c]
      BY <1>6, <3>1, <3>2
    <3> QED
      BY <1>1, <3>1, <3>3 DEF QueueIsAwaited
  <2>2. ASSUME NEW i \in 1..(n - 1), NEW j \in 1..(n - 1),
      queue'[i].waiters \cap queue'[j].waiters # {}
        PROVE  i = j
    <3>1. i + 1 \in 1..n /\ j + 1 \in 1..n /\ queue'[i] = queue[i + 1] /\ queue'[j] = queue[j + 1]
      BY <1>5, <1>11
    <3>2. i + 1 = j + 1
      BY <1>1, <2>2, <3>1 DEF QueueIsAwaited
    <3> QED
      BY <1>1, <3>2
  <2>3. ASSUME NEW i \in 1..(n - 1), queue'[i].what = "release"
        PROVE  queue'[i].waiters # {}
    BY <1>1, <1>5, <1>11, <2>3 DEF QueueIsAwaited
  <2>4. /\ \A i \in 1..(n - 1) : \A c \in queue'[i].waiters :
             calls'[c] = IF queue'[i].what = "sync" THEN "queued" ELSE "releasing"
        /\ \A i, j \in 1..(n - 1) : queue'[i].waiters \cap queue'[j].waiters # {} => i = j
        /\ \A i \in 1..(n - 1) : queue'[i].what = "release" => queue'[i].waiters # {}
    BY <2>1, <2>2, <2>3
  <2> QED
    BY <1>5, <2>4 DEF QueueIsAwaited
<1> QED
  BY <1>1, <1>4, <1>5, <1>8, <1>9, <1>10, <1>13, <1>14 DEF e

EnvTypes == [{"installed", "builtin"} -> {Catalogue!None, "partial", "ready", "stale"}]

\* A call takes a step that no other part of the state follows.
LEMMA CallMoves ==
  ASSUME Catalogue!TypeOK, CatalogueInv, NEW c \in Calls,
         NEW to \in CallStates \ (Waits \cup Leaving),
         calls[c] \notin Waits \cup Leaving, calls' = [calls EXCEPT ![c] = to],
         UNCHANGED <<checkout, catalogueCatalogue, uninstalling, queue, change, synced, host,
                     leaving, active,
                     users, served, restarts>>,
         locked' \in BOOLEAN, env' \in EnvTypes, OneBuilds', FilesStay'
  PROVE  Catalogue!TypeOK' /\ CatalogueInv'
<1>1. calls' \in [Calls -> CallStates]
  BY CatalogueTypeIs
<1>2. Catalogue!TypeOK'
  BY <1>1 DEF Catalogue!TypeOK, EnvTypes, CallStates, Catalogue!Kinds
<1>3. \A d \in Calls : calls[d] \in Waits \cup Leaving \/ calls'[d] \in Waits \cup Leaving
    => calls'[d] = calls[d]
  BY CatalogueTypeIs
<1>4. QueueIsAwaited'
  BY <1>3, QueueStays DEF CatalogueInv
<1>5. ListedIsOnDisk' /\ ChangeIsFirst' /\ HostIsSynced'
  BY DEF CatalogueInv, ListedIsOnDisk, Catalogue!Discovered, ChangeIsFirst, HostIsSynced
<1>6. Catalogue!Removing' => Catalogue!Removing
  BY <1>3 DEF Catalogue!Removing, Leaving
<1>7. NothingRunsWhenRemoved'
  BY <1>6 DEF CatalogueInv, NothingRunsWhenRemoved
<1>8. (\E d \in Calls : calls[d] \in Leaving) => \E d \in Calls : calls'[d] \in Leaving
  BY <1>3
<1>9. UninstallIsUnderWay'
  BY <1>8 DEF CatalogueInv, UninstallIsUnderWay
<1>10. WillFollow'
  BY <1>8 DEF CatalogueInv, WillFollow, Target, SyncWaits, Catalogue!AppDriverSource
<1> QED
  BY <1>2, <1>4, <1>5, <1>7, <1>9, <1>10 DEF CatalogueInv

\* While a name is locked, no bridge of the installed app is there.
LEMMA LockedIsFree ==
  ASSUME Catalogue!TypeOK, CatalogueInv, checkout # "valid", NEW e \in EnvTypes,
         e["builtin"] = env["builtin"],
         UNCHANGED <<host, leaving>>, checkout' = checkout, env' = e
  PROVE  FilesStay'
<1>1. \A h \in {host, leaving} \ {Catalogue!NoHost} : h \in Catalogue!Host
    /\ h.kind \in {"installed", "builtin"}
  BY CatalogueTypeIs DEF Catalogue!Host, Catalogue!Kinds
<1> QED
  BY <1>1 DEF CatalogueInv, FilesStay

LEMMA CatalogueInstallSteps ==
  ASSUME Catalogue!TypeOK, CatalogueInv, NEW c \in Calls,
         \/ Catalogue!Install(c) \/ Catalogue!Cloned(c) \/ Catalogue!CloneFails(c)
            \/ Catalogue!Built(c) \/ Catalogue!BuildFails(c) \/ Catalogue!Uninstall(c)
  PROVE  Catalogue!TypeOK' /\ CatalogueInv'
<1>0. OneBuilds /\ FilesStay /\ env \in EnvTypes /\ locked \in BOOLEAN
    /\ calls \in [Calls -> CallStates]
  BY CatalogueTypeIs DEF CatalogueInv, EnvTypes
<1>1. ASSUME NEW from \in CallStates, NEW to \in CallStates, Catalogue!Moves(c, from, to)
      PROVE  /\ calls[c] = from /\ calls' = [calls EXCEPT ![c] = to]
             /\ calls'[c] = to /\ \A d \in Calls \ {c} : calls'[d] = calls[d]
  BY <1>0, <1>1 DEF Catalogue!Moves
<1>2. CASE Catalogue!Install(c) \/ Catalogue!CloneFails(c) \/ Catalogue!Uninstall(c)
  <2>1. PICK from, to \in {"idle", "cloning", "stopping"} : Catalogue!Moves(c, from, to)
    BY <1>2 DEF Catalogue!Install, Catalogue!CloneFails, Catalogue!Uninstall
  <2>2. UNCHANGED <<checkout, catalogueCatalogue, uninstalling, queue, change, synced, host,
                    leaving, active,
                    users, served, restarts, locked, env>>
    BY <1>2 DEF Catalogue!Install, Catalogue!CloneFails, Catalogue!Uninstall, Catalogue!disk,
         Catalogue!hosts, Catalogue!experiences
  <2>3. from \in CallStates \ (Waits \cup Leaving) /\ to \in CallStates \ (Waits \cup Leaving)
    BY DEF CallStates, Waits, Leaving
  <2>4. OneBuilds'
    BY <1>0, <1>1, <2>1, <2>2, <2>3 DEF OneBuilds, Building
  <2>5. FilesStay'
    BY <1>0, <2>2 DEF FilesStay
  <2> QED
    BY <1>0, <1>1, <2>1, <2>2, <2>3, <2>4, <2>5, CallMoves
<1>3. CASE Catalogue!Cloned(c)
  <2>1. Catalogue!Moves(c, "cloning", "building") /\ ~locked /\ checkout = Catalogue!None
      /\ locked' = TRUE
    BY <1>3 DEF Catalogue!Cloned
  <2>2. UNCHANGED <<checkout, catalogueCatalogue, uninstalling, queue, change, synced, host,
                    leaving, active,
                    users, served, restarts, env>>
    BY <1>3 DEF Catalogue!Cloned, Catalogue!disk, Catalogue!hosts, Catalogue!experiences
  <2>3. /\ "cloning" \in CallStates \ (Waits \cup Leaving)
           /\ "building" \in CallStates \ (Waits \cup Leaving)
    BY DEF CallStates, Waits, Leaving
  <2>4. OneBuilds'
    BY <1>0, <1>1, <2>1, <2>2, <2>3 DEF OneBuilds, Building
  <2>5. FilesStay'
    BY <1>0, <2>2 DEF FilesStay
  <2> QED
    BY <1>0, <1>1, <2>1, <2>2, <2>3, <2>4, <2>5, CallMoves
<1>4. CASE Catalogue!Built(c) \/ Catalogue!BuildFails(c)
  <2>1. PICK from \in {"building", "environment"}, to \in {"environment", "idle"} : 
          /\ Catalogue!Moves(c, from, to)
          /\ (locked' = locked /\ to = "environment") \/ (locked' = FALSE /\ to = "idle")
          /\ env' = env \/ \E x \in {Catalogue!None,
                                     "partial"} : env' = [env EXCEPT !["installed"] = x]
    <3>1. CASE Catalogue!Built(c)
      <4>1. Catalogue!Moves(c, "building", "environment") /\ locked' = locked
          /\ env' = [env EXCEPT !["installed"] = "partial"]
        BY <3>1 DEF Catalogue!Built
      <4> QED
        BY <4>1
    <3>2. CASE Catalogue!BuildFails(c)
      <4>1. locked' = FALSE
        BY <3>2 DEF Catalogue!BuildFails
      <4>2. \/ Catalogue!Moves(c, "building", "idle") /\ env' = env
            \/ Catalogue!Moves(c, "environment", "idle")
               /\ env' = [env EXCEPT !["installed"] = Catalogue!None]
        BY <3>2 DEF Catalogue!BuildFails
      <4> QED
        BY <4>1, <4>2
    <3> QED
      BY <1>4, <3>1, <3>2
  <2>2. UNCHANGED <<checkout, catalogueCatalogue, uninstalling, queue, change, synced, host,
                    leaving, active,
                    users, served, restarts>>
    BY <1>4 DEF Catalogue!Built, Catalogue!BuildFails, Catalogue!hosts, Catalogue!experiences
  <2>3. from \in CallStates \ (Waits \cup Leaving) /\ to \in CallStates \ (Waits \cup Leaving)
    BY DEF CallStates, Waits, Leaving
  <2>4. OneBuilds'
    BY <1>0, <1>1, <2>1, <2>2, <2>3 DEF OneBuilds, Building
  <2>5. checkout # "valid"
    BY <1>0, <1>1, <2>1, <2>3 DEF OneBuilds, Building, Catalogue!None
  <2>6. env' \in EnvTypes /\ env'["builtin"] = env["builtin"]
    BY <1>0, <2>1 DEF EnvTypes
  <2>7. FilesStay'
    BY <2>2, <2>5, <2>6, LockedIsFree
  <2> QED
    BY <1>0, <1>1, <2>1, <2>2, <2>3, <2>4, <2>6, <2>7, CallMoves
<1> QED
  BY <1>2, <1>3, <1>4

UserStates == {"idle", "starting", "waiting", "lost", "running"}

LEMMA SyncAsked ==
  ASSUME Catalogue!TypeOK, CatalogueInv, Catalogue!QueueSync({}),
         UNCHANGED <<checkout, env, catalogueCatalogue, uninstalling, locked, calls, change,
                     synced, host,
                     leaving, active, restarts>>,
         users' \in [Users -> UserStates], served' \subseteq Users
  PROVE  Catalogue!TypeOK' /\ CatalogueInv'
<1>1. Catalogue!TypeOK /\ QueueIsAwaited /\ ChangeIsFirst /\ change' = change
  BY DEF CatalogueInv
<1>2. \A c \in Calls : calls[c] \in Waits => calls'[c] = calls[c]
  OBVIOUS
<1>3. /\ queue' \in Seq(Catalogue!Entry) /\ queue' # <<>> /\ QueueIsAwaited' /\ SyncWaits'
      /\ queue # <<>> => queue'[1].what = queue[1].what
  BY <1>1, <1>2, SyncIsQueued, {} \in SUBSET Calls
<1>4. Catalogue!TypeOK'
  BY <1>3 DEF Catalogue!TypeOK, UserStates
<1>5. OneBuilds' /\ ListedIsOnDisk' /\ HostIsSynced' /\ FilesStay' /\ NothingRunsWhenRemoved'
    /\ UninstallIsUnderWay'
  BY DEF CatalogueInv, OneBuilds, ListedIsOnDisk, Catalogue!Discovered, HostIsSynced,
       FilesStay, NothingRunsWhenRemoved, Catalogue!Removing, UninstallIsUnderWay
<1>6. ChangeIsFirst'
  BY <1>1, <1>3 DEF ChangeIsFirst
<1> QED
  BY <1>3, <1>4, <1>5, <1>6 DEF CatalogueInv, WillFollow

\* The bridge, or the one that leaves, takes a step.
LEMMA HostMoves ==
  ASSUME Catalogue!TypeOK, CatalogueInv,
         UNCHANGED <<checkout, catalogueCatalogue, uninstalling, locked, calls, queue, change,
                     synced, restarts>>,
         host' \in Catalogue!Host \union {Catalogue!NoHost},
             leaving' \in Catalogue!Host \union {Catalogue!NoHost},
         host' = Catalogue!NoHost <=> host = Catalogue!NoHost, host # Catalogue!NoHost
             => host'.kind = host.kind,
         leaving = Catalogue!NoHost => leaving' = Catalogue!NoHost,
         active' \in BOOLEAN, env' \in EnvTypes, users' \in [Users -> UserStates],
             served' \subseteq Users,
         FilesStay'
  PROVE  Catalogue!TypeOK' /\ CatalogueInv'
<1>1. Catalogue!TypeOK'
  BY DEF Catalogue!TypeOK, UserStates, EnvTypes, Catalogue!Kinds
<1>2. OneBuilds' /\ ListedIsOnDisk' /\ ChangeIsFirst' /\ UninstallIsUnderWay' /\ WillFollow'
  BY DEF CatalogueInv, OneBuilds, ListedIsOnDisk, Catalogue!Discovered, ChangeIsFirst,
       UninstallIsUnderWay, WillFollow, Target, Catalogue!AppDriverSource, SyncWaits
<1>3. QueueIsAwaited'
  BY QueueStays DEF CatalogueInv
<1>4. HostIsSynced'
  BY DEF CatalogueInv, HostIsSynced
<1>5. NothingRunsWhenRemoved'
  BY DEF CatalogueInv, NothingRunsWhenRemoved, Catalogue!Removing
<1> QED
  BY <1>1, <1>2, <1>3, <1>4, <1>5 DEF CatalogueInv

Phases == {"unlaunched", "preparing", "building", "failed", "up", "ended"}

LEMMA HostIs ==
  ASSUME NEW h \in Catalogue!Host
  PROVE  /\ h.kind \in {"installed", "builtin"} /\ h.dropped \in BOOLEAN /\ h.phase \in Phases
         /\ h # Catalogue!NoHost /\ h.phase # Catalogue!None
<1>1. h.phase \in Phases /\ h.kind \in {"installed", "builtin"} /\ h.dropped \in BOOLEAN
  BY DEF Catalogue!Host, Catalogue!Kinds, Phases
<1>2. h # Catalogue!NoHost
  BY <1>1 DEF Catalogue!NoHost, Catalogue!None, Phases
<1> QED
  BY <1>1, <1>2 DEF Catalogue!None, Phases

LEMMA PhaseGoes ==
  ASSUME NEW h \in Catalogue!Host, NEW p \in Phases, NEW g, g = [h EXCEPT !.phase = p]
  PROVE  g \in Catalogue!Host /\ g.phase = p /\ g.kind = h.kind
BY DEF Catalogue!Host, Phases

LEMMA Drops ==
  ASSUME NEW h \in Catalogue!Host, NEW g, g = [h EXCEPT !.dropped = TRUE]
  PROVE  g \in Catalogue!Host /\ g.phase = h.phase /\ g.kind = h.kind
BY DEF Catalogue!Host

LEMMA NoHostEnds ==
  Catalogue!NoHost.phase = Catalogue!None /\ Catalogue!NoHost \notin Catalogue!Host
      /\ Catalogue!Outcomes(Catalogue!NoHost) = {}
<1>1. Catalogue!NoHost.phase = "none"
  BY DEF Catalogue!NoHost, Catalogue!None
<1>2. Catalogue!Outcomes(Catalogue!NoHost) = {}
  BY <1>1 DEF Catalogue!Outcomes
<1> QED
  BY <1>1, <1>2, HostIs DEF Catalogue!None

\* Whatever comes of a bridge, it is up only on an environment that is ready.
LEMMA OutcomesAre ==
  ASSUME env \in EnvTypes, NEW h \in Catalogue!Host, NEW o \in Catalogue!Outcomes(h)
  PROVE  /\ o[1] \in {"building", "failed", "up", "ended"}
            /\ o[2] \in {Catalogue!None, "partial", "ready", "stale"}
         /\ o[1] = "up" => o[2] = "ready"
<1>1. h.kind \in {"installed", "builtin"}
    /\ env[h.kind] \in {Catalogue!None, "partial", "ready", "stale"}
  <2>1. h.kind \in {"installed", "builtin"}
    BY HostIs
  <2> QED
    BY <2>1 DEF EnvTypes
<1>2. CASE h.phase = "preparing"
  BY <1>1, <1>2 DEF Catalogue!Outcomes, Catalogue!Prepared, Catalogue!None
<1>3. CASE h.phase = "building"
  BY <1>1, <1>3 DEF Catalogue!Outcomes, Catalogue!BuildEnds, Catalogue!None
<1>4. CASE h.phase \in {"up", "failed", "unlaunched"}
  <2>1. o = <<"ended", env[h.kind]>>
    BY <1>4 DEF Catalogue!Outcomes
  <2> QED
    BY <1>1, <2>1
<1>5. CASE h.phase = "ended"
  BY <1>5 DEF Catalogue!Outcomes
<1> QED
  BY <1>2, <1>3, <1>4, <1>5, HostIs DEF Phases

LEMMA HostStepSteps ==
  ASSUME Catalogue!TypeOK, CatalogueInv, Catalogue!HostStep \/ Catalogue!StopHub
  PROVE  Catalogue!TypeOK' /\ CatalogueInv'
<1>0. /\ FilesStay /\ HostIsSynced /\ env \in EnvTypes /\ users \in [Users -> UserStates]
         /\ served \subseteq Users
      /\ active \in BOOLEAN /\ host \in Catalogue!Host \union {Catalogue!NoHost}
         /\ leaving \in Catalogue!Host \union {Catalogue!NoHost}
  BY CatalogueTypeIs DEF CatalogueInv, EnvTypes, Catalogue!TypeOK, UserStates
<1>1. ~(host # Catalogue!NoHost /\ leaving # Catalogue!NoHost)
  BY <1>0 DEF HostIsSynced
<1>2. CASE Catalogue!HostStep
  <2>1. UNCHANGED <<checkout, catalogueCatalogue, uninstalling, locked, calls, queue, change,
                    synced, active,
                    users, served, restarts>>
    BY <1>2 DEF Catalogue!HostStep, Catalogue!experiences
  <2>2. \/ \E o \in Catalogue!Outcomes(host) : /\ host' = [host EXCEPT !.phase = o[1]]
                                                  /\ leaving' = leaving
                                               /\ env' = [env EXCEPT ![host.kind] = o[2]]
        \/ \E o \in Catalogue!Outcomes(leaving) : /\ leaving' = [leaving EXCEPT !.phase = o[1]]
                                                     /\ host' = host
                                                  /\ env' = [env EXCEPT ![leaving.kind] = o[2]]
    BY <1>2 DEF Catalogue!HostStep
  <2>3. ASSUME NEW h \in Catalogue!Host, NEW o \in Catalogue!Outcomes(h),
      env' = [env EXCEPT ![h.kind] = o[2]]
        PROVE  /\ [h EXCEPT !.phase = o[1]] \in Catalogue!Host
                  /\ [h EXCEPT !.phase = o[1]].kind = h.kind
               /\ [h EXCEPT !.phase = o[1]].phase = "up" => env'[h.kind] = "ready"
               /\ env' \in EnvTypes
    <3>1. /\ o[1] \in {"building", "failed", "up", "ended"}
             /\ o[2] \in {Catalogue!None, "partial", "ready", "stale"}
          /\ o[1] = "up" => o[2] = "ready"
      BY <1>0, OutcomesAre
    <3>2. h.kind \in {"installed", "builtin"}
      BY HostIs
    <3>3. env' \in EnvTypes /\ env'[h.kind] = o[2]
      BY <1>0, <2>3, <3>1, <3>2 DEF EnvTypes
    <3>4. /\ [h EXCEPT !.phase = o[1]] \in Catalogue!Host /\ [h EXCEPT !.phase = o[1]].kind = h.kind
          /\ [h EXCEPT !.phase = o[1]].phase = o[1]
      <4>1. o[1] \in Phases
        BY <3>1 DEF Phases
      <4> QED
        BY <4>1, PhaseGoes
    <3> QED
      BY <3>1, <3>3, <3>4
  <2>4. CASE \E o \in Catalogue!Outcomes(host) : /\ host' = [host EXCEPT !.phase = o[1]]
                                                    /\ leaving' = leaving
                                                 /\ env' = [env EXCEPT ![host.kind] = o[2]]
    <3>1. host \in Catalogue!Host /\ leaving = Catalogue!NoHost /\ leaving' = Catalogue!NoHost
      BY <1>0, <1>1, <2>4, NoHostEnds
    <3>2. /\ host' \in Catalogue!Host /\ host'.kind = host.kind /\ env' \in EnvTypes
          /\ host'.phase = "up" => env'[host.kind] = "ready"
      BY <2>3, <2>4, <3>1
    <3>3. host' # Catalogue!NoHost /\ host # Catalogue!NoHost
      BY <3>1, <3>2, NoHostEnds
    <3>4. FilesStay'
      BY <1>0, <2>1, <3>1, <3>2, <3>3 DEF FilesStay
    <3> QED
      BY <1>0, <2>1, <3>1, <3>2, <3>3, <3>4, HostMoves
  <2>5. CASE \E o \in Catalogue!Outcomes(leaving) : /\ leaving' = [leaving EXCEPT !.phase = o[1]]
                                                       /\ host' = host
                                                    /\ env' = [env EXCEPT ![leaving.kind] = o[2]]
    <3>1. leaving \in Catalogue!Host /\ host = Catalogue!NoHost /\ host' = Catalogue!NoHost
      BY <1>0, <1>1, <2>5, NoHostEnds
    <3>2. /\ leaving' \in Catalogue!Host /\ leaving'.kind = leaving.kind /\ env' \in EnvTypes
          /\ leaving'.phase = "up" => env'[leaving.kind] = "ready"
      BY <2>3, <2>5, <3>1
    <3>3. leaving' # Catalogue!NoHost /\ leaving # Catalogue!NoHost
      BY <3>1, <3>2, NoHostEnds
    <3>4. FilesStay'
      BY <1>0, <2>1, <3>1, <3>2, <3>3 DEF FilesStay
    <3> QED
      BY <1>0, <2>1, <3>1, <3>2, <3>3, <3>4, HostMoves
  <2> QED
    BY <2>2, <2>4, <2>5
<1>3. CASE Catalogue!StopHub
  <2>1. UNCHANGED <<checkout, env, catalogueCatalogue, uninstalling, locked, calls, queue, change,
                    synced, leaving,
                    users, served, restarts>> /\ active' = FALSE
    BY <1>3 DEF Catalogue!StopHub, Catalogue!disk, Catalogue!experiences
  <2>2. host' = IF host = Catalogue!NoHost THEN host ELSE [host EXCEPT !.dropped = TRUE]
    BY <1>3 DEF Catalogue!StopHub
  <2>3. /\ host' \in Catalogue!Host \union {Catalogue!NoHost}
           /\ (host' = Catalogue!NoHost <=> host = Catalogue!NoHost)
        /\ host # Catalogue!NoHost => host'.kind = host.kind /\ host'.phase = host.phase
    <3>1. CASE host = Catalogue!NoHost
      BY <2>2, <3>1
    <3>2. CASE host # Catalogue!NoHost
      <4>1. host \in Catalogue!Host /\ host' = [host EXCEPT !.dropped = TRUE]
        BY <1>0, <2>2, <3>2
      <4> QED
        BY <3>2, <4>1, Drops, NoHostEnds
    <3> QED
      BY <3>1, <3>2
  <2>4. FilesStay'
    BY <1>0, <2>1, <2>3 DEF FilesStay
  <2> QED
    BY <1>0, <2>1, <2>3, <2>4, HostMoves
<1> QED
  BY <1>2, <1>3

LEMMA UserSteps ==
  ASSUME Catalogue!TypeOK, CatalogueInv, NEW u \in Users,
         Catalogue!StartUser(u) \/ Catalogue!Subscribe(u) \/ Catalogue!Subscribed(u)
             \/ Catalogue!SubscribeFails(u) \/ Catalogue!StopExperience(u)
  PROVE  Catalogue!TypeOK' /\ CatalogueInv'
<1>0. /\ FilesStay /\ env \in EnvTypes /\ users \in [Users -> UserStates] /\ served \subseteq Users
      /\ active \in BOOLEAN /\ host \in Catalogue!Host \union {Catalogue!NoHost}
         /\ leaving \in Catalogue!Host \union {Catalogue!NoHost}
  BY CatalogueTypeIs DEF CatalogueInv, EnvTypes, Catalogue!TypeOK, UserStates
<1>1. \A s \in UserStates : [users EXCEPT ![u] = s] \in [Users -> UserStates]
  BY <1>0
<1>2. CASE Catalogue!Subscribed(u) \/ Catalogue!SubscribeFails(u) \/ Catalogue!StopExperience(u)
  <2>1. /\ Catalogue!QueueSync({}) /\ served' \subseteq Users
        /\ \E s \in {"idle", "running"} : users' = [users EXCEPT ![u] = s]
    BY <1>0, <1>2 DEF Catalogue!Subscribed, Catalogue!SubscribeFails, Catalogue!StopExperience
  <2>2. users' \in [Users -> UserStates]
    BY <1>1, <2>1 DEF UserStates
  <2>3. UNCHANGED <<checkout, env, catalogueCatalogue, uninstalling, locked, calls, change, synced,
                    host,
                    leaving, active, restarts>>
    BY <1>2 DEF Catalogue!Subscribed, Catalogue!SubscribeFails, Catalogue!StopExperience,
         Catalogue!disk, Catalogue!hosts
  <2> QED
    BY <2>1, <2>2, <2>3, SyncAsked
<1>3. CASE Catalogue!StartUser(u)
  <2>1. users' = [users EXCEPT ![u] = "starting"]
    BY <1>3 DEF Catalogue!StartUser
  <2>2. users' \in [Users -> UserStates]
    BY <1>1, <2>1 DEF UserStates
  <2>3. UNCHANGED <<checkout, env, catalogueCatalogue, uninstalling, locked, calls, queue, change,
                    synced, host,
                    leaving, active, served, restarts>>
    BY <1>3 DEF Catalogue!StartUser, Catalogue!disk, Catalogue!hosts
  <2>4. FilesStay'
    BY <1>0, <2>3 DEF FilesStay
  <2> QED
    BY <1>0, <2>2, <2>3, <2>4, HostMoves
<1>4. CASE Catalogue!Subscribe(u)
  <2>1. \E s \in {"idle", "waiting"} : users' = [users EXCEPT ![u] = s]
    BY <1>4 DEF Catalogue!Subscribe
  <2>2. users' \in [Users -> UserStates]
    BY <1>1, <2>1 DEF UserStates
  <2>3. UNCHANGED <<checkout, env, catalogueCatalogue, uninstalling, locked, calls, queue, change,
                    synced,
                    leaving, active, served, restarts>>
    BY <1>4 DEF Catalogue!Subscribe, Catalogue!disk
  <2>4. host' = host \/ (host # Catalogue!NoHost /\ host' = [host EXCEPT !.phase = "preparing"])
    BY <1>4 DEF Catalogue!Subscribe
  <2>5. /\ host' \in Catalogue!Host \union {Catalogue!NoHost}
           /\ (host' = Catalogue!NoHost <=> host = Catalogue!NoHost)
        /\ host # Catalogue!NoHost => host'.kind = host.kind
           /\ host'.phase \in {host.phase, "preparing"}
    <3>1. CASE host' = host
      BY <1>0, <3>1
    <3>2. CASE host # Catalogue!NoHost /\ host' = [host EXCEPT !.phase = "preparing"]
      <4>1. host \in Catalogue!Host /\ "preparing" \in Phases
        BY <1>0, <3>2 DEF Phases
      <4> QED
        BY <3>2, <4>1, PhaseGoes, NoHostEnds
    <3> QED
      BY <2>4, <3>1, <3>2
  <2>6. FilesStay'
    BY <1>0, <2>3, <2>5 DEF FilesStay
  <2> QED
    BY <1>0, <2>2, <2>3, <2>5, <2>6, HostMoves
<1> QED
  BY <1>2, <1>3, <1>4

LEMMA InstalledSteps ==
  ASSUME Catalogue!TypeOK, CatalogueInv, NEW c \in Calls, Catalogue!Installed(c)
  PROVE  Catalogue!TypeOK' /\ CatalogueInv'
<1>0. /\ Catalogue!TypeOK /\ OneBuilds /\ FilesStay /\ QueueIsAwaited /\ ChangeIsFirst
         /\ env \in EnvTypes
      /\ calls \in [Calls -> CallStates]
  BY CatalogueTypeIs DEF CatalogueInv, EnvTypes
<1>1. /\ calls[c] = "environment" /\ calls' = [calls EXCEPT ![c] = "queued"]
      /\ checkout = Catalogue!None /\ env' = [env EXCEPT !["installed"] = "ready"]
      /\ checkout' = "valid" /\ locked' = FALSE /\ catalogueCatalogue' = "installed"
         /\ Catalogue!QueueSync({c})
      /\ UNCHANGED <<uninstalling, change, synced, host, leaving, active, users, served, restarts>>
  BY DEF Catalogue!Installed, Catalogue!Moves, Catalogue!hosts, Catalogue!experiences
<1>2. /\ calls' \in [Calls -> CallStates] /\ calls'[c] = "queued"
      /\ \A d \in Calls \ {c} : calls'[d] = calls[d]
  BY <1>0, <1>1 DEF CallStates
<1>3. /\ queue' \in Seq(Catalogue!Entry) /\ queue' # <<>> /\ QueueIsAwaited' /\ SyncWaits'
      /\ queue # <<>> => queue'[1].what = queue[1].what
  <2>1. \A d \in Calls : calls[d] \in Waits => calls'[d] = calls[d]
    BY <1>1, <1>2 DEF Waits
  <2>2. \A d \in {c} : calls[d] \notin Waits /\ calls'[d] = "queued"
    BY <1>1, <1>2 DEF Waits
  <2>3. {c} \in SUBSET Calls /\ change' = change
    BY <1>1
  <2> QED
    BY <1>0, <1>1, <2>1, <2>2, <2>3, SyncIsQueued
<1>4. env' \in EnvTypes /\ env'["builtin"] = env["builtin"]
  BY <1>0, <1>1 DEF EnvTypes
<1>5. Catalogue!TypeOK'
  BY <1>1, <1>2, <1>3, <1>4 DEF Catalogue!TypeOK, EnvTypes, CallStates, Catalogue!Kinds
<1>6. OneBuilds'
  BY <1>0, <1>1, <1>2 DEF OneBuilds, Building
<1>7. ListedIsOnDisk'
  BY <1>1 DEF ListedIsOnDisk, Catalogue!Discovered
<1>8. ChangeIsFirst'
  BY <1>0, <1>1, <1>3 DEF ChangeIsFirst
<1>9. HostIsSynced'
  BY <1>1 DEF CatalogueInv, HostIsSynced
<1>10. FilesStay'
  <2>1. \A h \in {host, leaving} \ {Catalogue!NoHost} : h.kind \in {"installed", "builtin"}
    BY CatalogueTypeIs, HostIs
  <2> QED
    BY <1>0, <1>1, <1>4, <2>1 DEF FilesStay, Catalogue!None
<1>11. NothingRunsWhenRemoved'
  BY <1>1, <1>2 DEF CatalogueInv, NothingRunsWhenRemoved, Catalogue!Removing
<1>12. UninstallIsUnderWay'
  <2>1. \A d \in Calls : calls[d] \in Leaving => calls'[d] \in Leaving
    BY <1>1, <1>2 DEF Leaving
  <2> QED
    BY <1>1, <2>1 DEF CatalogueInv, UninstallIsUnderWay
<1> QED
  BY <1>3, <1>5, <1>6, <1>7, <1>8, <1>9, <1>10, <1>11, <1>12 DEF CatalogueInv, WillFollow

LEMMA StopAllSteps ==
  ASSUME Catalogue!TypeOK, CatalogueInv, NEW c \in Calls, Catalogue!StopAll(c)
  PROVE  Catalogue!TypeOK' /\ CatalogueInv'
<1>0. /\ OneBuilds /\ FilesStay /\ QueueIsAwaited /\ ChangeIsFirst
         /\ calls \in [Calls -> CallStates]
      /\ users \in [Users -> UserStates] /\ served \subseteq Users
  BY CatalogueTypeIs DEF CatalogueInv, Catalogue!TypeOK, UserStates
<1>1. /\ calls[c] = "stopping" /\ calls' = [calls EXCEPT ![c] = "releasing"]
      /\ uninstalling' = TRUE /\ queue' = Append(queue, [what |-> "release", waiters |-> {c}])
      /\ served' = served \ OwnUsers
      /\ UNCHANGED <<checkout, env, catalogueCatalogue, locked, change, synced, host, leaving,
                     active, restarts>>
  BY DEF Catalogue!StopAll, Catalogue!Moves, Catalogue!disk, Catalogue!hosts
<1>2. /\ calls' \in [Calls -> CallStates] /\ calls'[c] = "releasing"
      /\ \A d \in Calls \ {c} : calls'[d] = calls[d]
  BY <1>0, <1>1 DEF CallStates
<1>3. /\ queue' \in Seq(Catalogue!Entry) /\ queue' # <<>> /\ QueueIsAwaited'
      /\ queue # <<>> => queue'[1].what = queue[1].what
  <2>1. calls[c] \notin Waits
    BY <1>1 DEF Waits
  <2> QED
    BY <1>0, <1>1, <1>2, <2>1, ReleaseIsQueued
<1>4. users' \in [Users -> UserStates]
  BY <1>0 DEF Catalogue!StopAll, UserStates
<1>5. Catalogue!TypeOK'
  BY <1>0, <1>1, <1>2, <1>3, <1>4 DEF Catalogue!TypeOK, CallStates, UserStates
<1>6. OneBuilds'
  BY <1>0, <1>1, <1>2 DEF OneBuilds, Building
<1>7. ListedIsOnDisk' /\ HostIsSynced' /\ FilesStay'
  BY <1>1 DEF CatalogueInv, ListedIsOnDisk, Catalogue!Discovered, HostIsSynced, FilesStay
<1>8. ChangeIsFirst'
  BY <1>0, <1>1, <1>3 DEF ChangeIsFirst
<1>9. NothingRunsWhenRemoved'
  BY <1>1, <1>2 DEF CatalogueInv, NothingRunsWhenRemoved, Catalogue!Removing
<1>10. UninstallIsUnderWay' /\ WillFollow'
  BY <1>2 DEF UninstallIsUnderWay, WillFollow, Leaving
<1> QED
  BY <1>3, <1>5, <1>6, <1>7, <1>8, <1>9, <1>10 DEF CatalogueInv

LEMMA RemoveSteps ==
  ASSUME Catalogue!TypeOK, CatalogueInv, NEW c \in Calls, Catalogue!RemoveApp(c)
         \/ Catalogue!RemoveFails(c)
  PROVE  Catalogue!TypeOK' /\ CatalogueInv'
<1>0. /\ Catalogue!TypeOK /\ OneBuilds /\ FilesStay /\ QueueIsAwaited /\ ChangeIsFirst
         /\ env \in EnvTypes
      /\ calls \in [Calls -> CallStates] /\ NothingRunsWhenRemoved /\ HostIsSynced
  BY CatalogueTypeIs DEF CatalogueInv, EnvTypes
<1>1. /\ calls[c] = "removing" /\ calls' = [calls EXCEPT ![c] = "idle"]
      /\ uninstalling' = FALSE /\ Catalogue!QueueSync({})
      /\ UNCHANGED <<locked, change, synced, host, leaving, active, users, served, restarts>>
  BY DEF Catalogue!RemoveApp, Catalogue!RemoveFails, Catalogue!Moves, Catalogue!hosts,
       Catalogue!experiences
<1>2. \/ checkout' = checkout /\ env' = env /\ catalogueCatalogue' = catalogueCatalogue
      \/ checkout' = Catalogue!None /\ env' = [env EXCEPT !["installed"] = Catalogue!None]
         /\ catalogueCatalogue' = Catalogue!Bundled
  BY DEF Catalogue!RemoveApp, Catalogue!RemoveFails, Catalogue!disk
<1>3. host = Catalogue!NoHost /\ leaving = Catalogue!NoHost /\ change = Catalogue!Idle
  BY <1>0, <1>1 DEF NothingRunsWhenRemoved, Catalogue!Removing
<1>4. /\ calls' \in [Calls -> CallStates] /\ calls'[c] = "idle"
      /\ \A d \in Calls \ {c} : calls'[d] = calls[d]
  BY <1>0, <1>1 DEF CallStates
<1>5. /\ queue' \in Seq(Catalogue!Entry) /\ queue' # <<>> /\ QueueIsAwaited' /\ SyncWaits'
      /\ queue # <<>> => queue'[1].what = queue[1].what
  <2>1. \A d \in Calls : calls[d] \in Waits => calls'[d] = calls[d]
    BY <1>1, <1>4 DEF Waits
  <2>2. {} \in SUBSET Calls /\ change' = change
    BY <1>1
  <2> QED
    BY <1>0, <1>1, <2>1, <2>2, SyncIsQueued
<1>6. env' \in EnvTypes
  BY <1>0, <1>2 DEF EnvTypes
<1>7. Catalogue!Bundled \in {"builtin", Catalogue!None} /\ Catalogue!Bundled # "installed"
  BY DEF Catalogue!Bundled, Catalogue!None
<1>8. Catalogue!TypeOK'
  BY <1>1, <1>2, <1>4, <1>5, <1>6, <1>7 DEF Catalogue!TypeOK, EnvTypes, CallStates,
       Catalogue!Kinds
<1>9. OneBuilds'
  BY <1>0, <1>1, <1>2, <1>4 DEF OneBuilds, Building
<1>10. ListedIsOnDisk'
  BY <1>2, <1>7 DEF CatalogueInv, ListedIsOnDisk, Catalogue!Discovered, Catalogue!Bundled,
       Catalogue!None
<1>11. ChangeIsFirst' /\ HostIsSynced' /\ FilesStay' /\ NothingRunsWhenRemoved'
    /\ UninstallIsUnderWay'
  BY <1>0, <1>1, <1>3 DEF ChangeIsFirst, HostIsSynced, FilesStay, NothingRunsWhenRemoved,
       UninstallIsUnderWay
<1> QED
  BY <1>5, <1>8, <1>9, <1>10, <1>11 DEF CatalogueInv, WillFollow

LEMMA UninstallInvalidSteps ==
  ASSUME Catalogue!TypeOK, CatalogueInv, NEW c \in Calls, Catalogue!UninstallInvalid(c)
  PROVE  Catalogue!TypeOK' /\ CatalogueInv'
<1>0. /\ Catalogue!TypeOK /\ OneBuilds /\ FilesStay /\ QueueIsAwaited /\ ChangeIsFirst
         /\ env \in EnvTypes
      /\ NothingRunsWhenRemoved /\ HostIsSynced /\ UninstallIsUnderWay
  BY CatalogueTypeIs DEF CatalogueInv, EnvTypes
<1>1. /\ checkout = "invalid" /\ ~locked /\ checkout' = Catalogue!None
         /\ env' = [env EXCEPT !["installed"] = Catalogue!None]
      /\ catalogueCatalogue' = Catalogue!Bundled /\ Catalogue!QueueSync({})
      /\ UNCHANGED <<calls, uninstalling, locked, change, synced, host, leaving, active, users,
                     served, restarts>>
  BY DEF Catalogue!UninstallInvalid, Catalogue!hosts, Catalogue!experiences
<1>2. /\ queue' \in Seq(Catalogue!Entry) /\ queue' # <<>> /\ QueueIsAwaited' /\ SyncWaits'
      /\ queue # <<>> => queue'[1].what = queue[1].what
  <2>1. \A d \in Calls : calls[d] \in Waits => calls'[d] = calls[d]
    BY <1>1
  <2>2. {} \in SUBSET Calls /\ change' = change
    BY <1>1
  <2> QED
    BY <1>0, <1>1, <2>1, <2>2, SyncIsQueued
<1>3. env' \in EnvTypes /\ env'["builtin"] = env["builtin"]
  BY <1>0, <1>1 DEF EnvTypes
<1>4. Catalogue!Bundled \in {"builtin", Catalogue!None} /\ Catalogue!Bundled # "installed"
  BY DEF Catalogue!Bundled, Catalogue!None
<1>5. Catalogue!TypeOK'
  BY <1>1, <1>2, <1>3, <1>4 DEF Catalogue!TypeOK, EnvTypes, Catalogue!Kinds
<1>6. OneBuilds' /\ HostIsSynced' /\ NothingRunsWhenRemoved' /\ UninstallIsUnderWay'
  BY <1>0, <1>1 DEF OneBuilds, HostIsSynced, NothingRunsWhenRemoved, Catalogue!Removing,
       UninstallIsUnderWay
<1>7. ListedIsOnDisk'
  BY <1>1 DEF ListedIsOnDisk, Catalogue!Discovered, Catalogue!Bundled, Catalogue!None
<1>8. ChangeIsFirst'
  BY <1>0, <1>1, <1>2 DEF ChangeIsFirst
<1>9. FilesStay'
  <2>1. \A h \in {host, leaving} \ {Catalogue!NoHost} : h.kind \in {"installed", "builtin"}
    BY CatalogueTypeIs, HostIs
  <2> QED
    BY <1>0, <1>1, <1>3, <2>1 DEF FilesStay
<1> QED
  BY <1>2, <1>5, <1>6, <1>7, <1>8, <1>9 DEF CatalogueInv, WillFollow

LEMMA RestartSteps ==
  ASSUME Catalogue!TypeOK, CatalogueInv, Catalogue!Restart
  PROVE  Catalogue!TypeOK' /\ CatalogueInv'
<1>0. env \in EnvTypes /\ checkout \in {Catalogue!None, "valid", "invalid"}
  BY CatalogueTypeIs DEF EnvTypes
<1>1. /\ restarts < MaxRestarts /\ restarts' = restarts + 1
         /\ catalogueCatalogue' = Catalogue!Discovered'
      /\ uninstalling' = FALSE /\ locked' = FALSE /\ active' = TRUE
         /\ calls' = [c \in Calls |-> "idle"]
      /\ queue' = <<[what |-> "sync", waiters |-> {}]>> /\ change' = Catalogue!Idle
         /\ synced' = Catalogue!None
      /\ host' = Catalogue!NoHost /\ leaving' = Catalogue!NoHost
         /\ users' = [u \in Users |-> "idle"] /\ served' = {}
  BY DEF Catalogue!Restart
<1>2. env' \in EnvTypes /\ checkout' \in {Catalogue!None, "valid", "invalid"}
  <2> PICK updated \in BOOLEAN :
        /\ env' = [k \in Catalogue!Kinds |-> IF updated
                   /\ env[k] = "ready" THEN "stale" ELSE env[k]]
        /\ checkout' \in IF updated /\ checkout # Catalogue!None THEN {"valid",
                                                                       "invalid"} ELSE {checkout}
    BY DEF Catalogue!Restart
  <2>1. env' \in EnvTypes
    BY <1>0 DEF EnvTypes, Catalogue!Kinds
  <2>2. checkout' \in {Catalogue!None, "valid", "invalid"}
    BY <1>0
  <2> QED
    BY <2>1, <2>2
<1>3. catalogueCatalogue' \in {"installed", "builtin", Catalogue!None}
  BY <1>1 DEF Catalogue!Discovered, Catalogue!Bundled
<1>4. restarts' \in 0..MaxRestarts
  <2>1. restarts \in 0..MaxRestarts
    BY DEF Catalogue!TypeOK
  <2> QED
    BY <1>1, <2>1, CatalogueAssumption
<1>5. queue' \in Seq(Catalogue!Entry) /\ DOMAIN queue' = {1} /\ queue'[1].what = "sync"
    /\ queue'[1].waiters = {}
  <2>1. [what |-> "sync", waiters |-> {}] \in Catalogue!Entry
    BY DEF Catalogue!Entry
  <2> QED
    BY <1>1, <2>1
<1>6. Catalogue!TypeOK'
  BY <1>1, <1>2, <1>3, <1>4, <1>5 DEF Catalogue!TypeOK, EnvTypes, Catalogue!Kinds
<1>7. OneBuilds' /\ ListedIsOnDisk' /\ ChangeIsFirst' /\ UninstallIsUnderWay'
  BY <1>1 DEF OneBuilds, Building, ListedIsOnDisk, ChangeIsFirst, UninstallIsUnderWay
<1>8. HostIsSynced' /\ FilesStay' /\ NothingRunsWhenRemoved'
  BY <1>1 DEF HostIsSynced, FilesStay, NothingRunsWhenRemoved, Catalogue!Removing,
       Catalogue!Idle
<1>9. QueueIsAwaited' /\ WillFollow'
  BY <1>1, <1>5 DEF QueueIsAwaited, WillFollow, SyncWaits
<1> QED
  BY <1>6, <1>7, <1>8, <1>9 DEF CatalogueInv

LEMMA CatalogueStarts == Catalogue!Init => Catalogue!TypeOK /\ CatalogueInv
<1> SUFFICES ASSUME Catalogue!Init PROVE Catalogue!TypeOK /\ CatalogueInv
  OBVIOUS
<1>1. /\ restarts = 0 /\ catalogueCatalogue = Catalogue!Discovered /\ checkout = Catalogue!None
         /\ env = [k \in Catalogue!Kinds |-> Catalogue!None]
      /\ uninstalling = FALSE /\ locked = FALSE /\ active = TRUE /\ calls = [c \in Calls |-> "idle"]
      /\ queue = <<[what |-> "sync", waiters |-> {}]>> /\ change = Catalogue!Idle
         /\ synced = Catalogue!None
      /\ host = Catalogue!NoHost /\ leaving = Catalogue!NoHost /\ users = [u \in Users |-> "idle"]
         /\ served = {}
  BY DEF Catalogue!Init
<1>2. catalogueCatalogue \in {"installed", "builtin", Catalogue!None}
  BY <1>1 DEF Catalogue!Discovered, Catalogue!Bundled
<1>5. queue \in Seq(Catalogue!Entry) /\ DOMAIN queue = {1} /\ queue[1].what = "sync"
    /\ queue[1].waiters = {}
  <2>1. [what |-> "sync", waiters |-> {}] \in Catalogue!Entry
    BY DEF Catalogue!Entry
  <2> QED
    BY <1>1, <2>1
<1>6. Catalogue!TypeOK
  <2>1. restarts \in 0..MaxRestarts
    BY <1>1, CatalogueAssumption
  <2>2. /\ env \in [Catalogue!Kinds -> {Catalogue!None, "partial", "ready", "stale"}]
           /\ users \in [Users -> UserStates]
        /\ calls \in [Calls -> CallStates]
    BY <1>1 DEF CallStates, UserStates
  <2> QED
    BY <1>1, <1>2, <1>5, <2>1, <2>2 DEF Catalogue!TypeOK, Catalogue!Kinds, CallStates,
         UserStates
<1>7. OneBuilds /\ ListedIsOnDisk /\ ChangeIsFirst /\ UninstallIsUnderWay
  BY <1>1 DEF OneBuilds, Building, ListedIsOnDisk, ChangeIsFirst, UninstallIsUnderWay
<1>8. HostIsSynced /\ FilesStay /\ NothingRunsWhenRemoved
  BY <1>1 DEF HostIsSynced, FilesStay, NothingRunsWhenRemoved, Catalogue!Removing,
       Catalogue!Idle
<1>9. QueueIsAwaited /\ WillFollow
  BY <1>1, <1>5 DEF QueueIsAwaited, WillFollow, SyncWaits
<1> QED
  BY <1>6, <1>7, <1>8, <1>9 DEF CatalogueInv

\* The hub lets the bridge go.
LEMMA ReleaseDoes ==
  ASSUME Catalogue!TypeOK, CatalogueInv, NEW wanted \in {"installed", "builtin", Catalogue!None},
         NEW us \in [Users -> UserStates], Catalogue!Release(wanted, us)
  PROVE  /\ change' \in Changes /\ change' # Catalogue!Idle /\ change'.at = "release"
            /\ change'.wanted = wanted
         /\ host' = Catalogue!NoHost /\ leaving' \in Catalogue!Host \union {Catalogue!NoHost}
            /\ users' \in [Users -> UserStates] /\ served' = {}
         /\ leaving' # Catalogue!NoHost => host # Catalogue!NoHost /\ leaving'.kind = host.kind
            /\ leaving'.phase = host.phase
<1>1. change' = [at |-> "release", todo |-> {}, wanted |-> wanted]
  BY DEF Catalogue!Release
<1>2. change' \in Changes /\ change'.at = "release" /\ change'.wanted = wanted
    /\ change' # Catalogue!Idle
  BY <1>1 DEF Changes, Catalogue!Kinds, Catalogue!Idle, Catalogue!None
<1>3. users' \in [Users -> UserStates] /\ served' = {} /\ host' = Catalogue!NoHost
  BY DEF Catalogue!Release, UserStates
<1>4. leaving' = IF host = Catalogue!NoHost THEN Catalogue!NoHost ELSE [host EXCEPT !.dropped = TRUE]
  BY DEF Catalogue!Release
<1>5. host \in Catalogue!Host \union {Catalogue!NoHost}
  BY CatalogueTypeIs
<1>6. /\ leaving' \in Catalogue!Host \union {Catalogue!NoHost}
      /\ leaving' # Catalogue!NoHost => host # Catalogue!NoHost /\ leaving'.kind = host.kind
         /\ leaving'.phase = host.phase
  BY <1>4, <1>5, Drops
<1> QED
  BY <1>2, <1>3, <1>6

\* What a change may be when it begins: the drivers go that the first entry of
\* the queue asks for.
LEMMA ReleaseBegins ==
  ASSUME Catalogue!TypeOK, CatalogueInv, change = Catalogue!Idle, queue # <<>>, ~Catalogue!Removing,
         NEW wanted \in {"installed", "builtin", Catalogue!None},
             Catalogue!ReleaseAppDrivers(wanted),
         queue[1].what = "release" => wanted = Catalogue!None,
         wanted = "installed" => checkout = "valid",
         wanted = Catalogue!AppDriverSource \/ queue[1].what = "release",
         UNCHANGED <<checkout, env, catalogueCatalogue, uninstalling, locked, queue, calls, synced,
                     active, restarts>>
  PROVE  Catalogue!TypeOK' /\ CatalogueInv'
<1>0. /\ OneBuilds /\ ListedIsOnDisk /\ FilesStay /\ QueueIsAwaited /\ UninstallIsUnderWay
         /\ HostIsSynced
      /\ WillFollow /\ users \in [Users -> UserStates] /\ served \subseteq Users
  BY DEF CatalogueInv, Catalogue!TypeOK, UserStates
<1>1. /\ change' \in Changes /\ change' # Catalogue!Idle /\ change'.at \in {"stop", "release"}
         /\ change'.wanted = wanted
      /\ users' \in [Users -> UserStates] /\ served' \subseteq Users
      /\ \/ change'.at = "stop" /\ host' = host /\ leaving' = leaving
         \/ /\ change'.at = "release" /\ host' = Catalogue!NoHost
               /\ leaving' \in Catalogue!Host \union {Catalogue!NoHost}
            /\ leaving' # Catalogue!NoHost => host # Catalogue!NoHost /\ leaving'.kind = host.kind
               /\ leaving'.phase = host.phase
  <2>1. CASE Catalogue!UsersListed = {}
    BY <1>0, <2>1, ReleaseDoes DEF Catalogue!ReleaseAppDrivers
  <2>2. CASE Catalogue!UsersListed # {}
    <3>1. /\ change' = [at |-> "stop", todo |-> Catalogue!UsersListed, wanted |-> wanted]
          /\ UNCHANGED <<host, leaving, users, served>>
      BY <2>2 DEF Catalogue!ReleaseAppDrivers, Catalogue!experiences
    <3>2. Catalogue!UsersListed \in SUBSET Users
      BY DEF Catalogue!UsersListed
    <3> HIDE DEF Catalogue!UsersListed
    <3>3. change' \in Changes /\ change'.at = "stop" /\ change'.wanted = wanted
        /\ change' # Catalogue!Idle
      BY <3>1, <3>2 DEF Changes, Catalogue!Kinds, Catalogue!Idle, Catalogue!None
    <3> QED
      BY <1>0, <3>1, <3>3
  <2> QED
    BY <2>1, <2>2
<1>2. host' \in Catalogue!Host \union {Catalogue!NoHost}
    /\ leaving' \in Catalogue!Host \union {Catalogue!NoHost}
  BY <1>1, CatalogueTypeIs
<1>3. Catalogue!TypeOK'
  BY <1>1, <1>2 DEF Catalogue!TypeOK, Changes, UserStates
<1>4. OneBuilds' /\ ListedIsOnDisk' /\ UninstallIsUnderWay'
  BY <1>0 DEF OneBuilds, ListedIsOnDisk, Catalogue!Discovered, UninstallIsUnderWay
<1>5. QueueIsAwaited'
  BY <1>0, QueueStays
<1>6. ChangeIsFirst'
  BY <1>1 DEF ChangeIsFirst
<1>7. change.at = "idle" /\ HostIsSynced'
  <2>1. change.at = "idle"
    BY DEF Catalogue!Idle
  <2> QED
    BY <1>0, <1>1, <2>1 DEF HostIsSynced
<1>8. FilesStay'
  BY <1>0, <1>1 DEF FilesStay
<1>9. NothingRunsWhenRemoved'
  BY DEF NothingRunsWhenRemoved, Catalogue!Removing
<1>10. WillFollow'
  <2>1. CASE wanted = Catalogue!AppDriverSource
    BY <1>1, <2>1 DEF WillFollow, Target, Catalogue!AppDriverSource
  <2>2. CASE queue[1].what = "release"
    <3>1. 1 \in 1..Len(queue)
      BY QueueIs
    <3>2. PICK c \in Calls : c \in queue[1].waiters
      BY <1>0, <2>2, <3>1, QueueIs DEF QueueIsAwaited
    <3>3. calls[c] = "releasing"
      BY <1>0, <2>2, <3>1, <3>2, QueueIs DEF QueueIsAwaited
    <3> QED
      BY <3>3 DEF WillFollow, Leaving
  <2> QED
    BY <2>1, <2>2
<1> QED
  BY <1>3, <1>4, <1>5, <1>6, <1>7, <1>8, <1>9, <1>10 DEF CatalogueInv

\* The first change of the queue is over, and the bridge it asks for is there.
LEMMA FinishSteps ==
  ASSUME Catalogue!TypeOK, CatalogueInv, queue # <<>>, Catalogue!Finish, ~Catalogue!Removing,
         UNCHANGED <<checkout, env, catalogueCatalogue, uninstalling, locked, active, users,
                     served, restarts>>,
         host' \in Catalogue!Host \union {Catalogue!NoHost}, leaving' = Catalogue!NoHost,
             synced' \in {"installed", "builtin", Catalogue!None},
         host' = Catalogue!NoHost <=> synced' = Catalogue!None,
         host' # Catalogue!NoHost => host'.kind = synced',
         host' = host \/ (host' # Catalogue!NoHost => host'.phase # "up"),
         queue[1].what = "release" => host' = Catalogue!NoHost,
         synced' = "installed" => checkout = "valid",
         (synced' = Target /\ change # Catalogue!Idle) \/ synced' = Catalogue!AppDriverSource
  PROVE  Catalogue!TypeOK' /\ CatalogueInv'
<1>0. /\ OneBuilds /\ ListedIsOnDisk /\ FilesStay /\ QueueIsAwaited /\ UninstallIsUnderWay
         /\ HostIsSynced
      /\ WillFollow /\ Catalogue!TypeOK
  BY DEF CatalogueInv
<1>1. /\ change' = Catalogue!Idle /\ queue' \in Seq(Catalogue!Entry) /\ QueueIsAwaited'
         /\ calls' \in [Calls -> CallStates]
      /\ \A c \in Calls : \/ calls'[c] = calls[c]
                          \/ calls[c] = "queued" /\ queue[1].what = "sync" /\ calls'[c] = "idle"
                          \/ calls[c] = "releasing" /\ queue[1].what = "release"
                             /\ calls'[c] = "removing"
      /\ queue[1].what = "release" => \E c \in Calls : calls'[c] = "removing"
      /\ \A i \in DOMAIN queue : i > 1 => i - 1 \in DOMAIN queue' /\ queue'[i - 1] = queue[i]
  BY <1>0, FinishDoes
<1>2. Catalogue!TypeOK'
  BY <1>1 DEF Catalogue!TypeOK, CallStates, Catalogue!Kinds
<1>3. \A c \in Calls : calls'[c] \in Building => calls[c] \in Building
  BY <1>1 DEF Building
<1>4. OneBuilds' /\ ListedIsOnDisk'
  BY <1>0, <1>3 DEF OneBuilds, ListedIsOnDisk, Catalogue!Discovered
<1>5. \A c \in Calls : calls[c] \in Leaving => calls'[c] \in Leaving
  BY <1>1 DEF Leaving
<1>6. UninstallIsUnderWay'
  BY <1>0, <1>5 DEF UninstallIsUnderWay
<1>7. ChangeIsFirst'
  BY <1>1 DEF ChangeIsFirst
<1>8. HostIsSynced'
  BY <1>1 DEF HostIsSynced, Catalogue!Idle
<1>9. FilesStay'
  BY <1>0 DEF FilesStay
<1>10. NothingRunsWhenRemoved'
  BY <1>1 DEF NothingRunsWhenRemoved, Catalogue!Removing
<1>11. WillFollow'
  <2>1. CASE synced' = Catalogue!AppDriverSource
    BY <1>1, <2>1 DEF WillFollow, Target, Catalogue!AppDriverSource
  <2>2. CASE \E c \in Calls : calls[c] \in Leaving
    BY <1>5, <2>2 DEF WillFollow
  <2>4. ASSUME NEW i \in DOMAIN queue, queue[i].what = "sync", i > 1
        PROVE  SyncWaits'
    BY <1>1, <2>4 DEF SyncWaits
  <2>5. CASE SyncWaits /\ synced' = Target /\ change # Catalogue!Idle
    BY <2>4, <2>5 DEF SyncWaits, WillFollow
  <2>6. CASE synced' = Target /\ change # Catalogue!Idle /\ Target = Catalogue!AppDriverSource
    BY <2>1, <2>6
  <2> QED
    BY <1>0, <2>1, <2>2, <2>5, <2>6 DEF WillFollow
<1> QED
  BY <1>1, <1>2, <1>4, <1>6, <1>7, <1>8, <1>9, <1>10, <1>11 DEF CatalogueInv

LEMMA SourceIs ==
  ASSUME Catalogue!TypeOK, CatalogueInv
  PROVE  Catalogue!AppDriverSource \in {"installed", "builtin", Catalogue!None}
         /\ (Catalogue!AppDriverSource = "installed" => checkout = "valid")
<1>1. catalogueCatalogue \in {"installed", "builtin", Catalogue!None}
  BY CatalogueTypeIs
<1>2. catalogueCatalogue = "installed" => checkout = "valid"
  BY DEF CatalogueInv, ListedIsOnDisk, Catalogue!Discovered, Catalogue!Bundled, Catalogue!None
<1> QED
  BY <1>1, <1>2 DEF Catalogue!AppDriverSource, Catalogue!None

\* The bridge that a change adds.
LEMMA AddedIs ==
  ASSUME active \in BOOLEAN, NEW kind \in {"installed", "builtin", Catalogue!None},
         Catalogue!AddHost(kind)
  PROVE  /\ host' \in Catalogue!Host \union {Catalogue!NoHost} /\ synced' = kind
            /\ (host' = Catalogue!NoHost <=> kind = Catalogue!None)
         /\ host' # Catalogue!NoHost => host'.kind = kind /\ host'.phase # "up"
<1>1. synced' = kind
  BY DEF Catalogue!AddHost
<1>2. CASE kind = Catalogue!None
  BY <1>1, <1>2 DEF Catalogue!AddHost
<1>3. CASE kind # Catalogue!None
  <2>1. PICK p \in {"preparing", "unlaunched"} : host' = [kind |-> kind, dropped |-> FALSE,
                                                          phase |-> p]
    BY <1>3 DEF Catalogue!AddHost
  <2>2. host' \in Catalogue!Host /\ host'.kind = kind /\ host'.phase # "up"
    BY <1>3, <2>1 DEF Catalogue!Host, Catalogue!Kinds
  <2> QED
    BY <1>1, <1>3, <2>2, NoHostEnds
<1> QED
  BY <1>2, <1>3

LEMMA BeginSteps ==
  ASSUME Catalogue!TypeOK, CatalogueInv, ~Catalogue!Removing, Catalogue!BeginSync
         \/ Catalogue!BeginRelease
  PROVE  Catalogue!TypeOK' /\ CatalogueInv'
<1>0. /\ HostIsSynced /\ active \in BOOLEAN /\ host \in Catalogue!Host \union {Catalogue!NoHost}
      /\ synced \in {"installed", "builtin", Catalogue!None}
      /\ Catalogue!AppDriverSource \in {"installed", "builtin", Catalogue!None}
         /\ (Catalogue!AppDriverSource = "installed" => checkout = "valid")
  BY CatalogueTypeIs, SourceIs DEF CatalogueInv
<1>1. change = Catalogue!Idle /\ queue # <<>> /\ Target = synced /\ change.at = "idle"
  <2>1. change = Catalogue!Idle /\ queue # <<>>
    BY DEF Catalogue!BeginSync, Catalogue!BeginRelease
  <2> QED
    BY <2>1 DEF Target, Catalogue!Idle
<1>2. leaving = Catalogue!NoHost /\ (host = Catalogue!NoHost <=> synced = Catalogue!None)
    /\ (host # Catalogue!NoHost => host.kind = synced)
  BY <1>0, <1>1 DEF HostIsSynced
<1>3. Head(queue) = queue[1]
  BY <1>1, CatalogueTypeIs
<1>4. CASE Catalogue!BeginRelease
  <2>1. /\ queue[1].what = "release" /\ Catalogue!ReleaseAppDrivers(Catalogue!None)
        /\ UNCHANGED <<checkout, env, catalogueCatalogue, uninstalling, locked, queue, calls,
                       synced, active, restarts>>
    BY <1>3, <1>4 DEF Catalogue!BeginRelease, Catalogue!disk
  <2>2. Catalogue!None \in {"installed", "builtin", Catalogue!None} /\ Catalogue!None # "installed"
    BY DEF Catalogue!None
  <2> QED
    BY <1>1, <2>1, <2>2, ReleaseBegins
<1>5. CASE Catalogue!BeginSync
  <2>0. /\ queue[1].what = "sync"
        /\ UNCHANGED <<checkout, env, catalogueCatalogue, uninstalling, locked, active, restarts>>
    BY <1>3, <1>5 DEF Catalogue!BeginSync, Catalogue!disk
  <2>1. CASE Catalogue!ReleaseAppDrivers(Catalogue!AppDriverSource)
      /\ UNCHANGED <<queue, calls, synced>>
    BY <1>0, <1>1, <2>0, <2>1, ReleaseBegins
  <2>2. CASE synced = Catalogue!AppDriverSource /\ Catalogue!Finish
      /\ UNCHANGED <<host, leaving, synced, users, served>>
    BY <1>0, <1>1, <1>2, <2>0, <2>2, FinishSteps
  <2>3. CASE Catalogue!AddHost(Catalogue!AppDriverSource) /\ Catalogue!Finish
      /\ UNCHANGED <<leaving, users, served>>
    <3>1. /\ host' \in Catalogue!Host \union {Catalogue!NoHost}
             /\ synced' = Catalogue!AppDriverSource
                /\ (host' = Catalogue!NoHost <=> synced' = Catalogue!None)
          /\ host' # Catalogue!NoHost => host'.kind = synced' /\ host'.phase # "up"
      BY <1>0, <2>3, AddedIs
    <3> QED
      BY <1>0, <1>1, <1>2, <2>0, <2>3, <3>1, FinishSteps
  <2> QED
    BY <1>5, <2>1, <2>2, <2>3 DEF Catalogue!BeginSync, Catalogue!experiences
<1> QED
  BY <1>4, <1>5

LEMMA StopUserSteps ==
  ASSUME Catalogue!TypeOK, CatalogueInv, ~Catalogue!Removing, Catalogue!StopUser
  PROVE  Catalogue!TypeOK' /\ CatalogueInv'
<1>0. /\ OneBuilds /\ ListedIsOnDisk /\ FilesStay /\ QueueIsAwaited /\ UninstallIsUnderWay
         /\ HostIsSynced
      /\ ChangeIsFirst /\ WillFollow /\ users \in [Users -> UserStates] /\ served \subseteq Users
      /\ host \in Catalogue!Host \union {Catalogue!NoHost}
         /\ leaving \in Catalogue!Host \union {Catalogue!NoHost}
  BY CatalogueTypeIs DEF CatalogueInv, Catalogue!TypeOK, UserStates
<1>1. change.at = "stop" /\ change \in Changes /\ change # Catalogue!Idle
  <2>1. change.at = "stop"
    BY DEF Catalogue!StopUser
  <2> QED
    BY <2>1, CatalogueTypeIs
<1>2. change.wanted \in {"installed", "builtin", Catalogue!None} /\ change.todo \subseteq Users
  BY <1>1 DEF Changes, Catalogue!Kinds
<1>3. UNCHANGED <<checkout, env, catalogueCatalogue, uninstalling, locked, queue, calls, synced,
                  active, restarts>>
  BY DEF Catalogue!StopUser, Catalogue!disk
<1>4. leaving = Catalogue!NoHost
  BY <1>0, <1>1 DEF HostIsSynced
<1>5. PICK u \in change.todo :
        LET stopped == [users EXCEPT ![u] = IF @ = "running" THEN "idle" ELSE @]
        IN IF change.todo = {u}
           THEN Catalogue!Release(change.wanted, stopped)
           ELSE /\ users' = stopped
                /\ served' = served \ {u}
                /\ change' = [change EXCEPT !.todo = @ \ {u}]
                /\ UNCHANGED <<host, leaving>>
  BY DEF Catalogue!StopUser
<1> DEFINE stopped == [users EXCEPT ![u] = IF users[u] = "running" THEN "idle" ELSE users[u]]
<1>6. stopped \in [Users -> UserStates]
  BY <1>0, <1>2 DEF UserStates
<1>7. /\ change' \in Changes /\ change' # Catalogue!Idle /\ change'.at \in {"stop", "release"}
         /\ change'.wanted = change.wanted
      /\ users' \in [Users -> UserStates] /\ served' \subseteq Users
      /\ \/ change'.at = "stop" /\ host' = host /\ leaving' = leaving
         \/ /\ change'.at = "release" /\ host' = Catalogue!NoHost
               /\ leaving' \in Catalogue!Host \union {Catalogue!NoHost}
            /\ leaving' # Catalogue!NoHost => host # Catalogue!NoHost /\ leaving'.kind = host.kind
               /\ leaving'.phase = host.phase
  <2>1. CASE change.todo = {u}
    <3>1. Catalogue!Release(change.wanted, stopped)
      BY <1>5, <2>1
    <3> HIDE DEF stopped
    <3> QED
      BY <1>0, <1>2, <1>6, <3>1, ReleaseDoes
  <2>2. CASE change.todo # {u}
    <3>1. /\ users' = stopped /\ served' = served \ {u}
             /\ change' = [change EXCEPT !.todo = @ \ {u}]
          /\ UNCHANGED <<host, leaving>>
      BY <1>5, <2>2
    <3>2. change' \in Changes /\ change'.at = "stop" /\ change'.wanted = change.wanted
      BY <1>1, <3>1 DEF Changes
    <3>3. change' # Catalogue!Idle
      BY <3>2 DEF Catalogue!Idle
    <3> QED
      BY <1>0, <1>6, <3>1, <3>2, <3>3
  <2> QED
    BY <2>1, <2>2
<1>8. host' \in Catalogue!Host \union {Catalogue!NoHost}
    /\ leaving' \in Catalogue!Host \union {Catalogue!NoHost}
  BY <1>0, <1>7
<1>9. Catalogue!TypeOK'
  BY <1>3, <1>7, <1>8 DEF Catalogue!TypeOK, Changes, UserStates
<1>10. OneBuilds' /\ ListedIsOnDisk' /\ UninstallIsUnderWay'
  BY <1>0, <1>3 DEF OneBuilds, ListedIsOnDisk, Catalogue!Discovered, UninstallIsUnderWay
<1>11. QueueIsAwaited'
  BY <1>0, <1>3, QueueStays
<1>12. ChangeIsFirst'
  BY <1>0, <1>1, <1>3, <1>7 DEF ChangeIsFirst
<1>13. HostIsSynced'
  BY <1>0, <1>1, <1>3, <1>7 DEF HostIsSynced
<1>14. FilesStay'
  BY <1>0, <1>3, <1>7 DEF FilesStay
<1>15. NothingRunsWhenRemoved'
  BY <1>3 DEF NothingRunsWhenRemoved, Catalogue!Removing
<1>16. WillFollow'
  BY <1>0, <1>1, <1>3, <1>7 DEF WillFollow, Target, Catalogue!AppDriverSource, SyncWaits
<1> QED
  BY <1>9, <1>10, <1>11, <1>12, <1>13, <1>14, <1>15, <1>16 DEF CatalogueInv

LEMMA ReleasedSteps ==
  ASSUME Catalogue!TypeOK, CatalogueInv, ~Catalogue!Removing, Catalogue!Released
  PROVE  Catalogue!TypeOK' /\ CatalogueInv'
<1>1. change.at = "release" /\ change \in Changes /\ change # Catalogue!Idle
  <2>1. change.at = "release"
    BY DEF Catalogue!Released
  <2> QED
    BY <2>1, CatalogueTypeIs
<1>2. change.wanted \in {"installed", "builtin", Catalogue!None} /\ active \in BOOLEAN
  BY <1>1, CatalogueTypeIs DEF Changes, Catalogue!Kinds
<1>3. /\ leaving' = Catalogue!NoHost /\ Catalogue!AddHost(change.wanted) /\ Catalogue!Finish
      /\ UNCHANGED <<checkout, env, catalogueCatalogue, uninstalling, locked, active, users,
                     served, restarts>>
  BY DEF Catalogue!Released, Catalogue!disk, Catalogue!experiences
<1>4. /\ host' \in Catalogue!Host \union {Catalogue!NoHost} /\ synced' = change.wanted
         /\ (host' = Catalogue!NoHost <=> synced' = Catalogue!None)
      /\ host' # Catalogue!NoHost => host'.kind = synced' /\ host'.phase # "up"
  BY <1>2, <1>3, AddedIs
<1>5. /\ queue # <<>> /\ (queue[1].what = "release" => change.wanted = Catalogue!None)
      /\ change.wanted = "installed" => checkout = "valid"
  BY <1>1 DEF CatalogueInv, ChangeIsFirst
<1>6. Target = change.wanted
  BY <1>1 DEF Target
<1> QED
  BY <1>1, <1>2, <1>3, <1>4, <1>5, <1>6, FinishSteps

LEMMA CatalogueSteps ==
  Catalogue!TypeOK /\ CatalogueInv /\ [Catalogue!Next]_catalogueVars => Catalogue!TypeOK'
      /\ CatalogueInv'
<1> SUFFICES ASSUME Catalogue!TypeOK, CatalogueInv, [Catalogue!Next]_catalogueVars
             PROVE  Catalogue!TypeOK' /\ CatalogueInv'
  OBVIOUS
<1>1. CASE UNCHANGED catalogueVars
  <2>1. UNCHANGED <<checkout, env, catalogueCatalogue, uninstalling, locked, calls, queue, change,
                    synced, active,
                    host, leaving, users, served, restarts>>
    BY <1>1 DEF catalogueVars
  <2>2. Catalogue!TypeOK'
    BY <2>1 DEF Catalogue!TypeOK
  <2>3. QueueIsAwaited'
    BY <2>1, QueueStays DEF CatalogueInv
  <2> QED
    BY <2>1, <2>2, <2>3 DEF CatalogueInv, OneBuilds, ListedIsOnDisk, Catalogue!Discovered,
         ChangeIsFirst, HostIsSynced, FilesStay, NothingRunsWhenRemoved, Catalogue!Removing,
         UninstallIsUnderWay, WillFollow, Target, Catalogue!AppDriverSource, SyncWaits
<1>2. CASE Catalogue!Progress
  <2>1. \/ \E c \in Calls : Catalogue!RemoveApp(c) \/ Catalogue!RemoveFails(c)
        \/ ~Catalogue!Removing /\ (Catalogue!BeginSync \/ Catalogue!BeginRelease)
        \/ ~Catalogue!Removing /\ Catalogue!Released
        \/ ~Catalogue!Removing /\ Catalogue!StopUser
        \/ Catalogue!HostStep
        \/ \E c \in Calls : \/ Catalogue!Cloned(c) \/ Catalogue!CloneFails(c) \/ Catalogue!Built(c)
                               \/ Catalogue!BuildFails(c)
                            \/ Catalogue!Installed(c) \/ Catalogue!StopAll(c)
    BY <1>2 DEF Catalogue!Progress
  <2> QED
    BY <2>1, RemoveSteps, BeginSteps, ReleasedSteps, StopUserSteps, HostStepSteps,
         CatalogueInstallSteps, InstalledSteps, StopAllSteps
<1>3. CASE Catalogue!Commands
  <2>1. \/ \E c \in Calls : Catalogue!Install(c) \/ Catalogue!Uninstall(c)
           \/ Catalogue!UninstallInvalid(c)
        \/ \E u \in Users : \/ Catalogue!StartUser(u) \/ Catalogue!Subscribe(u)
                               \/ Catalogue!Subscribed(u)
                            \/ Catalogue!SubscribeFails(u) \/ Catalogue!StopExperience(u)
        \/ Catalogue!StopHub
    BY <1>3 DEF Catalogue!Commands
  <2> QED
    BY <2>1, CatalogueInstallSteps, UninstallInvalidSteps, UserSteps, HostStepSteps
<1> QED
  BY <1>1, <1>2, <1>3, RestartSteps DEF Catalogue!Next

LEMMA CatalogueHolds ==
  Catalogue!TypeOK /\ CatalogueInv => Catalogue!FilesInUseStay /\ Catalogue!HostsFollowCatalogue
<1> SUFFICES ASSUME Catalogue!TypeOK, CatalogueInv PROVE Catalogue!FilesInUseStay
    /\ Catalogue!HostsFollowCatalogue
  OBVIOUS
<1>1. Catalogue!FilesInUseStay
  BY DEF CatalogueInv, FilesStay, Catalogue!FilesInUseStay
<1>2. Catalogue!HostsFollowCatalogue
  <2> SUFFICES ASSUME Catalogue!AtRest
               PROVE  /\ catalogueCatalogue = Catalogue!Discovered /\ synced = catalogueCatalogue
                      /\ IF catalogueCatalogue = Catalogue!None THEN host = Catalogue!NoHost ELSE host # Catalogue!NoHost /\ host.kind = catalogueCatalogue
    BY DEF Catalogue!HostsFollowCatalogue
  <2>1. queue = <<>> /\ \A c \in Calls : calls[c] = "idle"
    BY DEF Catalogue!AtRest
  <2>2. change = Catalogue!Idle /\ change.at = "idle"
    BY <2>1 DEF CatalogueInv, ChangeIsFirst, Catalogue!Idle
  <2>3. ~(\E c \in Calls : calls[c] \in Leaving) /\ ~SyncWaits
    BY <2>1 DEF Leaving, SyncWaits
  <2>4. ~uninstalling /\ Catalogue!AppDriverSource = catalogueCatalogue
    BY <2>3 DEF CatalogueInv, UninstallIsUnderWay, Catalogue!AppDriverSource
  <2>5. synced = catalogueCatalogue
    BY <2>2, <2>3, <2>4 DEF CatalogueInv, WillFollow, Target
  <2>6. (host = Catalogue!NoHost <=> synced = Catalogue!None)
      /\ (host # Catalogue!NoHost => host.kind = synced)
    BY <2>2 DEF CatalogueInv, HostIsSynced
  <2> QED
    BY <2>5, <2>6 DEF CatalogueInv, ListedIsOnDisk
<1> QED
  BY <1>1, <1>2

-----------------------------------------------------------------------------
\* All of the server's components at once: each keeps its invariant, whichever
\* one runs, as the others stay where they are.
ServerInv ==
  /\ component \in Components
  /\ Catalogue!TypeOK /\ CatalogueInv
  /\ Install!InstallTypeOK /\ InstallInv
  /\ DataInv
  /\ Log!LogTypeOK /\ LogInv
  /\ Settings!SettingsTypeOK /\ SettingsInv
  /\ Routing!RoutingTypeOK /\ RoutingInv
  /\ Life!LifeTypeOK /\ LifeInv

LEMMA ServerStarts == Init => ServerInv
BY CatalogueStarts, InstallStarts, DataStarts, LogStarts, SettingsStarts, RoutingStarts, LifeStarts
   DEF Init, ServerInv

\* A step of the server is a step of each component, or leaves it alone.
LEMMA StepOfEach ==
  ASSUME [Next]_vars
  PROVE  /\ UNCHANGED component
         /\ [Catalogue!Next]_catalogueVars /\ [Install!InstallNext]_installVars
         /\ [Data!DataNext]_dataVars /\ [Log!LogNext]_logVars
         /\ [Settings!SettingsNext]_settingsVars /\ [Routing!RoutingNext]_routingVars
         /\ [Life!LifeNext]_lifeVars /\ [Gate!GatewayNext]_gatewayVars
<1>1. CASE UNCHANGED vars
  BY <1>1 DEF vars
<1>2. CASE component = "catalogue" /\ Catalogue!Next /\ Only("catalogue")
  BY <1>2 DEF Only
<1>3. CASE component = "install" /\ Install!InstallNext /\ Only("install")
  BY <1>3 DEF Only
<1>4. CASE component = "data" /\ Data!DataNext /\ Only("data")
  BY <1>4 DEF Only
<1>5. CASE component = "log" /\ Log!LogNext /\ Only("log")
  BY <1>5 DEF Only
<1>6. CASE component = "settings" /\ Settings!SettingsNext /\ Only("settings")
  BY <1>6 DEF Only
<1>7. CASE component = "routing" /\ Routing!RoutingNext /\ Only("routing")
  BY <1>7 DEF Only
<1>8. CASE component = "life" /\ Life!LifeNext /\ Only("life")
  BY <1>8 DEF Only
<1>9. CASE component = "gateway" /\ Gate!GatewayNext /\ Only("gateway")
  BY <1>9 DEF Only
<1> QED
  BY <1>1, <1>2, <1>3, <1>4, <1>5, <1>6, <1>7, <1>8, <1>9 DEF Next

LEMMA ServerSteps == ServerInv /\ [Next]_vars => ServerInv'
<1> SUFFICES ASSUME ServerInv, [Next]_vars
             PROVE  ServerInv'
  OBVIOUS
<1>1. component' \in Components
  BY StepOfEach DEF ServerInv
<1>2. (Catalogue!TypeOK /\ CatalogueInv)'
  BY StepOfEach, CatalogueSteps DEF ServerInv
<1>3. (Install!InstallTypeOK /\ InstallInv)'
  BY StepOfEach, InstallTypeSteps, InstallSteps DEF ServerInv, InstallInv
<1>4. DataInv'
  BY StepOfEach, DataSteps DEF ServerInv
<1>5. (Log!LogTypeOK /\ LogInv)'
  BY StepOfEach, LogSteps DEF ServerInv
<1>6. (Settings!SettingsTypeOK /\ SettingsInv)'
  BY StepOfEach, SettingsSteps DEF ServerInv
<1>7. (Routing!RoutingTypeOK /\ RoutingInv)'
  BY StepOfEach, RoutingSteps DEF ServerInv
<1>8. (Life!LifeTypeOK /\ LifeInv)'
  BY StepOfEach, LifeTypeSteps, LifeSteps DEF ServerInv
<1> QED
  BY <1>1, <1>2, <1>3, <1>4, <1>5, <1>6, <1>7, <1>8 DEF ServerInv

LEMMA ServerHolds == Spec => []ServerInv
BY ServerStarts, ServerSteps, PTL DEF Spec

\* The gateway runs as it does alone, so that its own theorems hold of it here.
LEMMA GatewayRuns == Spec => Gate!GatewaySpec
<1>1. Init => Gate!GatewayInit
  BY DEF Init
<1>2. [Next]_vars => [Gate!GatewayNext]_(Gate!gatewayVars)
  BY StepOfEach DEF gatewayVars, Gate!gatewayVars
<1> QED
  BY <1>1, <1>2, PTL DEF Spec, Gate!GatewaySpec

LEMMA GatewayHolds == Spec => [](Gate!GatewayTypeOK /\ Gate!ConnectionsAreGranted)
<1>1. Gate!GatewaySpec => []Gate!GatewayTypeOK
  BY Gate!GatewayTypeCorrect, GatewayAssumption
<1>2. Gate!GatewaySpec => []Gate!ConnectionsAreGranted
  BY Gate!Granted, GatewayAssumption
<1> QED
  BY <1>1, <1>2, GatewayRuns, PTL

-----------------------------------------------------------------------------
\* Whatever runs, its state has its types: the queues, files, requests, leases
\* and connections stay within what their components can name.
THEOREM ServerTypeCorrect == Spec => []ServerTypeOK
<1>1. ServerInv /\ Gate!GatewayTypeOK => ServerTypeOK
  BY DEF ServerInv, ServerTypeOK, Components, DataInv
<1> QED
  BY <1>1, ServerHolds, GatewayHolds, PTL

\* The files and environments in use stay and the bridges of apps follow the
\* catalogue; an installed app has what it needs and nobody's data; a server
\* that exits left nothing behind; and a window does and hears what it may
\* (app/manager.ts, app/installer.ts, python/env.ts, server.ts, gateway.ts).
THEOREM AppsStaySafe == Spec => []AppsAreSafe
<1>1. ServerInv => Catalogue!FilesInUseStay /\ Catalogue!HostsFollowCatalogue
  BY CatalogueHolds DEF ServerInv
<1>2. ServerInv => Install!InstallsAreSound
  BY DEF ServerInv, InstallInv, OneHasTheSlug, Install!InstallsAreSound
<1>3. ServerInv => Life!ExitsClean
  BY DEF ServerInv, LifeInv
<1>4. ServerInv /\ Gate!ConnectionsAreGranted => AppsAreSafe
  BY <1>1, <1>2, <1>3 DEF AppsAreSafe
<1> QED
  BY <1>4, ServerHolds, GatewayHolds, PTL

\* Nothing an app stored is lost or taken from an older layout over a newer
\* write, and the log loses entries only at its limits and in order, whatever
\* fails and whenever the process dies (data-migration.ts, logger.ts).
THEOREM StoresStaySafe == Spec => []StoresAreSafe
<1>1. ServerInv => StoresAreSafe
  BY LogHolds DEF ServerInv, DataInv, StoresAreSafe, Data!DataIsSafe
<1> QED
  BY <1>1, ServerHolds, PTL

\* The leases of an app, the instances that serve it and those who hear them
\* agree, and a driver that runs has the settings of its binding once no
\* command is under way (hub.ts, settings).
THEOREM DriversStayRouted == Spec => []DriversAreRouted
<1>1. ServerInv => DriversAreRouted
  BY RoutingHolds, SettingsHold DEF ServerInv, DriversAreRouted
<1> QED
  BY <1>1, ServerHolds, PTL

\* No step puts an old file over a value written under the new layout.
THEOREM NewerWritesStay == Spec => NewerStays
<1>1. ServerInv /\ [Next]_vars
      => [\A k \in Data!Keys \ LegacyKeys : new[k] \in Values => new'[k] \in Values]_(Data!dataVars)
  BY StepOfEach, NewerStep DEF ServerInv, dataVars, Data!dataVars
<1> QED
  BY <1>1, ServerHolds, PTL DEF Spec, NewerStays, Data!NewerStays
=============================================================================
