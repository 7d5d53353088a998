------------------------------- MODULE AppData -------------------------------
(***************************************************************************)
(* What the server keeps for an app on disk, across crashes: the files of  *)
(* its storage and device settings, their move out of the apps directory   *)
(* at start (data-migration.ts), the conversion of the calibration keys    *)
(* of old versions into a profile (apps/calibration.ts), the settings the  *)
(* app declares (apps/settings.ts), and the stores that keep what they     *)
(* read in memory (config/config.ts, config/app-settings.ts).              *)
(*                                                                         *)
(* The server is one thread: only a crash comes between two steps.  A file *)
(* is absent, whole with a value, or half written.  Whether the data       *)
(* directory is on another file system is left open.                       *)
(***************************************************************************)
EXTENDS Naturals, FiniteSets

CONSTANTS LegacyKeys,   \* calibration keys of old versions
          Odd,          \* old files that are symlinks or not plain files
          Values,       \* values written by this version
          MaxWrites,    \* bound on saves and updates
          MaxFailures,  \* bound on moves and writes that fail
          MaxCrashes    \* bound on crashes

VARIABLES up,       \* "down", "migrating", "loading" or "up"
          old,      \* files in the apps directory
          new,      \* files in the data directory
          marked,   \* the app's marker of a finished migration
          moves,    \* files this start still has to move
          copying,  \* file being copied, or None
          failed,   \* a move of this start failed
          removing, \* legacy keys that a save or a conversion still removes
          memory,   \* cached configurations, or None before they are read
          unsaved,  \* cached ones that could not be written
          writes, failures, crashes

dataVars == <<up, old, new, marked, moves, copying, failed, removing, memory, unsaved,
              writes, failures, crashes>>
bounds == <<writes, failures, crashes>>
moveVars == <<marked, moves, copying, failed>>
cacheVars == <<memory, unsaved>>

None == "none"
Absent == "absent"
Half == "half"
Legacy == "legacy"
Cached == {"device", "config"}
Keys == LegacyKeys \cup Cached \cup {"profile", "settings"}
Files == Values \cup {Absent, Half, Legacy}
Whole(f) == f \notin {Absent, Half}

DataTypeOK ==
  /\ up \in {"down", "migrating", "loading", "up"}
  /\ old \in [Keys -> {Absent, Legacy}] /\ new \in [Keys -> Files]
  /\ marked \in BOOLEAN /\ moves \subseteq Keys /\ copying \in Keys \cup {None}
  /\ failed \in BOOLEAN /\ removing \subseteq LegacyKeys
  /\ memory \in [Cached -> Files \cup {None}] /\ unsaved \subseteq Cached
  /\ writes \in 0..MaxWrites /\ failures \in 0..MaxFailures /\ crashes \in 0..MaxCrashes

\* An install of an old version, calibrated, with settings, before its update.
DataInit ==
  /\ up = "down" /\ old = [k \in Keys |-> IF k \in {"profile", "config"} THEN Absent ELSE Legacy]
  /\ new = [k \in Keys |-> IF k = "config" THEN Legacy ELSE Absent] /\ marked = FALSE /\ moves = {} /\ copying = None
  /\ failed = FALSE /\ removing = {} /\ memory = [c \in Cached |-> None] /\ unsaved = {}
  /\ writes = 0 /\ failures = 0 /\ crashes = 0

Fails == failures < MaxFailures /\ failures' = failures + 1
Writes == writes < MaxWrites /\ writes' = writes + 1

-----------------------------------------------------------------------------
(* migrateLegacyAppData                                                     *)

\* Plain files inside the app's directory are moved; others are left.
Movable == {k \in Keys \ Odd : old[k] # Absent}

StartServer ==
  /\ up = "down"
  /\ IF marked \/ (Movable = {} /\ \A k \in Odd : old[k] = Absent)
     THEN up' = "loading" /\ moves' = {}
     ELSE up' = "migrating" /\ moves' = Movable
  /\ failed' = FALSE /\ copying' = None
  /\ UNCHANGED <<old, new, marked, removing, cacheVars, bounds>>

\* Defect: an old file replaces one the data directory has already.
Conflict_OldWins ==
  /\ up = "migrating" /\ copying = None
  /\ \E k \in moves : new[k] # Absent /\ new' = [new EXCEPT ![k] = old[k]]
                      /\ old' = [old EXCEPT ![k] = Absent] /\ moves' = moves \ {k}
  /\ UNCHANGED <<up, marked, copying, failed, removing, cacheVars, bounds>>

\* A file that is at the new location already wins; the old copy stays.
Conflict ==
  /\ up = "migrating" /\ copying = None
  /\ \E k \in moves : new[k] # Absent /\ moves' = moves \ {k}
  /\ UNCHANGED <<up, old, new, marked, copying, failed, removing, cacheVars, bounds>>

\* moveFile: a rename ...
Rename ==
  /\ up = "migrating" /\ copying = None
  /\ \E k \in moves :
       /\ new[k] = Absent
       /\ new' = [new EXCEPT ![k] = old[k]] /\ old' = [old EXCEPT ![k] = Absent]
       /\ moves' = moves \ {k}
  /\ UNCHANGED <<up, marked, copying, failed, removing, cacheVars, bounds>>

\* ... or between file systems a copy, which is not atomic, and a removal.
CopyBegins ==
  /\ up = "migrating" /\ copying = None
  /\ \E k \in moves : new[k] = Absent /\ copying' = k /\ new' = [new EXCEPT ![k] = Half]
  /\ UNCHANGED <<up, old, marked, moves, failed, removing, cacheVars, bounds>>

CopyEnds ==
  /\ copying # None /\ new[copying] = Half
  /\ new' = [new EXCEPT ![copying] = old[copying]]
  /\ UNCHANGED <<up, old, moveVars, removing, cacheVars, bounds>>

CopyRemoved ==
  /\ copying # None /\ new[copying] # Half
  /\ old' = [old EXCEPT ![copying] = Absent]
  /\ moves' = moves \ {copying} /\ copying' = None
  /\ UNCHANGED <<up, new, marked, failed, removing, cacheVars, bounds>>

MoveFails ==
  /\ up = "migrating" /\ Fails
  /\ \E k \in (IF copying = None THEN moves ELSE {copying}) :
       /\ copying = None => new[k] = Absent
       /\ moves' = moves \ {k}
  /\ failed' = TRUE /\ copying' = None
  /\ UNCHANGED <<up, old, new, marked, removing, cacheVars, writes, crashes>>

\* Defect: the app is marked although a move failed.
Mark_Anyway ==
  /\ up = "migrating" /\ moves = {} /\ copying = None
  /\ marked' = TRUE /\ up' = "loading"
  /\ UNCHANGED <<old, new, moves, copying, failed, removing, cacheVars, bounds>>

\* The marker, once everything was handled.  A failed move is tried again.
Mark ==
  /\ up = "migrating" /\ moves = {} /\ copying = None
  /\ marked' = ~failed /\ up' = "loading"
  /\ UNCHANGED <<old, new, moves, copying, failed, removing, cacheVars, bounds>>

-----------------------------------------------------------------------------
(* CalibrationStore                                                         *)

Idle == up = "up" /\ removing = {}

\* readLegacyProfile: every key is there and readable.
LegacyProfile == \A k \in LegacyKeys : Whole(new[k])

\* get: without a profile file, the old keys become one, and are removed.
ConvertLegacy ==
  /\ Idle /\ new["profile"] = Absent /\ LegacyProfile
  /\ new' = [new EXCEPT !["profile"] = Legacy]
  /\ removing' = LegacyKeys
  /\ UNCHANGED <<up, old, moveVars, cacheVars, bounds>>

\* removeLegacyKeys, one file after the other.
RemoveLegacyKey ==
  /\ up = "up"
  /\ \E k \in removing :
       removing' = removing \ {k} /\ new' = [new EXCEPT ![k] = Absent]
  /\ UNCHANGED <<up, old, moveVars, cacheVars, bounds>>

\* save: a new profile, then the old keys go.
SaveProfile ==
  /\ Idle /\ Writes
  /\ \E v \in Values : new' = [new EXCEPT !["profile"] = v]
  /\ removing' = LegacyKeys
  /\ UNCHANGED <<up, old, moveVars, cacheVars, failures, crashes>>

-----------------------------------------------------------------------------
(* AppSettingsValuesStore and AppSettingsStore                              *)

\* stored: values that can't be read make every call of get and set fail.
StoredReadable == new["settings"] # Half

\* set: merged over the stored values.
SetSettings ==
  /\ Idle /\ Writes /\ StoredReadable
  /\ \E v \in Values : new' = [new EXCEPT !["settings"] = v]
  /\ UNCHANGED <<up, old, moveVars, removing, cacheVars, failures, crashes>>

\* load, loadGlobalConfig: an invalid file counts as none, or as the defaults.
Loaded(c) == IF Whole(new[c]) THEN new[c] ELSE Absent

\* The global configuration is read when its store is made ...
LoadConfig ==
  /\ up = "loading" /\ up' = "up"
  /\ memory' = [memory EXCEPT !["config"] = Loaded("config")]
  /\ UNCHANGED <<old, new, moveVars, removing, unsaved, bounds>>

\* ... an app's device settings when they are first asked for.
GetDevice ==
  /\ Idle /\ memory["device"] = None
  /\ memory' = [memory EXCEPT !["device"] = Loaded("device")]
  /\ UNCHANGED <<up, old, new, moveVars, removing, unsaved, bounds>>

\* persist: a write that fails is only logged.
Persist(c, v) ==
  \/ new' = [new EXCEPT ![c] = v] /\ unsaved' = unsaved \ {c} /\ UNCHANGED failures
  \/ Fails /\ unsaved' = unsaved \cup {c} /\ UNCHANGED new

\* update: the cached value and the file.
Update(c) ==
  /\ Idle /\ Writes
  /\ \E v \in Values :
       memory' = [memory EXCEPT ![c] = v] /\ Persist(c, v)
  /\ UNCHANGED <<up, old, moveVars, removing, crashes>>

UpdateDevice == Update("device")
UpdateConfig == Update("config")

\* The server is killed or stops: what was only in memory is gone.
Crash ==
  /\ up # "down" /\ crashes < MaxCrashes /\ crashes' = crashes + 1
  /\ up' = "down" /\ moves' = {} /\ copying' = None /\ failed' = FALSE /\ removing' = {}
  /\ memory' = [c \in Cached |-> None] /\ unsaved' = {}
  /\ UNCHANGED <<old, new, marked, writes, failures>>

DataNext ==
  \/ StartServer \/ Conflict \/ Rename \/ CopyBegins \/ CopyEnds \/ CopyRemoved
  \/ MoveFails \/ Mark \/ ConvertLegacy \/ RemoveLegacyKey \/ SaveProfile
  \/ SetSettings \/ LoadConfig \/ GetDevice \/ UpdateDevice \/ UpdateConfig
  \/ Crash

DataSpec == DataInit /\ [][DataNext]_dataVars

-----------------------------------------------------------------------------
\* A crash anywhere in the move or the conversion loses no data: a file is
\* whole at one of its places, or was replaced by a newer write, and the old
\* calibration is in its keys or in a profile.
NothingIsLost ==
  /\ \A k \in {"settings", "device", "config"} : Whole(old[k]) \/ Whole(new[k])
  /\ Whole(new["profile"]) \/ \A k \in LegacyKeys : Whole(old[k]) \/ Whole(new[k])

\* The marker, which stops the migration for ever, is set only when every
\* plain old file has one at the new location; and a profile file, unlike
\* what is moved, is never half written.
MarkedMeansMoved ==
  /\ marked => \A k \in Keys \ Odd : old[k] = Absent \/ new[k] # Absent
                                     \/ k \in LegacyKeys
  /\ new["profile"] # Half

\* What is served from memory is what the file says after a crash, unless
\* writing it failed.
ServedIsStored == \A c \in Cached \ unsaved : memory[c] # None => memory[c] = Loaded(c)

DataIsSafe == NothingIsLost /\ MarkedMeansMoved /\ ServedIsStored

\* A newer write is never replaced by an old file or by a conversion.
NewerStays ==
  [][\A k \in Keys \ LegacyKeys : new[k] \in Values => new'[k] \in Values]_dataVars

\* What the code does not keep: the move leaves no half file that is served.
NoHalfFile == up = "up" => \A k \in Keys : new[k] # Half
=============================================================================
