---------------------------- MODULE CameraDriver ----------------------------
(***************************************************************************)
(* Camera instances on shared devices (drivers/camera.py): opening,        *)
(* reopening with another device or mode, restoring the previous mode when *)
(* that fails, closing, the capture threads, and the probe of a device's   *)
(* formats, which any client may ask for at any time.                      *)
(*                                                                         *)
(* A mode stands for width, height, fps and rotation.  Actions and stops   *)
(* of one instance come from its serial queue, one at a time.              *)
(***************************************************************************)
EXTENDS Integers, FiniteSets

CONSTANTS Cams,        \* camera instances
          Devices,     \* device numbers
          Modes,       \* modes of the devices
          StartModes,  \* modes an instance is started with
          MaxOps       \* bound on starts, stops, reconfigurations and probes

VARIABLES state,      \* state of the instance in the bridge
          step,       \* where pre_run, an action or cleanup is
          target,     \* what that operation goes to
          config,     \* _config: what the device delivers
          requested,  \* _requested: what _open was last asked for
          cap,        \* the device _cap has open, or NoDevice
          gen,        \* number of the current open
          stops,      \* _capture_stop
          captures,   \* live capture threads: the open they read, and their step
          latest,     \* open whose frame is in _latest_frame, 0 for none
          late,       \* a capture thread did not stop in time
          inUse,      \* _devices_in_use: the mode of a held device, or None
          holder,     \* holder of each device's lock
          cache,      \* devices in _format_cache
          probe,      \* the probe in progress
          ops         \* operations begun

cVars == <<state, step, target, config, requested, cap, gen, stops, captures, latest,
           late, inUse, holder, cache, probe, ops>>

captureVars == <<stops, captures, latest>>
configVars  == <<config, requested>>
probeVars   == <<cache, probe>>

None == "none"
NoDevice == -1
Configs == [dev : Devices, mode : Modes]
OpSteps == {"idle", "locks", "close", "join", "open", "restore"}

CameraTypeOK ==
  /\ state \in [Cams -> {"absent", "starting", "running", "errored", "stopping"}]
  /\ step \in [Cams -> OpSteps]
  /\ target \in [Cams -> Configs] /\ config \in [Cams -> Configs]
  /\ requested \in [Cams -> Configs]
  /\ cap \in [Cams -> Devices \cup {NoDevice}] /\ gen \in [Cams -> Nat]
  /\ stops \in [Cams -> BOOLEAN]
  /\ captures \in [Cams -> SUBSET [gen : Nat, pc : {"read", "got"}]]
  /\ latest \in [Cams -> Nat] /\ late \subseteq Cams
  /\ inUse \in [Devices -> Modes \cup {None}]
  /\ holder \in [Devices -> Cams \cup {"probe", None}]
  /\ cache \subseteq Devices
  /\ probe \in [dev : Devices, pc : {"idle", "lock", "probing"}] /\ ops \in 0..MaxOps

Default == CHOOSE cfg \in Configs : cfg.mode \in StartModes

CameraInit ==
    /\ config = [c \in Cams |-> Default] /\ requested = config /\ target = config
    /\ state = [c \in Cams |-> "absent"] /\ step = [c \in Cams |-> "idle"]
    /\ cap = [c \in Cams |-> NoDevice] /\ gen = [c \in Cams |-> 0]
    /\ stops = [c \in Cams |-> FALSE] /\ captures = [c \in Cams |-> {}]
    /\ latest = [c \in Cams |-> 0] /\ late = {}
    /\ inUse = [d \in Devices |-> None] /\ holder = [d \in Devices |-> None]
    /\ cache = {} /\ probe = [dev |-> Default.dev, pc |-> "idle"] /\ ops = 0

\* Whether the hardware streams to somebody already.
Streaming(d) == (\E c \in Cams : cap[c] = d) \/ (probe.pc = "probing" /\ probe.dev = d)

-----------------------------------------------------------------------------
(* The device locks, taken in the order of the device numbers.              *)
Wanted(c) == {config[c].dev, target[c].dev}

\* Defect: the previous device is locked first, whatever its number.
TakeLock_OldFirst(c) ==
  /\ step[c] = "locks"
  /\ \E d \in Wanted(c) :
       /\ holder[d] = None
       /\ d # config[c].dev => holder[config[c].dev] = c
       /\ holder' = [holder EXCEPT ![d] = c]
       /\ step' = [step EXCEPT ![c] =
                     IF \A x \in Wanted(c) : holder'[x] = c
                     THEN IF cap[c] = NoDevice /\ state[c] = "starting" THEN "open" ELSE "close"
                     ELSE "locks"]
  /\ UNCHANGED <<state, target, configVars, cap, gen, captureVars, late, inUse, probeVars, ops>>

TakeLock(c) ==
  /\ step[c] = "locks"
  /\ \E d \in Wanted(c) :
       /\ holder[d] = None
       /\ \A x \in Wanted(c) : x < d => holder[x] = c
       /\ holder' = [holder EXCEPT ![d] = c]
       /\ step' = [step EXCEPT ![c] =
                     IF \A x \in Wanted(c) : holder'[x] = c
                     THEN IF cap[c] = NoDevice /\ state[c] = "starting" THEN "open" ELSE "close"
                     ELSE "locks"]
  /\ UNCHANGED <<state, target, configVars, cap, gen, captureVars, late, inUse, probeVars, ops>>

Unlocked(c) == [d \in Devices |-> IF holder[d] = c THEN None ELSE holder[d]]

-----------------------------------------------------------------------------
(* pre_run, _reconfigure and cleanup                                        *)

Counted == ops < MaxOps /\ ops' = ops + 1

\* A new driver object, with the configuration the server sent.
Start(c) ==
  /\ state[c] = "absent" /\ step[c] = "idle" /\ Counted
  /\ \E cfg \in Configs :
       /\ cfg.mode \in StartModes
       /\ config' = [config EXCEPT ![c] = cfg] /\ requested' = [requested EXCEPT ![c] = cfg]
       /\ target' = [target EXCEPT ![c] = cfg]
  /\ state' = [state EXCEPT ![c] = "starting"]
  /\ step' = [step EXCEPT ![c] = "locks"]
  /\ gen' = [gen EXCEPT ![c] = 0] /\ stops' = [stops EXCEPT ![c] = FALSE]
  /\ captures' = [captures EXCEPT ![c] = {}] /\ latest' = [latest EXCEPT ![c] = 0]
  /\ late' = late \ {c}
  /\ UNCHANGED <<cap, inUse, holder, probeVars>>

\* An action that changes the mode.  What it does not mention keeps the value
\* that was delivered.  A request for the delivered or the requested mode does
\* not reopen the device.
Reconfigure(c, t) ==
  /\ state[c] = "running" /\ step[c] = "idle" /\ Counted
  /\ t \notin {config[c], requested[c]}
  /\ target' = [target EXCEPT ![c] = t] /\ step' = [step EXCEPT ![c] = "locks"]
  /\ UNCHANGED <<state, configVars, cap, gen, captureVars, late, inUse, holder, probeVars>>

\* stop-driver: cleanup closes the device under its lock.
Stop(c) ==
  /\ state[c] \in {"running", "errored"} /\ step[c] = "idle" /\ Counted
  /\ state' = [state EXCEPT ![c] = "stopping"]
  /\ target' = [target EXCEPT ![c] = config[c]]
  /\ step' = [step EXCEPT ![c] = "locks"]
  /\ UNCHANGED <<configVars, cap, gen, captureVars, late, inUse, holder, probeVars>>

\* _close: tells the capture thread to stop ...
CloseBegins(c) ==
  /\ step[c] = "close"
  /\ stops' = IF cap[c] = NoDevice THEN stops ELSE [stops EXCEPT ![c] = TRUE]
  /\ step' = [step EXCEPT ![c] = "join"]
  /\ UNCHANGED <<state, target, configVars, cap, gen, captures, latest, late, inUse, holder,
                 probeVars, ops>>

Reader(c) == {t \in captures[c] : t.gen = gen[c]}

\* Defect: the last frame of the old mode is kept.
Closed_KeepsFrame(c) ==
  /\ step[c] = "join"
  /\ \A t \in Reader(c) : t.pc = "read"
  /\ late' = IF Reader(c) = {} THEN late ELSE late \cup {c}
  /\ cap' = [cap EXCEPT ![c] = NoDevice]
  /\ inUse' = IF cap[c] = NoDevice THEN inUse ELSE [inUse EXCEPT ![config[c].dev] = None]
  /\ IF state[c] = "stopping"
     THEN /\ state' = [state EXCEPT ![c] = "absent"] /\ step' = [step EXCEPT ![c] = "idle"]
          /\ holder' = Unlocked(c)
     ELSE step' = [step EXCEPT ![c] = "open"] /\ UNCHANGED <<state, holder>>
  /\ UNCHANGED <<latest, target, configVars, gen, stops, captures, probeVars, ops>>

\* ... waits for it, or gives up on one stuck in a read, releases the device
\* and forgets the frame.
Closed(c) ==
  /\ step[c] = "join"
  /\ \A t \in Reader(c) : t.pc = "read"
  /\ late' = IF Reader(c) = {} THEN late ELSE late \cup {c}
  /\ cap' = [cap EXCEPT ![c] = NoDevice]
  /\ inUse' = IF cap[c] = NoDevice THEN inUse ELSE [inUse EXCEPT ![config[c].dev] = None]
  /\ latest' = [latest EXCEPT ![c] = 0]
  /\ IF state[c] = "stopping"
     THEN /\ state' = [state EXCEPT ![c] = "absent"] /\ step' = [step EXCEPT ![c] = "idle"]
          /\ holder' = Unlocked(c)
     ELSE step' = [step EXCEPT ![c] = "open"] /\ UNCHANGED <<state, holder>>
  /\ UNCHANGED <<target, configVars, gen, stops, captures, probeVars, ops>>

\* What _open is asked for: the target, or after its failure the previous mode.
Asked(c) == IF step[c] = "restore" THEN config[c] ELSE target[c]

\* _negotiate_mode: the camera's nearest mode, which may be any.
Negotiated(cfg) == {[cfg EXCEPT !.mode = m] : m \in Modes}

\* _open: the device may deliver another mode than the one asked for.  The
\* capture thread starts, and the operation is over.
Opens(c) ==
  /\ step[c] \in {"open", "restore"} /\ ~Streaming(Asked(c).dev)
  /\ LET a == Asked(c) IN
       /\ cap' = [cap EXCEPT ![c] = a.dev]
       /\ requested' = [requested EXCEPT ![c] = a]
       /\ \E delivered \in Negotiated(a) :
            /\ config' = [config EXCEPT ![c] = delivered]
            /\ inUse' = [inUse EXCEPT ![a.dev] = delivered.mode]
  /\ target' = [target EXCEPT ![c] = config'[c]]
  /\ gen' = [gen EXCEPT ![c] = @ + 1]
  /\ stops' = [stops EXCEPT ![c] = FALSE]
  /\ captures' = [captures EXCEPT ![c] = @ \cup {[gen |-> gen[c] + 1, pc |-> "read"]}]
  /\ state' = [state EXCEPT ![c] = "running"]
  /\ step' = [step EXCEPT ![c] = "idle"] /\ holder' = Unlocked(c)
  /\ UNCHANGED <<latest, late, probeVars, ops>>

\* It cannot be opened or delivers no frame: a start fails, a reconfiguration
\* tries the previous mode, and a failure of that leaves the instance errored.
OpenFails(c) ==
  /\ step[c] \in {"open", "restore"}
  /\ IF step[c] = "open" /\ state[c] = "running"
     THEN step' = [step EXCEPT ![c] = "restore"] /\ UNCHANGED <<state, holder>>
     ELSE /\ step' = [step EXCEPT ![c] = "idle"] /\ holder' = Unlocked(c)
          /\ state' = [state EXCEPT ![c] = IF @ = "starting" THEN "absent" ELSE "errored"]
  /\ UNCHANGED <<target, configVars, cap, gen, captureVars, late, inUse, probeVars, ops>>

-----------------------------------------------------------------------------
(* The capture threads                                                      *)
Moves(c, t, pc) == captures' = [captures EXCEPT ![c] = (@ \ {t}) \cup {[t EXCEPT !.pc = pc]}]

\* A read returns a frame, or fails; the thread looks at the flag before the
\* next one.  A read that began before the release may still return a frame.
NextRead(c, t) ==
  IF stops[c] THEN captures' = [captures EXCEPT ![c] = @ \ {t}] ELSE Moves(c, t, "read")

CaptureReads(c) ==
  /\ \E t \in captures[c] : t.pc = "read" /\ (Moves(c, t, "got") \/ NextRead(c, t))
  /\ UNCHANGED <<state, step, target, configVars, cap, gen, stops, latest, late, inUse, holder,
                 probeVars, ops>>

CaptureStores(c) ==
  /\ \E t \in captures[c] :
       t.pc = "got" /\ latest' = [latest EXCEPT ![c] = t.gen] /\ NextRead(c, t)
  /\ UNCHANGED <<state, step, target, configVars, cap, gen, stops, late, inUse, holder,
                 probeVars, ops>>

-----------------------------------------------------------------------------
(* list_formats                                                             *)
Probe ==
  /\ probe.pc = "idle" /\ Counted
  /\ \E d \in Devices : probe' = [dev |-> d, pc |-> "lock"]
  /\ UNCHANGED <<state, step, target, configVars, cap, gen, captureVars, late, inUse, holder,
                 cache>>

\* Defect: the probe looks at the lock but does not hold it.
ProbeLocks_Unheld ==
  /\ probe.pc = "lock" /\ holder[probe.dev] = None
  /\ \/ /\ inUse[probe.dev] # None \/ probe.dev \in cache
        /\ probe' = [probe EXCEPT !.pc = "idle"]
     \/ inUse[probe.dev] = None /\ probe' = [probe EXCEPT !.pc = "probing"]
  /\ UNCHANGED <<state, step, target, configVars, cap, gen, captureVars, late, inUse, holder,
                 cache, ops>>

\* Under the device's lock: a held device is not touched, a fresh cache entry is
\* enough, and only otherwise is the device opened.
ProbeLocks ==
  /\ probe.pc = "lock" /\ holder[probe.dev] = None
  /\ \/ /\ inUse[probe.dev] # None \/ probe.dev \in cache
        /\ probe' = [probe EXCEPT !.pc = "idle"] /\ UNCHANGED holder
     \/ /\ inUse[probe.dev] = None
        /\ probe' = [probe EXCEPT !.pc = "probing"]
        /\ holder' = [holder EXCEPT ![probe.dev] = "probe"]
  /\ UNCHANGED <<state, step, target, configVars, cap, gen, captureVars, late, inUse,
                 cache, ops>>

ProbeEnds ==
  /\ probe.pc = "probing"
  /\ probe' = [probe EXCEPT !.pc = "idle"]
  /\ cache' \in {cache, cache \cup {probe.dev}}
  /\ holder' = [d \in Devices |-> IF holder[d] = "probe" THEN None ELSE holder[d]]
  /\ UNCHANGED <<state, step, target, configVars, cap, gen, captureVars, late, inUse,
                 ops>>

CameraNext ==
  \/ \E c \in Cams : \/ Start(c) \/ Stop(c) \/ TakeLock(c) \/ CloseBegins(c) \/ Closed(c)
                     \/ Opens(c) \/ OpenFails(c)
                     \/ CaptureReads(c) \/ CaptureStores(c)
                     \/ \E t \in Configs : Reconfigure(c, t)
  \/ Probe \/ ProbeLocks \/ ProbeEnds

CameraSpec == CameraInit /\ [][CameraNext]_cVars

-----------------------------------------------------------------------------
\* Between an instance's close and its reopen no probe grabs the device
\* (camera.py:182-183), so a restore never fails for that reason.
ProbeKeepsAway ==
  \A c \in Cams : step[c] \in {"close", "join", "open", "restore"} =>
    ~(probe.pc = "probing" /\ probe.dev \in Wanted(c))

\* A device that is not being opened or closed is in _devices_in_use exactly
\* while an instance has it open, with the mode that instance delivers.
InUseIsTrue ==
  \A d \in Devices : holder[d] = None =>
    \/ inUse[d] = None /\ \A c \in Cams : cap[c] # d
    \/ \E c \in Cams : cap[c] = d /\ inUse[d] = config[c].mode /\ config[c].dev = d

\* The frame that is published is of the mode in force, and only one thread
\* reads it, unless a capture thread outlived its join.
FramesAreCurrent ==
  \A c \in Cams \ late :
    /\ latest[c] \in {0, gen[c]} /\ Cardinality(captures[c]) <= 1
    /\ state[c] = "absent" => captures[c] = {} /\ latest[c] = 0

\* A running instance between two operations has its device open and a thread
\* reading it; one that lost it is errored.
RunningMeansOpen ==
  \A c \in Cams : step[c] = "idle" =>
    /\ state[c] = "running" => cap[c] = config[c].dev /\ Reader(c) # {}
    /\ state[c] # "running" => cap[c] = NoDevice

\* Two instances that exchange their devices do not wait for each other.
NoLockCycle ==
  ~ \E c, x \in Cams :
      /\ c # x /\ step[c] = "locks" /\ step[x] = "locks"
      /\ \E d \in Wanted(c), e \in Wanted(x) : holder[d] = x /\ holder[e] = c

CamerasAreSound ==
  ProbeKeepsAway /\ InUseIsTrue /\ FramesAreCurrent /\ RunningMeansOpen /\ NoLockCycle

=============================================================================
