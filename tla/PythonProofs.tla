---------------------------- MODULE PythonProofs ------------------------------
(*****************************************************************************)
(* The invariants of MCPython, for every value of its constants: the         *)
(* inductive invariant of each driver, which is more than the property the   *)
(* run checks, and then the process, in which one of them takes each step.   *)
(*****************************************************************************)
EXTENDS MCPython, FiniteSetTheorems, SequenceTheorems, WellFoundedInduction, TLAPS

-----------------------------------------------------------------------------
(*****************************************************************************)
(* The camera instances.  A lock belongs to the operation that wants its     *)
(* device, in the order of the devices; an open device is the one of the     *)
(* configuration and nobody else's; and an instance that no thread outlived  *)
(* has at most the thread of its last open.                                  *)
(*****************************************************************************)
HeldIsWanted ==
  \A d \in Devices, c \in Cams : holder[d] = c => step[c] # "idle" /\ d \in Camera!Wanted(c)

HeldInOrder ==
  \A d \in Devices, c \in Cams :
    holder[d] = c /\ step[c] = "locks" => \A x \in Camera!Wanted(c) : x < d => holder[x] = c

AllIsHeld ==
  \A c \in Cams : step[c] \in {"close", "join", "open", "restore"} =>
    \A d \in Camera!Wanted(c) : holder[d] = c

ProbeHolds ==
  \A d \in Devices : holder[d] = "probe" <=> probe.pc = "probing" /\ probe.dev = d

LocksAreWanted == HeldIsWanted /\ HeldInOrder /\ AllIsHeld /\ ProbeHolds

StepsOfStates ==
  \A c \in Cams :
    /\ step[c] = "idle" => state[c] \in {"absent", "running", "errored"}
    /\ step[c] # "idle" => state[c] \in {"starting", "running", "stopping"}
    /\ step[c] \in {"close", "join"} => state[c] # "starting"
    /\ step[c] = "open" => state[c] # "stopping"
    /\ step[c] = "restore" => state[c] = "running"

OpenIsOwn ==
  /\ \A c \in Cams : cap[c] \in {Camera!NoDevice, config[c].dev}
  /\ \A c, x \in Cams : cap[c] = cap[x] /\ cap[c] # Camera!NoDevice => c = x
  /\ \A c \in Cams : cap[c] # Camera!NoDevice => inUse[cap[c]] = config[c].mode
  /\ \A d \in Devices : (\A c \in Cams : cap[c] # d) => inUse[d] = Camera!None

OpenWhileRunning ==
  \A c \in Cams :
    /\ state[c] = "running" /\ step[c] \in {"idle", "locks", "close"} =>
         cap[c] # Camera!NoDevice /\ ~stops[c] /\ Camera!Reader(c) # {}
    /\ state[c] \in {"absent", "starting", "errored"} => cap[c] = Camera!NoDevice
    /\ step[c] \in {"open", "restore"} => cap[c] = Camera!NoDevice

OneReader ==
  \A c \in Cams \ cameraLate :
    /\ cameraLatest[c] \in {0, gen[c]}
    /\ \A t \in captures[c] : t.gen = gen[c]
    /\ \A t, u \in captures[c] : t = u
    /\ step[c] \in {"open", "restore"} \/ state[c] \in {"absent", "starting", "errored"} =>
         captures[c] = {} /\ cameraLatest[c] = 0

CameraInv == Camera!CameraTypeOK /\ LocksAreWanted /\ StepsOfStates /\ OpenIsOwn
    /\ OpenWhileRunning /\ OneReader

LEMMA CameraStarts == Camera!CameraInit => CameraInv
<1> SUFFICES ASSUME Camera!CameraInit PROVE CameraInv
  OBVIOUS
<1> USE CameraAssumption
<1>1. Camera!Default \in Camera!Configs
  <2>1. \E cfg \in Camera!Configs : cfg.mode \in StartModes
    <3>1. PICK d \in Devices, m \in StartModes : TRUE
      OBVIOUS
    <3>2. [dev |-> d, mode |-> m] \in Camera!Configs
      BY <3>1 DEF Camera!Configs
    <3> QED BY <3>2
  <2> QED BY <2>1 DEF Camera!Default
<1>2. Camera!Default.dev \in Devices
  BY <1>1 DEF Camera!Configs
<1>3. Camera!CameraTypeOK
  BY <1>1, <1>2 DEF Camera!CameraInit, Camera!CameraTypeOK, Camera!OpSteps
<1>4. LocksAreWanted
  BY DEF Camera!CameraInit, LocksAreWanted, HeldIsWanted, HeldInOrder, AllIsHeld, ProbeHolds,
       Camera!None
<1>5. StepsOfStates
  BY DEF Camera!CameraInit, StepsOfStates
<1>6. OpenIsOwn
  BY DEF Camera!CameraInit, OpenIsOwn
<1>7. OpenWhileRunning /\ OneReader
  BY DEF Camera!CameraInit, OpenWhileRunning, OneReader
<1> QED BY <1>3, <1>4, <1>5, <1>6, <1>7 DEF CameraInv

\* A capture thread goes on, or ends because it was told to.
LEMMA ThreadMoves ==
  ASSUME Camera!CameraTypeOK, NEW c \in Cams, Camera!CaptureReads(c) \/ Camera!CaptureStores(c)
  PROVE  /\ captures' \in [Cams -> SUBSET [gen : Nat, pc : {"read", "got"}]]
         /\ \A x \in Cams \ {c} : captures'[x] = captures[x]
         /\ \E t \in captures[c] :
              \/ stops[c] /\ captures'[c] = captures[c] \ {t}
              \/ \E p \in {"read", "got"} : captures'[c] = (captures[c] \ {t}) \cup {[gen |-> t.gen, pc |-> p]}
<1>1. PICK t \in captures[c] : t.pc \in {"read", "got"}
    /\ (Camera!Moves(c, t, "got") \/ Camera!NextRead(c, t))
  BY DEF Camera!CaptureReads, Camera!CaptureStores
<1>2. t \in [gen : Nat, pc : {"read", "got"}]
  BY DEF Camera!CameraTypeOK
<1>3. CASE stops[c] /\ Camera!NextRead(c, t)
  BY <1>3 DEF Camera!NextRead, Camera!CameraTypeOK
<1>4. ASSUME NEW p \in {"read", "got"}, Camera!Moves(c, t, p)
    PROVE captures' = [captures EXCEPT ![c] = (@ \ {t}) \cup {[gen |-> t.gen, pc |-> p]}]
  <2>1. [t EXCEPT !.pc = p] = [gen |-> t.gen, pc |-> p]
    BY <1>2
  <2> QED BY <1>4, <2>1 DEF Camera!Moves
<1>5. CASE \E p \in {"read", "got"} : Camera!Moves(c, t, p)
  <2>1. PICK p \in {"read", "got"} : Camera!Moves(c, t, p)
    BY <1>5
  <2>2. captures' = [captures EXCEPT ![c] = (captures[c] \ {t}) \cup {[gen |-> t.gen, pc |-> p]}]
    BY <1>4, <2>1
  <2>3. captures'[c] = (captures[c] \ {t}) \cup {[gen |-> t.gen, pc |-> p]}
    BY <2>2 DEF Camera!CameraTypeOK
  <2>4. [gen |-> t.gen, pc |-> p] \in [gen : Nat, pc : {"read", "got"}]
    BY <1>2
  <2>5. captures' \in [Cams -> SUBSET [gen : Nat, pc : {"read", "got"}]]
    BY <2>2, <2>4 DEF Camera!CameraTypeOK
  <2> QED BY <2>2, <2>3, <2>5 DEF Camera!CameraTypeOK
<1> QED BY <1>1, <1>3, <1>5 DEF Camera!NextRead

LEMMA NegotiatedAre ==
  ASSUME NEW cfg \in Camera!Configs
  PROVE  /\ Camera!Negotiated(cfg) \subseteq Camera!Configs
         /\ \A g \in Camera!Negotiated(cfg) : g.mode \in CameraModes
<1>1. ASSUME NEW m \in CameraModes
      PROVE  [cfg EXCEPT !.mode = m] \in Camera!Configs /\ [cfg EXCEPT !.mode = m].mode = m
  BY DEF Camera!Configs
<1> QED BY <1>1 DEF Camera!Negotiated

LEMMA CameraTypeSteps == Camera!CameraTypeOK /\ [Camera!CameraNext]_cameraVars
    => Camera!CameraTypeOK'
<1> SUFFICES ASSUME Camera!CameraTypeOK, [Camera!CameraNext]_cameraVars PROVE Camera!CameraTypeOK'
  OBVIOUS
<1> USE CameraAssumption DEF Camera!CameraTypeOK, Camera!OpSteps
<1>1. CASE UNCHANGED cameraVars
  BY <1>1 DEF cameraVars
<1>2. ASSUME NEW c \in Cams, Camera!Start(c) PROVE Camera!CameraTypeOK'
  BY <1>2 DEF Camera!Start, Camera!Counted, Camera!probeVars
<1>3. ASSUME NEW c \in Cams, Camera!Stop(c) PROVE Camera!CameraTypeOK'
  BY <1>3 DEF Camera!Stop, Camera!Counted, Camera!configVars, Camera!captureVars,
       Camera!probeVars
<1>4. ASSUME NEW c \in Cams, Camera!TakeLock(c) PROVE Camera!CameraTypeOK'
  BY <1>4 DEF Camera!TakeLock, Camera!configVars, Camera!captureVars, Camera!probeVars,
       Camera!Wanted, Camera!Configs
<1>5. ASSUME NEW c \in Cams, Camera!CloseBegins(c) PROVE Camera!CameraTypeOK'
  BY <1>5 DEF Camera!CloseBegins, Camera!configVars, Camera!probeVars
<1>6. ASSUME NEW c \in Cams, Camera!Closed(c) PROVE Camera!CameraTypeOK'
  <2>1. config[c].dev \in Devices
    BY DEF Camera!Configs
  <2>2. inUse' \in [Devices -> CameraModes \cup {Camera!None}] /\ cameraLate' \subseteq Cams
        /\ cap' \in [Cams -> Devices \cup {Camera!NoDevice}] /\ cameraLatest' \in [Cams -> Nat]
    BY <1>6, <2>1 DEF Camera!Closed
  <2>3. state' \in [Cams -> {"absent", "starting", "running", "errored", "stopping"}]
        /\ step' \in [Cams -> Camera!OpSteps]
           /\ holder' \in [Devices -> Cams \cup {"probe", Camera!None}]
    <3>1. CASE state[c] = "stopping"
      BY <1>6, <3>1 DEF Camera!Closed, Camera!Unlocked
    <3>2. CASE state[c] # "stopping"
      BY <1>6, <3>2 DEF Camera!Closed
    <3> QED BY <3>1, <3>2
  <2> QED BY <1>6, <2>2, <2>3 DEF Camera!Closed, Camera!configVars, Camera!probeVars
<1>7. ASSUME NEW c \in Cams, Camera!Opens(c) PROVE Camera!CameraTypeOK'
  <2>1. Camera!Asked(c) \in Camera!Configs /\ Camera!Asked(c).dev \in Devices
    BY DEF Camera!Asked, Camera!Configs
  <2>2. Camera!Negotiated(Camera!Asked(c)) \subseteq Camera!Configs
      /\ \A g \in Camera!Negotiated(Camera!Asked(c)) : g.mode \in CameraModes
    BY <2>1, NegotiatedAre
  <2>3. config' \in [Cams -> Camera!Configs]
      /\ inUse' \in [Devices -> CameraModes \cup {Camera!None}]
    BY <1>7, <2>1, <2>2 DEF Camera!Opens
  <2>4. cameraTarget' \in [Cams -> Camera!Configs] /\ requested' \in [Cams -> Camera!Configs]
        /\ cap' \in [Cams -> Devices \cup {Camera!NoDevice}]
    BY <1>7, <2>1, <2>3 DEF Camera!Opens
  <2>5. gen' \in [Cams -> Nat] /\ captures' \in [Cams -> SUBSET [gen : Nat, pc : {"read", "got"}]]
    BY <1>7 DEF Camera!Opens
  <2>6. holder' \in [Devices -> Cams \cup {"probe", Camera!None}]
    BY <1>7 DEF Camera!Opens, Camera!Unlocked
  <2>7. state' \in [Cams -> {"absent", "starting", "running", "errored", "stopping"}]
        /\ step' \in [Cams -> Camera!OpSteps] /\ stops' \in [Cams -> BOOLEAN]
    BY <1>7 DEF Camera!Opens
  <2> QED BY <1>7, <2>3, <2>4, <2>5, <2>6, <2>7 DEF Camera!Opens, Camera!probeVars
<1>8. ASSUME NEW c \in Cams, Camera!OpenFails(c) PROVE Camera!CameraTypeOK'
  <2>1. holder' \in [Devices -> Cams \cup {"probe", Camera!None}]
    BY <1>8 DEF Camera!OpenFails, Camera!Unlocked
  <2>2. state' \in [Cams -> {"absent", "starting", "running", "errored", "stopping"}]
        /\ step' \in [Cams -> Camera!OpSteps]
    BY <1>8 DEF Camera!OpenFails
  <2> QED BY <1>8, <2>1, <2>2 DEF Camera!OpenFails, Camera!configVars, Camera!captureVars,
       Camera!probeVars
<1>9. ASSUME NEW c \in Cams, Camera!CaptureReads(c) PROVE Camera!CameraTypeOK'
  BY <1>9, ThreadMoves DEF Camera!CaptureReads, Camera!configVars, Camera!probeVars
<1>10. ASSUME NEW c \in Cams, Camera!CaptureStores(c) PROVE Camera!CameraTypeOK'
  <2>1. cameraLatest' \in [Cams -> Nat]
    BY <1>10 DEF Camera!CaptureStores
  <2> QED BY <1>10, <2>1, ThreadMoves DEF Camera!CaptureStores, Camera!configVars,
       Camera!probeVars
<1>11. ASSUME NEW c \in Cams, NEW t \in Camera!Configs, Camera!Reconfigure(c, t)
    PROVE Camera!CameraTypeOK'
  BY <1>11 DEF Camera!Reconfigure, Camera!Counted, Camera!configVars, Camera!captureVars,
       Camera!probeVars
<1>12. CASE Camera!Probe
  BY <1>12 DEF Camera!Probe, Camera!Counted, Camera!configVars, Camera!captureVars
<1>13. CASE Camera!ProbeLocks
  BY <1>13 DEF Camera!ProbeLocks, Camera!configVars, Camera!captureVars
<1>14. CASE Camera!ProbeEnds
  BY <1>14 DEF Camera!ProbeEnds, Camera!configVars, Camera!captureVars
<1> QED
  BY <1>1, <1>2, <1>3, <1>4, <1>5, <1>6, <1>7, <1>8, <1>9, <1>10, <1>11, <1>12, <1>13,
       <1>14 DEF Camera!CameraNext

\* A step of one instance, or of the probe, that keeps the locks of the others.
LEMMA OthersKeepLocks ==
  ASSUME CameraInv, NEW c,
         \A x \in Cams \ {c} : step'[x] = step[x] /\ config'[x] = config[x]
             /\ cameraTarget'[x] = cameraTarget[x],
         \A d \in Devices, x \in Cams \ {c} : holder'[d] = x <=> holder[d] = x,
         \/ step'[c] = "idle"
         \/ /\ step[c] \in {"close", "join", "open", "restore"} /\ step'[c] # "locks"
            /\ config'[c] = config[c] /\ cameraTarget'[c] = cameraTarget[c] /\ holder' = holder
         \/ c \notin Cams
  PROVE  HeldInOrder' /\ AllIsHeld'
<1>1. \A x \in Cams : Camera!Wanted(x) \subseteq Devices
  BY DEF Camera!Wanted, CameraInv, Camera!CameraTypeOK, Camera!Configs
<1>2. \A x \in Cams \ {c} : Camera!Wanted(x)' = Camera!Wanted(x)
  BY DEF Camera!Wanted
<1>3. ASSUME NEW d \in Devices, NEW x \in Cams, holder'[d] = x, step'[x] = "locks",
             NEW y \in Camera!Wanted(x)', y < d
      PROVE  holder'[y] = x
  <2>1. x # c
    BY <1>3
  <2>2. y \in Camera!Wanted(x) /\ y \in Devices
    BY <2>1, <1>1, <1>2, <1>3
  <2> QED BY <2>1, <2>2, <1>3 DEF CameraInv, LocksAreWanted, HeldInOrder
<1>4. ASSUME NEW x \in Cams, step'[x] \in {"close", "join", "open", "restore"},
    NEW d \in Camera!Wanted(x)'
      PROVE  holder'[d] = x
  <2>1. CASE x # c
    BY <2>1, <1>1, <1>2, <1>4 DEF CameraInv, LocksAreWanted, AllIsHeld
  <2>2. CASE x = c
    BY <2>2, <1>4 DEF CameraInv, LocksAreWanted, AllIsHeld, Camera!Wanted
  <2> QED BY <2>1, <2>2
<1> QED BY <1>3, <1>4 DEF HeldInOrder, AllIsHeld

\* Locks.
LEMMA LocksStay == CameraInv /\ [Camera!CameraNext]_cameraVars => LocksAreWanted'
<1> SUFFICES ASSUME CameraInv, [Camera!CameraNext]_cameraVars PROVE LocksAreWanted'
  OBVIOUS
<1> USE CameraAssumption DEF CameraInv
<1>t. Camera!CameraTypeOK'
  BY CameraTypeSteps
<1>1. CASE UNCHANGED cameraVars
  BY <1>1 DEF cameraVars, LocksAreWanted, HeldIsWanted, HeldInOrder, AllIsHeld, ProbeHolds,
       Camera!Wanted
<1>2. ASSUME NEW c \in Cams, Camera!Start(c) PROVE LocksAreWanted'
  BY <1>2 DEF Camera!Start, Camera!Counted, Camera!probeVars, LocksAreWanted, HeldIsWanted,
       HeldInOrder, AllIsHeld, ProbeHolds, Camera!Wanted, Camera!CameraTypeOK
<1>3. ASSUME NEW c \in Cams, Camera!Stop(c) PROVE LocksAreWanted'
  BY <1>3 DEF Camera!Stop, Camera!Counted, Camera!configVars, Camera!captureVars,
       Camera!probeVars, LocksAreWanted, HeldIsWanted, HeldInOrder, AllIsHeld, ProbeHolds,
       Camera!Wanted, Camera!CameraTypeOK
<1>4. ASSUME NEW c \in Cams, Camera!TakeLock(c) PROVE LocksAreWanted'
  BY <1>4, <1>t DEF Camera!TakeLock, Camera!configVars, Camera!captureVars, Camera!probeVars,
       LocksAreWanted, HeldIsWanted, HeldInOrder, AllIsHeld, ProbeHolds, Camera!Wanted,
       Camera!CameraTypeOK, Camera!None
<1>5. ASSUME NEW c \in Cams, Camera!CloseBegins(c) PROVE LocksAreWanted'
  BY <1>5 DEF Camera!CloseBegins, Camera!configVars, Camera!probeVars, LocksAreWanted,
       HeldIsWanted, HeldInOrder, AllIsHeld, ProbeHolds, Camera!Wanted, Camera!CameraTypeOK
<1>6. ASSUME NEW c \in Cams, Camera!Closed(c) PROVE LocksAreWanted'
  <2>1. HeldIsWanted'
    BY <1>6, <1>t DEF Camera!Closed, Camera!configVars, Camera!probeVars, Camera!Unlocked,
         Camera!Wanted, Camera!CameraTypeOK, Camera!None, LocksAreWanted, HeldIsWanted,
         HeldInOrder, AllIsHeld, ProbeHolds
  <2>2. HeldInOrder' /\ AllIsHeld'
    <3>1. \A x \in Cams \ {c} : step'[x] = step[x] /\ config'[x] = config[x]
        /\ cameraTarget'[x] = cameraTarget[x]
      BY <1>6 DEF Camera!Closed, Camera!configVars, Camera!probeVars, Camera!Unlocked,
           Camera!CameraTypeOK, Camera!None
    <3>2. \A d \in Devices, x \in Cams \ {c} : holder'[d] = x <=> holder[d] = x
      BY <1>6 DEF Camera!Closed, Camera!configVars, Camera!probeVars, Camera!Unlocked,
           Camera!CameraTypeOK, Camera!None
    <3>3. \/ step'[c] = "idle"
          \/ /\ step[c] \in {"close", "join", "open", "restore"} /\ step'[c] # "locks"
             /\ config'[c] = config[c] /\ cameraTarget'[c] = cameraTarget[c] /\ holder' = holder
      BY <1>6 DEF Camera!Closed, Camera!configVars, Camera!probeVars, Camera!Unlocked,
           Camera!CameraTypeOK, Camera!None
    <3> HIDE DEF CameraInv
    <3> QED BY <3>1, <3>2, <3>3, OthersKeepLocks
  <2>4. ProbeHolds'
    BY <1>6, <1>t DEF Camera!Closed, Camera!configVars, Camera!probeVars, Camera!Unlocked,
         Camera!Wanted, Camera!CameraTypeOK, Camera!None, LocksAreWanted, HeldIsWanted,
         HeldInOrder, AllIsHeld, ProbeHolds
  <2> QED BY <2>1, <2>2, <2>4 DEF LocksAreWanted
<1>7. ASSUME NEW c \in Cams, Camera!Opens(c) PROVE LocksAreWanted'
  <2>1. HeldIsWanted'
    BY <1>7, <1>t DEF Camera!Opens, Camera!probeVars, Camera!Unlocked, Camera!Wanted,
         Camera!CameraTypeOK, Camera!None, LocksAreWanted, HeldIsWanted, HeldInOrder,
         AllIsHeld, ProbeHolds
  <2>2. HeldInOrder' /\ AllIsHeld'
    <3>1. \A x \in Cams \ {c} : step'[x] = step[x] /\ config'[x] = config[x]
        /\ cameraTarget'[x] = cameraTarget[x]
      BY <1>7 DEF Camera!Opens, Camera!probeVars, Camera!Unlocked, Camera!CameraTypeOK,
           Camera!None
    <3>2. \A d \in Devices, x \in Cams \ {c} : holder'[d] = x <=> holder[d] = x
      BY <1>7 DEF Camera!Opens, Camera!probeVars, Camera!Unlocked, Camera!CameraTypeOK,
           Camera!None
    <3>3. \/ step'[c] = "idle"
          \/ /\ step[c] \in {"close", "join", "open", "restore"} /\ step'[c] # "locks"
             /\ config'[c] = config[c] /\ cameraTarget'[c] = cameraTarget[c] /\ holder' = holder
      BY <1>7 DEF Camera!Opens, Camera!probeVars, Camera!Unlocked, Camera!CameraTypeOK,
           Camera!None
    <3> HIDE DEF CameraInv
    <3> QED BY <3>1, <3>2, <3>3, OthersKeepLocks
  <2>4. ProbeHolds'
    BY <1>7, <1>t DEF Camera!Opens, Camera!probeVars, Camera!Unlocked, Camera!Wanted,
         Camera!CameraTypeOK, Camera!None, LocksAreWanted, HeldIsWanted, HeldInOrder,
         AllIsHeld, ProbeHolds
  <2> QED BY <2>1, <2>2, <2>4 DEF LocksAreWanted
<1>8. ASSUME NEW c \in Cams, Camera!OpenFails(c) PROVE LocksAreWanted'
  <2>1. HeldIsWanted'
    BY <1>8, <1>t DEF Camera!OpenFails, Camera!configVars, Camera!captureVars,
         Camera!probeVars, Camera!Unlocked, Camera!Wanted, Camera!CameraTypeOK, Camera!None,
         LocksAreWanted, HeldIsWanted, HeldInOrder, AllIsHeld, ProbeHolds
  <2>2. HeldInOrder' /\ AllIsHeld'
    <3>1. \A x \in Cams \ {c} : step'[x] = step[x] /\ config'[x] = config[x]
        /\ cameraTarget'[x] = cameraTarget[x]
      BY <1>8 DEF Camera!OpenFails, Camera!configVars, Camera!captureVars, Camera!probeVars,
           Camera!Unlocked, Camera!CameraTypeOK, Camera!None
    <3>2. \A d \in Devices, x \in Cams \ {c} : holder'[d] = x <=> holder[d] = x
      BY <1>8 DEF Camera!OpenFails, Camera!configVars, Camera!captureVars, Camera!probeVars,
           Camera!Unlocked, Camera!CameraTypeOK, Camera!None
    <3>3. \/ step'[c] = "idle"
          \/ /\ step[c] \in {"close", "join", "open", "restore"} /\ step'[c] # "locks"
             /\ config'[c] = config[c] /\ cameraTarget'[c] = cameraTarget[c] /\ holder' = holder
      BY <1>8 DEF Camera!OpenFails, Camera!configVars, Camera!captureVars, Camera!probeVars,
           Camera!Unlocked, Camera!CameraTypeOK, Camera!None
    <3> HIDE DEF CameraInv
    <3> QED BY <3>1, <3>2, <3>3, OthersKeepLocks
  <2>4. ProbeHolds'
    BY <1>8, <1>t DEF Camera!OpenFails, Camera!configVars, Camera!captureVars,
         Camera!probeVars, Camera!Unlocked, Camera!Wanted, Camera!CameraTypeOK, Camera!None,
         LocksAreWanted, HeldIsWanted, HeldInOrder, AllIsHeld, ProbeHolds
  <2> QED BY <2>1, <2>2, <2>4 DEF LocksAreWanted
<1>9. ASSUME NEW c \in Cams, Camera!CaptureReads(c) PROVE LocksAreWanted'
  BY <1>9 DEF Camera!CaptureReads, Camera!configVars, Camera!probeVars, LocksAreWanted,
       HeldIsWanted, HeldInOrder, AllIsHeld, ProbeHolds, Camera!Wanted
<1>10. ASSUME NEW c \in Cams, Camera!CaptureStores(c) PROVE LocksAreWanted'
  BY <1>10 DEF Camera!CaptureStores, Camera!configVars, Camera!probeVars, LocksAreWanted,
       HeldIsWanted, HeldInOrder, AllIsHeld, ProbeHolds, Camera!Wanted
<1>11. ASSUME NEW c \in Cams, NEW t \in Camera!Configs, Camera!Reconfigure(c, t)
    PROVE LocksAreWanted'
  BY <1>11 DEF Camera!Reconfigure, Camera!Counted, Camera!configVars, Camera!captureVars,
       Camera!probeVars, LocksAreWanted, HeldIsWanted, HeldInOrder, AllIsHeld, ProbeHolds,
       Camera!Wanted, Camera!CameraTypeOK
<1>12. CASE Camera!Probe
  BY <1>12 DEF Camera!Probe, Camera!Counted, Camera!configVars, Camera!captureVars,
       LocksAreWanted, HeldIsWanted, HeldInOrder, AllIsHeld, ProbeHolds, Camera!Wanted,
       Camera!CameraTypeOK
<1>13. CASE Camera!ProbeLocks
  <2>1. HeldIsWanted'
    BY <1>13, <1>t DEF Camera!ProbeLocks, Camera!configVars, Camera!captureVars,
         Camera!Wanted, Camera!CameraTypeOK, Camera!None, LocksAreWanted, HeldIsWanted,
         HeldInOrder, AllIsHeld, ProbeHolds
  <2>2. HeldInOrder' /\ AllIsHeld'
    <3>1. \A x \in Cams : step'[x] = step[x] /\ config'[x] = config[x]
        /\ cameraTarget'[x] = cameraTarget[x]
      BY <1>13 DEF Camera!ProbeLocks, Camera!configVars, Camera!captureVars,
           Camera!CameraTypeOK, Camera!None
    <3>2. \A d \in Devices, x \in Cams : holder'[d] = x <=> holder[d] = x
      BY <1>13 DEF Camera!ProbeLocks, Camera!configVars, Camera!captureVars,
           Camera!CameraTypeOK, Camera!None
    <3> HIDE DEF CameraInv
    <3> QED BY <3>1, <3>2, OthersKeepLocks
  <2>4. ProbeHolds'
    BY <1>13, <1>t DEF Camera!ProbeLocks, Camera!configVars, Camera!captureVars,
         Camera!Wanted, Camera!CameraTypeOK, Camera!None, LocksAreWanted, HeldIsWanted,
         HeldInOrder, AllIsHeld, ProbeHolds
  <2> QED BY <2>1, <2>2, <2>4 DEF LocksAreWanted
<1>14. CASE Camera!ProbeEnds
  <2>1. HeldIsWanted'
    BY <1>14, <1>t DEF Camera!ProbeEnds, Camera!configVars, Camera!captureVars, Camera!Wanted,
         Camera!CameraTypeOK, Camera!None, LocksAreWanted, HeldIsWanted, HeldInOrder,
         AllIsHeld, ProbeHolds
  <2>2. HeldInOrder' /\ AllIsHeld'
    <3>1. \A x \in Cams : step'[x] = step[x] /\ config'[x] = config[x]
        /\ cameraTarget'[x] = cameraTarget[x]
      BY <1>14 DEF Camera!ProbeEnds, Camera!configVars, Camera!captureVars,
           Camera!CameraTypeOK, Camera!None
    <3>2. \A d \in Devices, x \in Cams : holder'[d] = x <=> holder[d] = x
      BY <1>14 DEF Camera!ProbeEnds, Camera!configVars, Camera!captureVars,
           Camera!CameraTypeOK, Camera!None
    <3> HIDE DEF CameraInv
    <3> QED BY <3>1, <3>2, OthersKeepLocks
  <2>4. ProbeHolds'
    BY <1>14, <1>t DEF Camera!ProbeEnds, Camera!configVars, Camera!captureVars, Camera!Wanted,
         Camera!CameraTypeOK, Camera!None, LocksAreWanted, HeldIsWanted, HeldInOrder,
         AllIsHeld, ProbeHolds
  <2> QED BY <2>1, <2>2, <2>4 DEF LocksAreWanted
<1> QED
  BY <1>1, <1>2, <1>3, <1>4, <1>5, <1>6, <1>7, <1>8, <1>9, <1>10, <1>11, <1>12, <1>13,
       <1>14 DEF Camera!CameraNext
\* States and steps.
LEMMA StepsStay == CameraInv /\ [Camera!CameraNext]_cameraVars => StepsOfStates'
<1> SUFFICES ASSUME CameraInv, [Camera!CameraNext]_cameraVars PROVE StepsOfStates'
  OBVIOUS
<1> USE CameraAssumption DEF CameraInv
<1>t. Camera!CameraTypeOK'
  BY CameraTypeSteps
<1>1. CASE UNCHANGED cameraVars
  BY <1>1 DEF cameraVars, StepsOfStates
<1>2. ASSUME NEW c \in Cams, Camera!Start(c) PROVE StepsOfStates'
  BY <1>2 DEF Camera!Start, Camera!Counted, Camera!probeVars, Camera!CameraTypeOK, StepsOfStates
<1>3. ASSUME NEW c \in Cams, Camera!Stop(c) PROVE StepsOfStates'
  BY <1>3 DEF Camera!Stop, Camera!Counted, Camera!configVars, Camera!captureVars,
       Camera!probeVars, Camera!CameraTypeOK, StepsOfStates
<1>4. ASSUME NEW c \in Cams, Camera!TakeLock(c) PROVE StepsOfStates'
  BY <1>4 DEF Camera!TakeLock, Camera!configVars, Camera!captureVars, Camera!probeVars,
       Camera!CameraTypeOK, StepsOfStates, OpenWhileRunning
<1>5. ASSUME NEW c \in Cams, Camera!CloseBegins(c) PROVE StepsOfStates'
  BY <1>5 DEF Camera!CloseBegins, Camera!configVars, Camera!probeVars, Camera!CameraTypeOK,
       StepsOfStates
<1>6. ASSUME NEW c \in Cams, Camera!Closed(c) PROVE StepsOfStates'
  BY <1>6 DEF Camera!Closed, Camera!configVars, Camera!probeVars, Camera!CameraTypeOK,
       StepsOfStates
<1>7. ASSUME NEW c \in Cams, Camera!Opens(c) PROVE StepsOfStates'
  BY <1>7 DEF Camera!Opens, Camera!probeVars, Camera!CameraTypeOK, StepsOfStates
<1>8. ASSUME NEW c \in Cams, Camera!OpenFails(c) PROVE StepsOfStates'
  BY <1>8 DEF Camera!OpenFails, Camera!configVars, Camera!captureVars, Camera!probeVars,
       Camera!CameraTypeOK, StepsOfStates
<1>9. ASSUME NEW c \in Cams, Camera!CaptureReads(c) PROVE StepsOfStates'
  BY <1>9 DEF Camera!CaptureReads, Camera!configVars, Camera!probeVars, Camera!CameraTypeOK,
       StepsOfStates
<1>10. ASSUME NEW c \in Cams, Camera!CaptureStores(c) PROVE StepsOfStates'
  BY <1>10 DEF Camera!CaptureStores, Camera!configVars, Camera!probeVars, Camera!CameraTypeOK,
       StepsOfStates
<1>11. ASSUME NEW c \in Cams, NEW t \in Camera!Configs, Camera!Reconfigure(c, t)
    PROVE StepsOfStates'
  BY <1>11 DEF Camera!Reconfigure, Camera!Counted, Camera!configVars, Camera!captureVars,
       Camera!probeVars, Camera!CameraTypeOK, StepsOfStates
<1>12. CASE Camera!Probe
  BY <1>12 DEF Camera!Probe, Camera!Counted, Camera!configVars, Camera!captureVars,
       StepsOfStates
<1>13. CASE Camera!ProbeLocks
  BY <1>13 DEF Camera!ProbeLocks, Camera!configVars, Camera!captureVars, StepsOfStates
<1>14. CASE Camera!ProbeEnds
  BY <1>14 DEF Camera!ProbeEnds, Camera!configVars, Camera!captureVars, StepsOfStates
<1> QED
  BY <1>1, <1>2, <1>3, <1>4, <1>5, <1>6, <1>7, <1>8, <1>9, <1>10, <1>11, <1>12, <1>13,
       <1>14 DEF Camera!CameraNext

\* Open devices.
LEMMA OwnStays == CameraInv /\ [Camera!CameraNext]_cameraVars => OpenIsOwn'
<1> SUFFICES ASSUME CameraInv, [Camera!CameraNext]_cameraVars PROVE OpenIsOwn'
  OBVIOUS
<1> USE CameraAssumption DEF CameraInv
<1>t. Camera!CameraTypeOK'
  BY CameraTypeSteps
<1>1. CASE UNCHANGED cameraVars
  BY <1>1 DEF cameraVars, OpenIsOwn
<1>2. ASSUME NEW c \in Cams, Camera!Start(c) PROVE OpenIsOwn'
  BY <1>2 DEF Camera!Start, Camera!Counted, Camera!probeVars, Camera!CameraTypeOK, OpenIsOwn,
       OpenWhileRunning
<1>3. ASSUME NEW c \in Cams, Camera!Stop(c) PROVE OpenIsOwn'
  BY <1>3 DEF Camera!Stop, Camera!Counted, Camera!configVars, Camera!captureVars,
       Camera!probeVars, Camera!CameraTypeOK, OpenIsOwn
<1>4. ASSUME NEW c \in Cams, Camera!TakeLock(c) PROVE OpenIsOwn'
  BY <1>4 DEF Camera!TakeLock, Camera!configVars, Camera!captureVars, Camera!probeVars,
       Camera!CameraTypeOK, OpenIsOwn
<1>5. ASSUME NEW c \in Cams, Camera!CloseBegins(c) PROVE OpenIsOwn'
  BY <1>5 DEF Camera!CloseBegins, Camera!configVars, Camera!probeVars, Camera!CameraTypeOK,
       OpenIsOwn
<1>6. ASSUME NEW c \in Cams, Camera!Closed(c) PROVE OpenIsOwn'
  BY <1>6 DEF Camera!Closed, Camera!configVars, Camera!probeVars, Camera!CameraTypeOK, OpenIsOwn
<1>7. ASSUME NEW c \in Cams, Camera!Opens(c) PROVE OpenIsOwn'
  <2> DEFINE a == Camera!Asked(c)
  <2>1. a \in Camera!Configs /\ a.dev \in Devices
    BY DEF Camera!Asked, Camera!Configs, Camera!CameraTypeOK
  <2>2. PICK delivered \in Camera!Negotiated(a) : config' = [config EXCEPT ![c] = delivered]
                                                /\ inUse' = [inUse EXCEPT ![a.dev] = delivered.mode]
    BY <1>7 DEF Camera!Opens
  <2>3. delivered.dev = a.dev
    BY <2>1, <2>2 DEF Camera!Negotiated, Camera!Configs
  <2>4. cap' = [cap EXCEPT ![c] = a.dev] /\ \A x \in Cams : cap[x] # a.dev
    BY <1>7 DEF Camera!Opens, Camera!Streaming
  <2>5. cap[c] = Camera!NoDevice /\ a.dev # Camera!NoDevice
    BY <1>7, <2>1 DEF Camera!Opens, OpenWhileRunning, Camera!NoDevice
  <2>6. config'[c] = delivered /\ cap'[c] = a.dev /\ inUse'[a.dev] = delivered.mode
        /\ \A x \in Cams \ {c} : config'[x] = config[x] /\ cap'[x] = cap[x]
        /\ \A d \in Devices \ {a.dev} : inUse'[d] = inUse[d]
    BY <2>1, <2>2, <2>4 DEF Camera!CameraTypeOK
  <2> HIDE DEF a
  <2>7. \A x \in Cams \ {c} : cap[x] # a.dev /\ cap[x] \in {Camera!NoDevice, config[x].dev}
    BY <2>4 DEF OpenIsOwn
  <2>8. \A x \in Cams : cap[x] \in Devices \cup {Camera!NoDevice}
    BY DEF Camera!CameraTypeOK
  <2>9. \A x \in Cams : cap'[x] # Camera!NoDevice => inUse'[cap'[x]] = config'[x].mode
    <3> SUFFICES ASSUME NEW x \in Cams, cap'[x] # Camera!NoDevice
        PROVE inUse'[cap'[x]] = config'[x].mode
      OBVIOUS
    <3>1. CASE x = c
      BY <2>6, <3>1
    <3>2. CASE x # c
      <4>1. cap'[x] = cap[x] /\ cap[x] \in Devices \ {a.dev} /\ config'[x] = config[x]
        BY <2>6, <2>7, <2>8, <3>2
      <4>2. inUse'[cap[x]] = inUse[cap[x]] /\ inUse[cap[x]] = config[x].mode
        BY <2>6, <4>1 DEF OpenIsOwn
      <4> QED BY <4>1, <4>2
    <3> QED BY <3>1, <3>2
  <2>10. \A d \in Devices : (\A x \in Cams : cap'[x] # d) => inUse'[d] = Camera!None
    <3>1. \A d \in Devices : d # Camera!NoDevice
      BY DEF Camera!NoDevice
    <3> SUFFICES ASSUME NEW d \in Devices, \A x \in Cams : cap'[x] # d PROVE inUse'[d] = Camera!None
      OBVIOUS
    <3>2. d # a.dev
      BY <2>6
    <3>3. \A x \in Cams : cap[x] # d
      BY <2>5, <2>6, <3>1
    <3>4. inUse[d] = Camera!None
      BY <3>3 DEF OpenIsOwn
    <3>5. inUse'[d] = inUse[d]
      BY <2>2, <3>2 DEF Camera!CameraTypeOK
    <3> QED BY <3>4, <3>5
  <2>11. \A x \in Cams : cap'[x] \in {Camera!NoDevice, config'[x].dev}
    BY <2>3, <2>6, <2>7
  <2>12. \A x, y \in Cams : cap'[x] = cap'[y] /\ cap'[x] # Camera!NoDevice => x = y
    BY <2>6, <2>7 DEF OpenIsOwn
  <2> QED BY <2>9, <2>10, <2>11, <2>12 DEF OpenIsOwn
<1>8. ASSUME NEW c \in Cams, Camera!OpenFails(c) PROVE OpenIsOwn'
  BY <1>8 DEF Camera!OpenFails, Camera!configVars, Camera!captureVars, Camera!probeVars,
       Camera!CameraTypeOK, OpenIsOwn
<1>9. ASSUME NEW c \in Cams, Camera!CaptureReads(c) PROVE OpenIsOwn'
  BY <1>9 DEF Camera!CaptureReads, Camera!configVars, Camera!probeVars, Camera!CameraTypeOK,
       OpenIsOwn
<1>10. ASSUME NEW c \in Cams, Camera!CaptureStores(c) PROVE OpenIsOwn'
  BY <1>10 DEF Camera!CaptureStores, Camera!configVars, Camera!probeVars, Camera!CameraTypeOK,
       OpenIsOwn
<1>11. ASSUME NEW c \in Cams, NEW t \in Camera!Configs, Camera!Reconfigure(c, t) PROVE OpenIsOwn'
  BY <1>11 DEF Camera!Reconfigure, Camera!Counted, Camera!configVars, Camera!captureVars,
       Camera!probeVars, Camera!CameraTypeOK, OpenIsOwn
<1>12. CASE Camera!Probe
  BY <1>12 DEF Camera!Probe, Camera!Counted, Camera!configVars, Camera!captureVars, OpenIsOwn
<1>13. CASE Camera!ProbeLocks
  BY <1>13 DEF Camera!ProbeLocks, Camera!configVars, Camera!captureVars, OpenIsOwn
<1>14. CASE Camera!ProbeEnds
  BY <1>14 DEF Camera!ProbeEnds, Camera!configVars, Camera!captureVars, OpenIsOwn
<1> QED
  BY <1>1, <1>2, <1>3, <1>4, <1>5, <1>6, <1>7, <1>8, <1>9, <1>10, <1>11, <1>12, <1>13,
       <1>14 DEF Camera!CameraNext

\* Instances that run.
LEMMA RunningStays == CameraInv /\ [Camera!CameraNext]_cameraVars => OpenWhileRunning'
<1> SUFFICES ASSUME CameraInv, [Camera!CameraNext]_cameraVars PROVE OpenWhileRunning'
  OBVIOUS
<1> USE CameraAssumption DEF CameraInv
<1>t. Camera!CameraTypeOK'
  BY CameraTypeSteps
<1>1. CASE UNCHANGED cameraVars
  BY <1>1 DEF cameraVars, OpenWhileRunning, StepsOfStates, Camera!Reader
<1>2. ASSUME NEW c \in Cams, Camera!Start(c) PROVE OpenWhileRunning'
  BY <1>2 DEF Camera!Start, Camera!Counted, Camera!probeVars, Camera!CameraTypeOK,
       OpenWhileRunning, StepsOfStates, Camera!Reader
<1>3. ASSUME NEW c \in Cams, Camera!Stop(c) PROVE OpenWhileRunning'
  BY <1>3 DEF Camera!Stop, Camera!Counted, Camera!configVars, Camera!captureVars,
       Camera!probeVars, Camera!CameraTypeOK, OpenWhileRunning, StepsOfStates, Camera!Reader
<1>4. ASSUME NEW c \in Cams, Camera!TakeLock(c) PROVE OpenWhileRunning'
  BY <1>4 DEF Camera!TakeLock, Camera!configVars, Camera!captureVars, Camera!probeVars,
       Camera!CameraTypeOK, OpenWhileRunning, StepsOfStates, Camera!Reader
<1>5. ASSUME NEW c \in Cams, Camera!CloseBegins(c) PROVE OpenWhileRunning'
  BY <1>5 DEF Camera!CloseBegins, Camera!configVars, Camera!probeVars, Camera!CameraTypeOK,
       OpenWhileRunning, StepsOfStates, Camera!Reader
<1>6. ASSUME NEW c \in Cams, Camera!Closed(c) PROVE OpenWhileRunning'
  BY <1>6 DEF Camera!Closed, Camera!configVars, Camera!probeVars, Camera!CameraTypeOK,
       OpenWhileRunning, StepsOfStates, Camera!Reader
<1>7. ASSUME NEW c \in Cams, Camera!Opens(c) PROVE OpenWhileRunning'
  <2>1. Camera!Asked(c) \in Camera!Configs /\ Camera!Asked(c).dev \in Devices
    BY DEF Camera!Asked, Camera!Configs, Camera!CameraTypeOK
  <2>2. cap'[c] # Camera!NoDevice /\ ~stops'[c] /\ state'[c] = "running" /\ step'[c] = "idle"
    BY <1>7, <2>1 DEF Camera!Opens, Camera!CameraTypeOK, Camera!NoDevice
  <2>3. [gen |-> gen[c] + 1, pc |-> "read"] \in captures'[c] /\ gen'[c] = gen[c] + 1
    BY <1>7 DEF Camera!Opens, Camera!CameraTypeOK
  <2>4. Camera!Reader(c)' # {}
    BY <2>3 DEF Camera!Reader
  <2>5. \A x \in Cams \ {c} : /\ cap'[x] = cap[x] /\ stops'[x] = stops[x] /\ state'[x] = state[x]
                              /\ step'[x] = step[x] /\ Camera!Reader(x)' = Camera!Reader(x)
    BY <1>7 DEF Camera!Opens, Camera!CameraTypeOK, Camera!Reader
  <2> QED BY <2>2, <2>4, <2>5 DEF OpenWhileRunning
<1>8. ASSUME NEW c \in Cams, Camera!OpenFails(c) PROVE OpenWhileRunning'
  BY <1>8 DEF Camera!OpenFails, Camera!configVars, Camera!captureVars, Camera!probeVars,
       Camera!CameraTypeOK, OpenWhileRunning, StepsOfStates, Camera!Reader
<1>9. ASSUME NEW c \in Cams, Camera!CaptureReads(c) PROVE OpenWhileRunning'
  <2>1. PICK t \in captures[c] :
           \/ stops[c] /\ captures'[c] = captures[c] \ {t}
           \/ \E p \in {"read", "got"} : captures'[c] = (captures[c] \ {t}) \cup {[gen |-> t.gen,
                                                                                   pc |-> p]}
    BY <1>9, ThreadMoves
  <2>2. gen' = gen /\ stops' = stops /\ state' = state /\ step' = step /\ cap' = cap
    BY <1>9 DEF Camera!CaptureReads, Camera!configVars, Camera!probeVars
  <2>3. \A x \in Cams \ {c} : Camera!Reader(x)' = Camera!Reader(x)
    BY <1>9, <2>2, ThreadMoves DEF Camera!Reader
  <2>4. ~stops[c] /\ Camera!Reader(c) # {} => Camera!Reader(c)' # {}
    <3> SUFFICES ASSUME ~stops[c], NEW r \in captures[c], r.gen = gen[c]
        PROVE Camera!Reader(c)' # {}
      BY DEF Camera!Reader
    <3>1. CASE r # t
      BY <2>1, <2>2, <3>1 DEF Camera!Reader
    <3>2. CASE r = t
      <4>1. PICK p : captures'[c] = (captures[c] \ {t}) \cup {[gen |-> t.gen, pc |-> p]}
        BY <2>1
      <4>2. [gen |-> t.gen, pc |-> p].gen = gen'[c]
        BY <2>2, <3>2
      <4> QED BY <4>1, <4>2 DEF Camera!Reader
    <3> QED BY <3>1, <3>2
  <2> QED BY <2>2, <2>3, <2>4 DEF OpenWhileRunning
<1>10. ASSUME NEW c \in Cams, Camera!CaptureStores(c) PROVE OpenWhileRunning'
  <2>1. PICK t \in captures[c] :
           \/ stops[c] /\ captures'[c] = captures[c] \ {t}
           \/ \E p \in {"read", "got"} : captures'[c] = (captures[c] \ {t}) \cup {[gen |-> t.gen,
                                                                                   pc |-> p]}
    BY <1>10, ThreadMoves
  <2>2. gen' = gen /\ stops' = stops /\ state' = state /\ step' = step /\ cap' = cap
    BY <1>10 DEF Camera!CaptureStores, Camera!configVars, Camera!probeVars
  <2>3. \A x \in Cams \ {c} : Camera!Reader(x)' = Camera!Reader(x)
    BY <1>10, <2>2, ThreadMoves DEF Camera!Reader
  <2>4. ~stops[c] /\ Camera!Reader(c) # {} => Camera!Reader(c)' # {}
    <3> SUFFICES ASSUME ~stops[c], NEW r \in captures[c], r.gen = gen[c]
        PROVE Camera!Reader(c)' # {}
      BY DEF Camera!Reader
    <3>1. CASE r # t
      BY <2>1, <2>2, <3>1 DEF Camera!Reader
    <3>2. CASE r = t
      <4>1. PICK p : captures'[c] = (captures[c] \ {t}) \cup {[gen |-> t.gen, pc |-> p]}
        BY <2>1
      <4>2. [gen |-> t.gen, pc |-> p].gen = gen'[c]
        BY <2>2, <3>2
      <4> QED BY <4>1, <4>2 DEF Camera!Reader
    <3> QED BY <3>1, <3>2
  <2> QED BY <2>2, <2>3, <2>4 DEF OpenWhileRunning
<1>11. ASSUME NEW c \in Cams, NEW t \in Camera!Configs, Camera!Reconfigure(c, t)
    PROVE OpenWhileRunning'
  BY <1>11 DEF Camera!Reconfigure, Camera!Counted, Camera!configVars, Camera!captureVars,
       Camera!probeVars, Camera!CameraTypeOK, OpenWhileRunning, StepsOfStates, Camera!Reader
<1>12. CASE Camera!Probe
  BY <1>12 DEF Camera!Probe, Camera!Counted, Camera!configVars, Camera!captureVars,
       OpenWhileRunning, StepsOfStates, Camera!Reader
<1>13. CASE Camera!ProbeLocks
  BY <1>13 DEF Camera!ProbeLocks, Camera!configVars, Camera!captureVars, OpenWhileRunning,
       StepsOfStates, Camera!Reader
<1>14. CASE Camera!ProbeEnds
  BY <1>14 DEF Camera!ProbeEnds, Camera!configVars, Camera!captureVars, OpenWhileRunning,
       StepsOfStates, Camera!Reader
<1> QED
  BY <1>1, <1>2, <1>3, <1>4, <1>5, <1>6, <1>7, <1>8, <1>9, <1>10, <1>11, <1>12, <1>13,
       <1>14 DEF Camera!CameraNext

\* Capture threads.
LEMMA ReaderStays == CameraInv /\ [Camera!CameraNext]_cameraVars => OneReader'
<1> SUFFICES ASSUME CameraInv, [Camera!CameraNext]_cameraVars PROVE OneReader'
  OBVIOUS
<1> USE CameraAssumption DEF CameraInv
<1>t. Camera!CameraTypeOK'
  BY CameraTypeSteps
<1>1. CASE UNCHANGED cameraVars
  BY <1>1 DEF cameraVars, OneReader, StepsOfStates
<1>2. ASSUME NEW c \in Cams, Camera!Start(c) PROVE OneReader'
  BY <1>2 DEF Camera!Start, Camera!Counted, Camera!probeVars, Camera!CameraTypeOK, OneReader,
       StepsOfStates
<1>3. ASSUME NEW c \in Cams, Camera!Stop(c) PROVE OneReader'
  BY <1>3 DEF Camera!Stop, Camera!Counted, Camera!configVars, Camera!captureVars,
       Camera!probeVars, Camera!CameraTypeOK, OneReader, StepsOfStates
<1>4. ASSUME NEW c \in Cams, Camera!TakeLock(c) PROVE OneReader'
  BY <1>4 DEF Camera!TakeLock, Camera!configVars, Camera!captureVars, Camera!probeVars,
       Camera!CameraTypeOK, OneReader, StepsOfStates
<1>5. ASSUME NEW c \in Cams, Camera!CloseBegins(c) PROVE OneReader'
  BY <1>5 DEF Camera!CloseBegins, Camera!configVars, Camera!probeVars, Camera!CameraTypeOK,
       OneReader, StepsOfStates
<1>6. ASSUME NEW c \in Cams, Camera!Closed(c) PROVE OneReader'
  <2>1. c \notin cameraLate' => c \notin cameraLate /\ captures[c] = {}
    BY <1>6 DEF Camera!Closed, OneReader, Camera!Reader
  <2>2. cameraLatest'[c] = 0 /\ captures' = captures /\ gen' = gen
      /\ cameraLate \subseteq cameraLate'
    BY <1>6 DEF Camera!Closed, Camera!CameraTypeOK
  <2>3. \A x \in Cams \ {c} : cameraLatest'[x] = cameraLatest[x] /\ state'[x] = state[x]
      /\ step'[x] = step[x]
    BY <1>6 DEF Camera!Closed, Camera!CameraTypeOK
  <2> QED BY <2>1, <2>2, <2>3 DEF OneReader
<1>7. ASSUME NEW c \in Cams, Camera!Opens(c) PROVE OneReader'
  BY <1>7 DEF Camera!Opens, Camera!probeVars, Camera!CameraTypeOK, OneReader, StepsOfStates
<1>8. ASSUME NEW c \in Cams, Camera!OpenFails(c) PROVE OneReader'
  BY <1>8 DEF Camera!OpenFails, Camera!configVars, Camera!captureVars, Camera!probeVars,
       Camera!CameraTypeOK, OneReader, StepsOfStates
<1>9. ASSUME NEW c \in Cams, Camera!CaptureReads(c) PROVE OneReader'
  BY <1>9, ThreadMoves DEF Camera!CaptureReads, Camera!configVars, Camera!probeVars,
       Camera!CameraTypeOK, OneReader, StepsOfStates
<1>10. ASSUME NEW c \in Cams, Camera!CaptureStores(c) PROVE OneReader'
  <2>1. PICK t \in captures[c] : t.pc = "got" /\ cameraLatest' = [cameraLatest EXCEPT ![c] = t.gen]
      /\ Camera!NextRead(c, t)
    BY <1>10 DEF Camera!CaptureStores
  <2>2. gen' = gen /\ cameraLate' = cameraLate /\ state' = state /\ step' = step
    BY <1>10 DEF Camera!CaptureStores, Camera!configVars, Camera!probeVars
  <2>3. cameraLatest'[c] = t.gen /\ \A x \in Cams \ {c} : cameraLatest'[x] = cameraLatest[x]
    BY <2>1 DEF Camera!CameraTypeOK
  <2>4. captures[c] # {}
    BY <2>1
  <2> QED BY <1>10, <2>2, <2>3, <2>4, ThreadMoves DEF OneReader
<1>11. ASSUME NEW c \in Cams, NEW t \in Camera!Configs, Camera!Reconfigure(c, t) PROVE OneReader'
  BY <1>11 DEF Camera!Reconfigure, Camera!Counted, Camera!configVars, Camera!captureVars,
       Camera!probeVars, Camera!CameraTypeOK, OneReader, StepsOfStates
<1>12. CASE Camera!Probe
  BY <1>12 DEF Camera!Probe, Camera!Counted, Camera!configVars, Camera!captureVars, OneReader,
       StepsOfStates
<1>13. CASE Camera!ProbeLocks
  BY <1>13 DEF Camera!ProbeLocks, Camera!configVars, Camera!captureVars, OneReader,
       StepsOfStates
<1>14. CASE Camera!ProbeEnds
  BY <1>14 DEF Camera!ProbeEnds, Camera!configVars, Camera!captureVars, OneReader, StepsOfStates
<1> QED
  BY <1>1, <1>2, <1>3, <1>4, <1>5, <1>6, <1>7, <1>8, <1>9, <1>10, <1>11, <1>12, <1>13,
       <1>14 DEF Camera!CameraNext

LEMMA CameraSteps == CameraInv /\ [Camera!CameraNext]_cameraVars => CameraInv'
BY CameraTypeSteps, LocksStay, StepsStay, OwnStays, RunningStays, ReaderStays DEF CameraInv

LEMMA CameraCardinality == \A S : Camera!Cardinality(S) = Cardinality(S)
BY DEF Cardinality, Camera!Cardinality

LEMMA CameraHolds == CameraInv => Camera!CamerasAreSound
<1> SUFFICES ASSUME CameraInv PROVE Camera!CamerasAreSound
  OBVIOUS
<1> USE CameraAssumption DEF CameraInv
<1>1. \A c \in Cams : Camera!Wanted(c) \subseteq Devices
  BY DEF Camera!Wanted, Camera!CameraTypeOK, Camera!Configs
<1>2. Camera!ProbeKeepsAway
  BY <1>1 DEF Camera!ProbeKeepsAway, LocksAreWanted, AllIsHeld, ProbeHolds
<1>3. Camera!InUseIsTrue
  BY DEF Camera!InUseIsTrue, OpenIsOwn, Camera!CameraTypeOK, Camera!NoDevice
<1>4. Camera!FramesAreCurrent
  <2> SUFFICES ASSUME NEW c \in Cams \ cameraLate
               PROVE  /\ cameraLatest[c] \in {0, gen[c]} /\ Cardinality(captures[c]) <= 1
                      /\ state[c] = "absent" => captures[c] = {} /\ cameraLatest[c] = 0
    BY CameraCardinality DEF Camera!FramesAreCurrent
  <2>1. captures[c] = {} \/ \E t : captures[c] = {t}
    <3>1. \A t, u \in captures[c] : t = u
      BY DEF OneReader
    <3> QED BY <3>1
  <2>2. Cardinality(captures[c]) <= 1
    <3>1. CASE captures[c] = {}
      BY <3>1, FS_EmptySet
    <3>2. ASSUME NEW t, captures[c] = {t} PROVE Cardinality(captures[c]) <= 1
      <4>1. Cardinality({t}) = 1
        BY FS_Singleton
      <4> QED BY <3>2, <4>1
    <3> QED BY <2>1, <3>1, <3>2
  <2> QED BY <2>2 DEF OneReader
<1>5. Camera!RunningMeansOpen
  BY DEF Camera!RunningMeansOpen, OpenWhileRunning, OpenIsOwn, StepsOfStates
<1>6. Camera!NoLockCycle
  <2> SUFFICES ASSUME NEW c \in Cams, NEW x \in Cams, c # x, step[c] = "locks", step[x] = "locks",
                      NEW d \in Camera!Wanted(c), NEW e \in Camera!Wanted(x), holder[d] = x,
                          holder[e] = c
               PROVE  FALSE
    BY DEF Camera!NoLockCycle
  <2>1. d \in Camera!Wanted(x) /\ e \in Camera!Wanted(c) /\ d \in Nat /\ e \in Nat /\ d # e
    BY <1>1 DEF LocksAreWanted, HeldIsWanted
  <2>2. CASE d < e
    BY <1>1, <2>1, <2>2 DEF LocksAreWanted, HeldInOrder
  <2>3. CASE e < d
    BY <1>1, <2>1, <2>3 DEF LocksAreWanted, HeldInOrder
  <2> QED BY <2>1, <2>2, <2>3
<1> QED BY <1>2, <1>3, <1>4, <1>5, <1>6 DEF Camera!CamerasAreSound

-----------------------------------------------------------------------------
(*****************************************************************************)
(* Microphone and voice detection.  Each sample is in one place of the path  *)
(* from the callback to the scores, and while no worker outlived its stream  *)
(* the places hold older samples the further they are down the path.         *)
(*****************************************************************************)
LiveWorkers == [rate : Rates, queue : Seq(Audio!Blocks), item : Audio!Blocks, closed : BOOLEAN]
Detectors == [rate : Rates \cup {Audio!None}, pending : Seq(Audio!Samples), item : Audio!Blocks,
              checked : BOOLEAN]
Microphones == [state : {"running", "errored", "stopped"}, rate : Rates, previous : Rates,
                step : {Audio!Idle, "stop", "join", "open", "restore"}]

TrueBlock(b, c) == b \in Audio!Blocks /\ b.id \in 1..Len(c) /\ b.rate = c[b.id]
TrueSample(s, c) == s \in Audio!Samples /\ s.block \in 1..Len(c) /\ c[s.block] = ModelRate
TrueWorker(w, c) ==
  /\ w \in LiveWorkers /\ Len(w.queue) <= MicQueue /\ (w.closed => w.queue = <<>>)
  /\ \A i \in DOMAIN w.queue : TrueBlock(w.queue[i], c) /\ w.queue[i].rate = w.rate
  /\ w.item # Audio!NoBlock => TrueBlock(w.item, c) /\ w.item.rate = w.rate

MicHalf ==
  /\ mic \in Microphones /\ stream \in BOOLEAN /\ audioLate \in BOOLEAN /\ reopens \in 0..MaxReopens
  /\ captured \in Seq(Rates) /\ Len(captured) <= MaxBlocks
  /\ \A w \in audioWorkers : TrueWorker(w, captured)
  /\ \A w, v \in audioWorkers : ~w.closed /\ ~v.closed => w = v
  /\ stream <=> \E w \in audioWorkers : ~w.closed
  /\ mic.step = Audio!Idle /\ mic.state = "running" => stream
  /\ mic.step \in {"join", "open", "restore"} => ~stream
  /\ audioLate \/ \A w, v \in audioWorkers : w = v
  /\ mic.step \in {"open", "restore"} => audioLate \/ audioWorkers = {}

VadHalf ==
  /\ inbox \in Seq(Audio!Blocks) /\ Len(inbox) <= VadQueue
  /\ \A i \in DOMAIN inbox : TrueBlock(inbox[i], captured)
  /\ vad \in Detectors
  /\ vad.item # Audio!NoBlock => TrueBlock(vad.item, captured)
     /\ (vad.checked => vad.rate = vad.item.rate)
  /\ Len(vad.pending) < Chunk /\ \A i \in DOMAIN vad.pending : TrueSample(vad.pending[i], captured)
  /\ vad.pending # <<>> => vad.rate = ModelRate
  /\ scored \in Seq(Audio!Samples) /\ Len(scored) <= 2 * Chunk
  /\ \A i \in DOMAIN scored : TrueSample(scored[i], captured)
  /\ resets \in 0..MaxResets

Ascends(s) == \A i, j \in 1..Len(s) : i < j => Audio!Before(s[i], s[j])
Rising(q) == \A i, j \in 1..Len(q) : i < j => q[i].id < q[j].id
Older(s, n) == \A i \in 1..Len(s) : s[i].block < n

\* Everything down the path from the queue, the worker, the inbox.
PastScores(sc, v, n) == Older(sc, n) /\ Older(v.pending, n)
PastDetector(sc, v, n) == PastScores(sc, v, n) /\ (v.item # Audio!NoBlock => v.item.id < n)
PastInbox(sc, v, box, n) == PastDetector(sc, v, n) /\ \A i \in 1..Len(box) : box[i].id < n

WorkerInOrder(sc, v, box, w) ==
  /\ w.item # Audio!NoBlock => PastInbox(sc, v, box, w.item.id)
  /\ \A i \in 1..Len(w.queue) : /\ PastInbox(sc, v, box, w.queue[i].id)
                                /\ w.item # Audio!NoBlock => w.item.id < w.queue[i].id
  /\ Rising(w.queue)

DetectorInOrder(sc, v, box) ==
  /\ Ascends(sc) /\ Ascends(v.pending)
  /\ \A i \in 1..Len(sc), j \in 1..Len(v.pending) : Audio!Before(sc[i], v.pending[j])
  /\ v.item # Audio!NoBlock => PastScores(sc, v, v.item.id)
  /\ \A i \in 1..Len(box) : PastDetector(sc, v, box[i].id)
  /\ Rising(box)

InOrder == DetectorInOrder(scored, vad, inbox)
    /\ \A w \in audioWorkers : WorkerInOrder(scored, vad, inbox, w)

AudioInv == MicHalf /\ VadHalf /\ (audioLate \/ InOrder)

-----------------------------------------------------------------------------
LEMMA AudioStarts == Audio!AudioInit => AudioInv
<1> SUFFICES ASSUME Audio!AudioInit PROVE AudioInv
  OBVIOUS
<1> USE AudioAssumption
<1>1. /\ mic = [state |-> "running", rate |-> ModelRate, previous |-> ModelRate,
                step |-> Audio!Idle]
      /\ stream = TRUE /\ audioWorkers = {Audio!NewWorker(ModelRate)}
      /\ captured = <<>> /\ audioLate = FALSE /\ inbox = <<>>
      /\ vad = [rate |-> Audio!None, pending |-> <<>>, item |-> Audio!NoBlock, checked |-> FALSE]
      /\ scored = <<>> /\ reopens = 0 /\ resets = 0
  BY DEF Audio!AudioInit
<1>2. Audio!NoBlock \in Audio!Blocks
  BY DEF Audio!NoBlock, Audio!Blocks
<1> PICK noSamples \in Seq(Audio!Samples) : noSamples = <<>>
  <2>1. <<>> \in Seq(Audio!Samples)
    OBVIOUS
  <2> QED BY <2>1
<1> PICK noBlocks \in Seq(Audio!Blocks) : noBlocks = <<>>
  <2>1. <<>> \in Seq(Audio!Blocks)
    OBVIOUS
  <2> QED BY <2>1
<1> PICK noRates \in Seq(Rates) : noRates = <<>>
  <2>1. <<>> \in Seq(Rates)
    OBVIOUS
  <2> QED BY <2>1
<1>3. Len(noSamples) = 0 /\ Len(noBlocks) = 0 /\ Len(noRates) = 0 /\ DOMAIN noSamples = {}
    /\ DOMAIN noBlocks = {}
  OBVIOUS
<1>4. PICK w \in LiveWorkers : /\ audioWorkers = {w} /\ w.queue = noBlocks
                                  /\ w.item = Audio!NoBlock /\ ~w.closed
  <2>1. Audio!NewWorker(ModelRate) = [rate |-> ModelRate, queue |-> noBlocks,
                                      item |-> Audio!NoBlock, closed |-> FALSE]
    BY DEF Audio!NewWorker
  <2>2. Audio!NewWorker(ModelRate) \in LiveWorkers
    BY <1>2, <2>1 DEF LiveWorkers
  <2>3. Audio!NewWorker(ModelRate).queue = noBlocks
      /\ Audio!NewWorker(ModelRate).item = Audio!NoBlock /\ ~Audio!NewWorker(ModelRate).closed
    BY <2>1
  <2> QED BY <1>1, <2>2, <2>3
<1>5. vad \in Detectors /\ vad.pending = noSamples /\ vad.item = Audio!NoBlock
  <2>1. vad = [rate |-> Audio!None, pending |-> noSamples, item |-> Audio!NoBlock,
               checked |-> FALSE]
    BY <1>1
  <2> QED BY <1>2, <2>1 DEF Detectors
<1>6. MicHalf
  <2>1. mic \in Microphones /\ mic.step = Audio!Idle
    BY <1>1 DEF Microphones
  <2>2. TrueWorker(w, captured)
    BY <1>3, <1>4 DEF TrueWorker
  <2>3. captured \in Seq(Rates) /\ Len(captured) = 0
    BY <1>1, <1>3
  <2>4. Len(captured) <= MaxBlocks /\ reopens \in 0..MaxReopens
    BY <1>1, <2>3
  <2>5. stream /\ stream \in BOOLEAN /\ ~audioLate /\ audioLate \in BOOLEAN
      /\ mic.step \notin {"join", "open", "restore"}
    BY <1>1, <2>1 DEF Audio!Idle
  <2>6. \A v \in audioWorkers : v = w
    BY <1>4
  <2> QED BY <1>4, <2>1, <2>2, <2>3, <2>4, <2>5, <2>6 DEF MicHalf
<1>7. VadHalf
  <2>1. inbox = noBlocks /\ scored = noSamples
    BY <1>1
  <2> QED BY <1>1, <1>3, <1>5, <2>1 DEF VadHalf
<1>8. InOrder
  <2>1. inbox = noBlocks /\ scored = noSamples
    BY <1>1
  <2> QED BY <1>3, <1>4, <1>5, <2>1 DEF InOrder, DetectorInOrder, WorkerInOrder, Ascends, Rising
<1> QED BY <1>6, <1>7, <1>8 DEF AudioInv

\* What the bounded queue holds after an offer: the new block, and old ones.
LEMMA OfferedKeeps ==
  ASSUME NEW q \in Seq(Audio!Blocks), NEW b \in Audio!Blocks, NEW size \in Nat \ {0}, Len(q) <= size
  PROVE  /\ Audio!Offered(q, b, size) \in Seq(Audio!Blocks)
            /\ Len(Audio!Offered(q, b, size)) <= size
         /\ \A i \in 1..Len(Audio!Offered(q, b, size)) :
              Audio!Offered(q, b, size)[i] = b
                  \/ \E j \in 1..Len(q) : Audio!Offered(q, b, size)[i] = q[j]
         /\ Rising(q) /\ (\A j \in 1..Len(q) : q[j].id < b.id) => Rising(Audio!Offered(q, b, size))
<1> PICK old : old = IF Len(q) >= size THEN Tail(q) ELSE q
  OBVIOUS
<1>1. PICK k \in {0, 1} : /\ old \in Seq(Audio!Blocks) /\ Len(old) = Len(q) - k /\ Len(old) < size
                          /\ \A i \in 1..Len(old) : old[i] = q[i + k]
  <2>1. CASE Len(q) >= size
    <3>1. q # <<>> /\ old = Tail(q)
      BY <2>1
    <3>2. Tail(q) \in Seq(Audio!Blocks) /\ Len(Tail(q)) = Len(q) - 1
      BY <3>1
    <3>3. \A i \in 1..Len(Tail(q)) : Tail(q)[i] = q[i + 1]
      BY <3>1, <3>2
    <3>4. Len(Tail(q)) < size /\ Len(Tail(q)) = Len(q) - 1
      BY <3>2
    <3> QED BY <3>1, <3>2, <3>3, <3>4
  <2>2. CASE ~(Len(q) >= size)
    <3>1. old = q /\ Len(q) \in Nat
      BY <2>2
    <3> QED BY <2>2, <3>1
  <2> QED BY <2>1, <2>2
<1> PICK new : new = Append(old, b)
  OBVIOUS
<1>2. Audio!Offered(q, b, size) = new
  BY DEF Audio!Offered
<1>3. new \in Seq(Audio!Blocks) /\ Len(new) = Len(old) + 1 /\ Len(old) \in Nat
    /\ new[Len(old) + 1] = b
      /\ \A i \in 1..Len(old) : new[i] = old[i]
  BY <1>1
<1>4. \A i \in 1..Len(new) : i \in 1..Len(old) \/ i = Len(old) + 1
  BY <1>3
<1>5. \A i \in 1..Len(old) : i + k \in 1..Len(q)
  BY <1>1
<1>6. ASSUME NEW i \in 1..Len(new) PROVE new[i] = b \/ \E j \in 1..Len(q) : new[i] = q[j]
  BY <1>1, <1>3, <1>4, <1>5, <1>6
<1>7. ASSUME Rising(q), \A j \in 1..Len(q) : q[j].id < b.id PROVE Rising(new)
  <2> SUFFICES ASSUME NEW i \in 1..Len(new), NEW j \in 1..Len(new), i < j
      PROVE new[i].id < new[j].id
    BY DEF Rising
  <2>1. i \in 1..Len(old)
    BY <1>3, <1>4
  <2>2. new[i] = q[i + k] /\ i + k \in 1..Len(q)
    BY <1>1, <1>3, <1>5, <2>1
  <2>3. CASE j = Len(old) + 1
    BY <1>3, <1>7, <2>2, <2>3
  <2>4. CASE j \in 1..Len(old)
    <3>1. new[j] = q[j + k] /\ j + k \in 1..Len(q) /\ i + k < j + k
      BY <1>1, <1>3, <1>5, <2>1, <2>4
    <3> QED BY <1>7, <2>2, <3>1 DEF Rising
  <2> QED BY <1>4, <2>3, <2>4
<1>8. Len(new) <= size
  BY <1>1, <1>3
<1> QED BY <1>2, <1>3, <1>6, <1>7, <1>8

LEMMA TailKeeps ==
  ASSUME NEW q \in Seq(Audio!Blocks), q # <<>>
  PROVE  /\ Head(q) \in Audio!Blocks /\ Head(q) = q[1] /\ 1 \in 1..Len(q)
         /\ Tail(q) \in Seq(Audio!Blocks) /\ Len(Tail(q)) = Len(q) - 1 /\ Len(q) \in Nat
         /\ \A i \in 1..Len(Tail(q)) : Tail(q)[i] = q[i + 1] /\ i + 1 \in 1..Len(q) /\ 1 < i + 1
         /\ Rising(q) => Rising(Tail(q)) /\ \A i \in 1..Len(Tail(q)) : Head(q).id < Tail(q)[i].id
<1>1. Head(q) \in Audio!Blocks /\ Head(q) = q[1] /\ 1 \in 1..Len(q) /\ Len(q) \in Nat
  OBVIOUS
<1>2. Tail(q) \in Seq(Audio!Blocks) /\ Len(Tail(q)) = Len(q) - 1
  OBVIOUS
<1>3. \A i \in 1..Len(Tail(q)) : Tail(q)[i] = q[i + 1]
  BY <1>2
<1>4. \A i \in 1..Len(Tail(q)) : i + 1 \in 1..Len(q) /\ 1 < i + 1
  BY <1>1, <1>2
<1>5. ASSUME Rising(q) PROVE Rising(Tail(q))
    /\ \A i \in 1..Len(Tail(q)) : Head(q).id < Tail(q)[i].id
  <2>1. \A i, j \in 1..Len(Tail(q)) : i < j => i + 1 < j + 1
    BY <1>1, <1>2
  <2>2. \A i \in 1..Len(Tail(q)) : Head(q).id < Tail(q)[i].id
    BY <1>1, <1>3, <1>4, <1>5 DEF Rising
  <2> QED BY <1>3, <1>4, <1>5, <2>1, <2>2 DEF Rising
<1> QED BY <1>1, <1>2, <1>3, <1>4, <1>5

LEMMA SameRate == ASSUME NEW b \in Audio!Blocks PROVE [b EXCEPT !.rate = b.rate] = b
BY DEF Audio!Blocks

-----------------------------------------------------------------------------
(* The microphone                                                           *)
LEMMA CapturedGrows ==
  ASSUME NEW c \in Seq(Rates), NEW r \in Rates
  PROVE  /\ Append(c, r) \in Seq(Rates) /\ Len(Append(c, r)) = Len(c) + 1 /\ Len(c) \in Nat
         /\ Append(c, r)[Len(c) + 1] = r
         /\ \A b : TrueBlock(b, c) => TrueBlock(b, Append(c, r))
         /\ \A s : TrueSample(s, c) => TrueSample(s, Append(c, r))
         /\ \A w : TrueWorker(w, c) => TrueWorker(w, Append(c, r))
<1> PICK d : d = Append(c, r)
  OBVIOUS
<1>1. d \in Seq(Rates) /\ Len(d) = Len(c) + 1 /\ Len(c) \in Nat /\ d[Len(c) + 1] = r
    /\ \A i \in 1..Len(c) : d[i] = c[i]
  OBVIOUS
<1>2. \A i \in 1..Len(c) : i \in 1..Len(d)
  BY <1>1
<1>3. \A b : TrueBlock(b, c) => TrueBlock(b, d)
  BY <1>1, <1>2 DEF TrueBlock
<1>4. \A s : TrueSample(s, c) => TrueSample(s, d)
  BY <1>1, <1>2 DEF TrueSample
<1>5. \A w : TrueWorker(w, c) => TrueWorker(w, d)
  BY <1>3 DEF TrueWorker
<1> QED BY <1>1, <1>3, <1>4, <1>5

LEMMA VadStays ==
  ASSUME VadHalf, UNCHANGED <<inbox, vad, scored, resets>>,
         UNCHANGED captured \/ \E r \in Rates : captured' = Append(captured, r),
         captured \in Seq(Rates)
  PROVE  VadHalf'
<1>1. \A b : TrueBlock(b, captured) => TrueBlock(b, captured')
  BY CapturedGrows
<1>2. \A s : TrueSample(s, captured) => TrueSample(s, captured')
  BY CapturedGrows
<1> QED BY <1>1, <1>2 DEF VadHalf

LEMMA OneWorkerChanges ==
  ASSUME MicHalf, NEW w \in audioWorkers, NEW v, Audio!Replace(w, v), v.closed = w.closed,
         TrueWorker(v, captured'), \A u \in audioWorkers : TrueWorker(u, captured'),
         captured' \in Seq(Rates), Len(captured') <= MaxBlocks,
         UNCHANGED <<mic, stream, audioLate, reopens>>
  PROVE  MicHalf'
<1>1. audioWorkers' = (audioWorkers \ {w}) \cup {v}
  BY DEF Audio!Replace
<1>2. /\ mic \in Microphones /\ stream \in BOOLEAN /\ audioLate \in BOOLEAN
         /\ reopens \in 0..MaxReopens
      /\ \A u, x \in audioWorkers : ~u.closed /\ ~x.closed => u = x
      /\ stream <=> \E u \in audioWorkers : ~u.closed
      /\ mic.step = Audio!Idle /\ mic.state = "running" => stream
      /\ mic.step \in {"join", "open", "restore"} => ~stream
      /\ audioLate \/ \A u, x \in audioWorkers : u = x
      /\ mic.step \in {"open", "restore"} => audioLate \/ audioWorkers = {}
  BY DEF MicHalf
<1>3. \A u \in audioWorkers' : TrueWorker(u, captured')
  BY <1>1
<1>4. \A u, x \in audioWorkers' : ~u.closed /\ ~x.closed => u = x
  BY <1>1, <1>2
<1>5. stream <=> \E u \in audioWorkers' : ~u.closed
  BY <1>1, <1>2
<1>6. audioLate \/ \A u, x \in audioWorkers' : u = x
  BY <1>1, <1>2
<1>7. mic.step \in {"open", "restore"} => audioLate \/ audioWorkers' = {}
  BY <1>1, <1>2
<1> QED BY <1>2, <1>3, <1>4, <1>5, <1>6, <1>7 DEF MicHalf

\* While no worker outlived its stream, the worker that changes is the only one.
LEMMA OnlyWorker ==
  ASSUME MicHalf, ~audioLate, NEW w \in audioWorkers, NEW v, Audio!Replace(w, v)
  PROVE  audioWorkers' = {v}
<1>1. \A u, x \in audioWorkers : u = x
  BY DEF MicHalf
<1> QED BY <1>1 DEF Audio!Replace

\* All that is on the path was captured.
LEMMA PathIsCaptured ==
  ASSUME MicHalf, VadHalf, NEW n \in Nat, n > Len(captured)
  PROVE  /\ PastInbox(scored, vad, inbox, n)
         /\ \A w \in audioWorkers : /\ w.item # Audio!NoBlock => w.item.id < n
                                    /\ \A i \in 1..Len(w.queue) : w.queue[i].id < n
<1> USE AudioAssumption
<1>1. captured \in Seq(Rates) /\ Len(captured) \in Nat
  BY DEF MicHalf
<1>2. \A b : TrueBlock(b, captured) => b.id < n
  BY <1>1 DEF TrueBlock
<1>3. \A s : TrueSample(s, captured) => s.block < n
  BY <1>1 DEF TrueSample
<1>4. Older(scored, n) /\ Older(vad.pending, n)
  <2>1. vad.pending \in Seq(Audio!Samples) /\ scored \in Seq(Audio!Samples)
    BY DEF VadHalf, Detectors
  <2> QED BY <1>3, <2>1 DEF VadHalf, Older
<1>5. \A i \in 1..Len(inbox) : inbox[i].id < n
  BY <1>2 DEF VadHalf
<1>6. vad.item # Audio!NoBlock => vad.item.id < n
  BY <1>2 DEF VadHalf
<1>7. ASSUME NEW w \in audioWorkers
      PROVE  (w.item # Audio!NoBlock => w.item.id < n)
             /\ \A i \in 1..Len(w.queue) : w.queue[i].id < n
  <2>1. TrueWorker(w, captured) /\ w.queue \in Seq(Audio!Blocks)
    BY DEF MicHalf, TrueWorker, LiveWorkers
  <2> QED BY <1>2, <2>1 DEF TrueWorker
<1> QED BY <1>4, <1>5, <1>6, <1>7 DEF PastInbox, PastDetector, PastScores

LEMMA CallbackStep == ASSUME AudioInv, Audio!Callback PROVE AudioInv'
<1> USE AudioAssumption
<1>1. PICK w \in audioWorkers :
        /\ ~w.closed /\ captured' = Append(captured, w.rate)
        /\ Audio!Replace(w, [w EXCEPT !.queue = Audio!Offered(w.queue, [id |-> Len(captured'),
                                                                        rate |-> w.rate],
                                                                            MicQueue)])
  BY DEF Audio!Callback
<1>2. UNCHANGED <<mic, stream, audioLate, reopens>> /\ UNCHANGED <<inbox, vad, scored, resets>>
    /\ Len(captured) < MaxBlocks
  BY DEF Audio!Callback, Audio!vadVars
<1>3. MicHalf /\ VadHalf /\ captured \in Seq(Rates) /\ TrueWorker(w, captured)
  BY DEF AudioInv, MicHalf
<1>4. w \in LiveWorkers /\ w.rate \in Rates /\ w.queue \in Seq(Audio!Blocks)
    /\ Len(w.queue) <= MicQueue
  BY <1>3 DEF TrueWorker, LiveWorkers
<1>5. captured' \in Seq(Rates) /\ Len(captured') = Len(captured) + 1 /\ Len(captured) \in Nat
      /\ captured'[Len(captured')] = w.rate
  BY <1>1, <1>3, <1>4, CapturedGrows
<1> PICK b : b = [id |-> Len(captured'), rate |-> w.rate]
  OBVIOUS
<1>6. b \in Audio!Blocks /\ TrueBlock(b, captured') /\ b.rate = w.rate /\ b.id = Len(captured) + 1
  <2>1. Len(captured') \in 0..MaxBlocks /\ Len(captured') \in 1..Len(captured')
    BY <1>2, <1>5
  <2>2. b \in Audio!Blocks
    BY <1>4, <2>1 DEF Audio!Blocks
  <2> QED BY <1>5, <2>1, <2>2 DEF TrueBlock
<1> PICK q : q = Audio!Offered(w.queue, b, MicQueue)
  OBVIOUS
<1>7. /\ q \in Seq(Audio!Blocks) /\ Len(q) <= MicQueue
      /\ \A i \in 1..Len(q) : q[i] = b \/ \E j \in 1..Len(w.queue) : q[i] = w.queue[j]
      /\ Rising(w.queue) /\ (\A j \in 1..Len(w.queue) : w.queue[j].id < b.id) => Rising(q)
  <2> PICK o : o = w.queue
    OBVIOUS
  <2>1. o \in Seq(Audio!Blocks) /\ Len(o) <= MicQueue /\ b \in Audio!Blocks /\ MicQueue \in Nat \ {0}
    BY <1>4, <1>6
  <2> HIDE AudioAssumption
  <2>2. /\ Audio!Offered(o, b, MicQueue) \in Seq(Audio!Blocks)
           /\ Len(Audio!Offered(o, b, MicQueue)) <= MicQueue
        /\ \A i \in 1..Len(Audio!Offered(o, b, MicQueue)) :
              Audio!Offered(o, b, MicQueue)[i] = b
                  \/ \E j \in 1..Len(o) : Audio!Offered(o, b, MicQueue)[i] = o[j]
        /\ Rising(o) /\ (\A j \in 1..Len(o) : o[j].id < b.id) => Rising(Audio!Offered(o, b, MicQueue))
    BY <2>1, OfferedKeeps
  <2> QED BY <2>2
<1> PICK v : v = [w EXCEPT !.queue = q]
  OBVIOUS
<1>8. Audio!Replace(w, v)
  BY <1>1
<1>9. v \in LiveWorkers /\ v.queue = q /\ v.closed = w.closed /\ v.item = w.item /\ v.rate = w.rate
  BY <1>4, <1>7 DEF LiveWorkers
<1>10. \A u \in audioWorkers : TrueWorker(u, captured')
  BY <1>1, <1>3, <1>4, CapturedGrows DEF MicHalf
<1>11. TrueWorker(v, captured')
  <2>1. \A i \in 1..Len(w.queue) : TrueBlock(w.queue[i], captured') /\ w.queue[i].rate = w.rate
    BY <1>4, <1>10 DEF TrueWorker
  <2>2. \A i \in DOMAIN q : TrueBlock(q[i], captured') /\ q[i].rate = w.rate
    <3>1. DOMAIN q = 1..Len(q)
      BY <1>7
    <3>2. TAKE i \in DOMAIN q
    <3>3. q[i] = b \/ \E j \in 1..Len(w.queue) : q[i] = w.queue[j]
      BY <1>7, <3>1
    <3>4. CASE q[i] = b
      BY <1>6, <3>4
    <3>5. CASE \E j \in 1..Len(w.queue) : q[i] = w.queue[j]
      BY <2>1, <3>5
    <3> QED BY <3>3, <3>4, <3>5
  <2> QED BY <1>1, <1>7, <1>9, <1>10, <2>2 DEF TrueWorker
<1>12. MicHalf'
  <2>1. Len(captured') <= MaxBlocks
    BY <1>2, <1>5
  <2> QED BY <1>2, <1>3, <1>5, <1>8, <1>9, <1>10, <1>11, <2>1, OneWorkerChanges
<1>13. VadHalf'
  <2>1. \E r \in Rates : captured' = Append(captured, r)
    BY <1>1, <1>4
  <2> QED BY <1>2, <1>3, <2>1, VadStays
<1>14. ASSUME ~audioLate PROVE InOrder'
  <2>1. InOrder /\ audioWorkers' = {v}
    BY <1>3, <1>8, <1>14, OnlyWorker DEF AudioInv
  <2>2. PastInbox(scored, vad, inbox, b.id) /\ (w.item # Audio!NoBlock => w.item.id < b.id)
        /\ \A i \in 1..Len(w.queue) : w.queue[i].id < b.id
    <3>1. b.id \in Nat /\ b.id > Len(captured)
      BY <1>5, <1>6
    <3> QED BY <1>3, <3>1, PathIsCaptured
  <2>3. WorkerInOrder(scored, vad, inbox, w)
    BY <2>1 DEF InOrder
  <2>4. Rising(q)
    BY <1>7, <2>2, <2>3 DEF WorkerInOrder
  <2>5. \A i \in 1..Len(q) : PastInbox(scored, vad, inbox, q[i].id)
      /\ (w.item # Audio!NoBlock => w.item.id < q[i].id)
    BY <1>7, <2>2, <2>3 DEF WorkerInOrder
  <2>6. WorkerInOrder(scored, vad, inbox, v)
    BY <1>9, <2>3, <2>4, <2>5 DEF WorkerInOrder
  <2> QED BY <1>2, <2>1, <2>6 DEF InOrder
<1> QED BY <1>2, <1>12, <1>13, <1>14 DEF AudioInv

LEMMA TakeStep == ASSUME AudioInv, Audio!Take PROVE AudioInv'
<1> USE AudioAssumption
<1>1. PICK w \in audioWorkers :
        /\ w.item = Audio!NoBlock /\ w.queue # <<>> /\ ~w.closed
        /\ Audio!Replace(w, [w EXCEPT !.item = Head(w.queue), !.queue = Tail(w.queue)])
  BY DEF Audio!Take
<1>2. UNCHANGED <<mic, stream, audioLate, reopens>> /\ UNCHANGED <<inbox, vad, scored, resets>>
    /\ UNCHANGED captured
  BY DEF Audio!Take, Audio!vadVars
<1>3. MicHalf /\ VadHalf /\ captured \in Seq(Rates) /\ Len(captured) <= MaxBlocks
    /\ TrueWorker(w, captured)
  BY DEF AudioInv, MicHalf
<1>4. w \in LiveWorkers /\ w.queue \in Seq(Audio!Blocks) /\ Len(w.queue) <= MicQueue
  BY <1>3 DEF TrueWorker, LiveWorkers
<1> PICK b, q : b = Head(w.queue) /\ q = Tail(w.queue)
  OBVIOUS
<1>5. /\ b \in Audio!Blocks /\ b = w.queue[1] /\ 1 \in 1..Len(w.queue)
      /\ q \in Seq(Audio!Blocks) /\ Len(q) = Len(w.queue) - 1 /\ Len(w.queue) \in Nat
      /\ \A i \in 1..Len(q) : q[i] = w.queue[i + 1] /\ i + 1 \in 1..Len(w.queue)
      /\ Rising(w.queue) => Rising(q) /\ \A i \in 1..Len(q) : b.id < q[i].id
  BY <1>1, <1>4, TailKeeps
<1> PICK v : v = [w EXCEPT !.item = b, !.queue = q]
  OBVIOUS
<1>6. Audio!Replace(w, v)
  BY <1>1
<1>7. v \in LiveWorkers /\ v.queue = q /\ v.item = b /\ v.closed = w.closed /\ v.rate = w.rate
  BY <1>4, <1>5 DEF LiveWorkers
<1>8. TrueWorker(v, captured)
  <2>1. \A i \in 1..Len(w.queue) : TrueBlock(w.queue[i], captured) /\ w.queue[i].rate = w.rate
    BY <1>3, <1>4 DEF TrueWorker
  <2>2. DOMAIN q = 1..Len(q) /\ Len(q) <= MicQueue
    BY <1>4, <1>5
  <2>3. \A i \in DOMAIN q : TrueBlock(q[i], captured) /\ q[i].rate = w.rate
    BY <1>5, <2>1, <2>2
  <2> QED BY <1>1, <1>5, <1>7, <2>1, <2>2, <2>3 DEF TrueWorker
<1>9. MicHalf'
  <2>1. \A u \in audioWorkers : TrueWorker(u, captured)
    BY <1>3 DEF MicHalf
  <2> QED BY <1>2, <1>3, <1>6, <1>7, <1>8, <2>1, OneWorkerChanges
<1>10. VadHalf'
  BY <1>2, <1>3, VadStays
<1>11. ASSUME ~audioLate PROVE InOrder'
  <2>1. InOrder /\ audioWorkers' = {v}
    BY <1>3, <1>6, <1>11, OnlyWorker DEF AudioInv
  <2>2. WorkerInOrder(scored, vad, inbox, w)
    BY <2>1 DEF InOrder
  <2>3. WorkerInOrder(scored, vad, inbox, v)
    BY <1>5, <1>7, <2>2 DEF WorkerInOrder
  <2> QED BY <1>2, <2>1, <2>3 DEF InOrder
<1> QED BY <1>2, <1>9, <1>10, <1>11 DEF AudioInv

LEMMA PublishStep == ASSUME AudioInv, Audio!Publish PROVE AudioInv'
<1> USE AudioAssumption
<1>1. PICK w \in audioWorkers :
        /\ w.item # Audio!NoBlock /\ inbox' = Audio!Offered(inbox, [w.item EXCEPT !.rate = w.rate],
                                                            VadQueue)
        /\ Audio!Replace(w, [w EXCEPT !.item = Audio!NoBlock])
  BY DEF Audio!Publish
<1>2. UNCHANGED <<mic, stream, audioLate, reopens>> /\ UNCHANGED <<vad, scored, resets>>
    /\ UNCHANGED captured
  BY DEF Audio!Publish
<1>3. MicHalf /\ VadHalf /\ captured \in Seq(Rates) /\ Len(captured) <= MaxBlocks
    /\ TrueWorker(w, captured)
  BY DEF AudioInv, MicHalf
<1>4. w \in LiveWorkers /\ w.item \in Audio!Blocks /\ TrueBlock(w.item, captured)
    /\ w.item.rate = w.rate
  BY <1>1, <1>3 DEF TrueWorker, LiveWorkers
<1>5. inbox' = Audio!Offered(inbox, w.item, VadQueue)
  BY <1>1, <1>4, SameRate
<1>6. inbox \in Seq(Audio!Blocks) /\ Len(inbox) <= VadQueue
    /\ \A i \in DOMAIN inbox : TrueBlock(inbox[i], captured)
  BY <1>3 DEF VadHalf
<1> PICK item : item = w.item
  OBVIOUS
<1> PICK new : new = Audio!Offered(inbox, item, VadQueue)
  OBVIOUS
<1>13. /\ new \in Seq(Audio!Blocks) /\ Len(new) <= VadQueue
       /\ \A i \in 1..Len(new) : new[i] = item \/ \E j \in 1..Len(inbox) : new[i] = inbox[j]
       /\ Rising(inbox) /\ (\A j \in 1..Len(inbox) : inbox[j].id < item.id) => Rising(new)
  BY <1>4, <1>6, OfferedKeeps
<1>14. inbox' = new
  BY <1>5
<1>7. /\ inbox' \in Seq(Audio!Blocks) /\ Len(inbox') <= VadQueue
      /\ \A i \in 1..Len(inbox') : inbox'[i] = w.item
         \/ \E j \in 1..Len(inbox) : inbox'[i] = inbox[j]
      /\ Rising(inbox) /\ (\A j \in 1..Len(inbox) : inbox[j].id < w.item.id) => Rising(inbox')
  BY <1>13, <1>14 DEF Rising
<1> PICK v : v = [w EXCEPT !.item = Audio!NoBlock]
  OBVIOUS
<1>8. Audio!Replace(w, v)
  BY <1>1
<1>9. v \in LiveWorkers /\ v.queue = w.queue /\ v.item = Audio!NoBlock /\ v.closed = w.closed
    /\ v.rate = w.rate
  <2>1. Audio!NoBlock \in Audio!Blocks
    BY DEF Audio!NoBlock, Audio!Blocks
  <2> QED BY <1>4, <2>1 DEF LiveWorkers
<1>10. MicHalf'
  <2>1. \A u \in audioWorkers : TrueWorker(u, captured)
    BY <1>3 DEF MicHalf
  <2>2. TrueWorker(v, captured)
    BY <1>3, <1>9 DEF TrueWorker
  <2> QED BY <1>2, <1>3, <1>8, <1>9, <2>1, <2>2, OneWorkerChanges
<1>11. VadHalf'
  <2>1. \A i \in DOMAIN inbox' : TrueBlock(inbox'[i], captured)
    <3>1. DOMAIN inbox' = 1..Len(inbox') /\ DOMAIN inbox = 1..Len(inbox)
      BY <1>6, <1>7
    <3> QED BY <1>4, <1>6, <1>7, <3>1
  <2> QED BY <1>2, <1>3, <1>7, <2>1 DEF VadHalf
<1>12. ASSUME ~audioLate PROVE InOrder'
  <2>1. InOrder /\ audioWorkers' = {v}
    BY <1>3, <1>8, <1>12, OnlyWorker DEF AudioInv
  <2>2. WorkerInOrder(scored, vad, inbox, w) /\ DetectorInOrder(scored, vad, inbox)
    BY <2>1 DEF InOrder
  <2>3. PastInbox(scored, vad, inbox, w.item.id)
    BY <1>1, <2>2 DEF WorkerInOrder
  <2>4. Rising(inbox')
    BY <1>7, <2>2, <2>3 DEF PastInbox, DetectorInOrder
  <2>5. \A i \in 1..Len(inbox') : PastDetector(scored, vad, inbox'[i].id)
    BY <1>7, <2>2, <2>3 DEF PastInbox, DetectorInOrder
  <2>6. DetectorInOrder(scored, vad, inbox')
    BY <2>2, <2>4, <2>5 DEF DetectorInOrder
  <2>7. \A i \in 1..Len(w.queue) : PastInbox(scored, vad, inbox', w.queue[i].id)
    <3> TAKE i \in 1..Len(w.queue)
    <3>1. PastInbox(scored, vad, inbox, w.queue[i].id) /\ w.item.id < w.queue[i].id
      BY <1>1, <2>2 DEF WorkerInOrder
    <3>2. \A k \in 1..Len(inbox') : inbox'[k].id < w.queue[i].id
      BY <1>7, <3>1 DEF PastInbox
    <3> QED BY <3>1, <3>2 DEF PastInbox
  <2>8. WorkerInOrder(scored, vad, inbox', v)
    BY <1>9, <2>2, <2>7 DEF WorkerInOrder
  <2> QED BY <1>2, <2>1, <2>6, <2>8 DEF InOrder
<1> QED BY <1>2, <1>10, <1>11, <1>12 DEF AudioInv

LEMMA StreamSteps ==
  ASSUME AudioInv, Audio!WorkerEnds \/ Audio!Reopen \/ Audio!StopMicrophone \/ Audio!CloseStream
         \/ Audio!Joined \/ Audio!OpenStream \/ Audio!OpenStreamFails
  PROVE  AudioInv'
<1> USE AudioAssumption
<1>1. MicHalf /\ VadHalf /\ (audioLate \/ InOrder)
  BY DEF AudioInv
<1>2. UNCHANGED <<inbox, vad, scored, resets>> /\ UNCHANGED captured
  BY DEF Audio!WorkerEnds, Audio!Reopen, Audio!StopMicrophone, Audio!CloseStream,
       Audio!Joined, Audio!OpenStream, Audio!OpenStreamFails, Audio!vadVars
<1>3. VadHalf'
  <2>1. captured \in Seq(Rates)
    BY <1>1 DEF MicHalf
  <2> QED BY <1>1, <1>2, <2>1, VadStays
<1>4. /\ mic \in Microphones /\ stream \in BOOLEAN /\ audioLate \in BOOLEAN
         /\ reopens \in 0..MaxReopens
      /\ captured \in Seq(Rates) /\ Len(captured) <= MaxBlocks
      /\ \A w \in audioWorkers : TrueWorker(w, captured)
      /\ \A w, v \in audioWorkers : ~w.closed /\ ~v.closed => w = v
      /\ stream <=> \E w \in audioWorkers : ~w.closed
      /\ mic.step = Audio!Idle /\ mic.state = "running" => stream
      /\ mic.step \in {"join", "open", "restore"} => ~stream
      /\ audioLate \/ \A w, v \in audioWorkers : w = v
      /\ mic.step \in {"open", "restore"} => audioLate \/ audioWorkers = {}
  BY <1>1 DEF MicHalf
<1>5. CASE Audio!WorkerEnds
  <2>1. PICK w \in audioWorkers : w.closed /\ audioWorkers' = audioWorkers \ {w}
    BY <1>5 DEF Audio!WorkerEnds
  <2>2. UNCHANGED <<mic, stream, audioLate, reopens, captured>>
    BY <1>5 DEF Audio!WorkerEnds
  <2>3. MicHalf'
    <3>1. stream <=> \E u \in audioWorkers' : ~u.closed
      BY <1>4, <2>1
    <3>2. audioLate \/ \A u, v \in audioWorkers' : u = v
      BY <1>4, <2>1
    <3>3. mic.step \in {"open", "restore"} => audioLate \/ audioWorkers' = {}
      BY <1>4, <2>1
    <3>4. \A u, v \in audioWorkers' : ~u.closed /\ ~v.closed => u = v
      BY <1>4, <2>1
    <3>5. \A u \in audioWorkers' : TrueWorker(u, captured)
      BY <1>4, <2>1
    <3> QED BY <1>4, <2>2, <3>1, <3>2, <3>3, <3>4, <3>5 DEF MicHalf
  <2>4. audioLate \/ InOrder'
    BY <1>1, <1>2, <2>1 DEF InOrder
  <2> QED BY <1>3, <2>2, <2>3, <2>4 DEF AudioInv
<1>6. CASE Audio!Reopen
  <2>1. PICK rate \in Rates : mic' = [mic EXCEPT !.step = "stop", !.previous = mic.rate,
                                      !.rate = rate]
    BY <1>6 DEF Audio!Reopen
  <2>5. UNCHANGED <<stream, audioWorkers, captured, audioLate>> /\ reopens' = reopens + 1
      /\ reopens < MaxReopens
    BY <1>6 DEF Audio!Reopen
  <2>2. UNCHANGED <<stream, audioWorkers, captured, audioLate>> /\ reopens' \in 0..MaxReopens
    BY <1>4, <2>5
  <2>3. mic' \in Microphones /\ mic'.step = "stop"
    BY <1>4, <2>1 DEF Microphones
  <2>4. MicHalf'
    BY <1>4, <2>2, <2>3 DEF MicHalf, Audio!Idle
  <2> QED BY <1>1, <1>2, <1>3, <2>2, <2>4 DEF AudioInv, InOrder
<1>7. CASE Audio!StopMicrophone
  <2>1. mic' = [mic EXCEPT !.step = "stop", !.state = "stopped"]
    BY <1>7 DEF Audio!StopMicrophone
  <2>2. UNCHANGED <<stream, audioWorkers, captured, audioLate, reopens>>
    BY <1>7 DEF Audio!StopMicrophone
  <2>3. mic' \in Microphones /\ mic'.step = "stop"
    BY <1>4, <2>1 DEF Microphones
  <2>4. MicHalf'
    BY <1>4, <2>2, <2>3 DEF MicHalf, Audio!Idle
  <2> QED BY <1>1, <1>2, <1>3, <2>2, <2>4 DEF AudioInv, InOrder
<1>8. CASE Audio!CloseStream
  <2> DEFINE Closed(w) == [w EXCEPT !.closed = TRUE, !.queue = <<>>]
  <2>1. /\ stream' = FALSE /\ mic' = [mic EXCEPT !.step = "join"]
        /\ audioWorkers' = {Closed(w) : w \in audioWorkers}
           /\ UNCHANGED <<captured, audioLate, reopens>>
    BY <1>8 DEF Audio!CloseStream
  <2>2. mic' \in Microphones /\ mic'.step = "join"
    BY <1>4, <2>1 DEF Microphones
  <2> PICK none \in Seq(Audio!Blocks) : none = <<>>
    <3>1. <<>> \in Seq(Audio!Blocks)
      OBVIOUS
    <3> QED BY <3>1
  <2>3. ASSUME NEW w \in audioWorkers
        PROVE  /\ TrueWorker(Closed(w), captured) /\ Closed(w).closed /\ Closed(w).queue = none
               /\ Closed(w).item = w.item
    <3>1. w \in LiveWorkers /\ TrueWorker(w, captured)
      BY <1>4 DEF TrueWorker
    <3>2. Closed(w) = [w EXCEPT !.closed = TRUE, !.queue = none]
      OBVIOUS
    <3>3. Closed(w) \in LiveWorkers /\ Closed(w).closed /\ Closed(w).queue = none
        /\ Closed(w).item = w.item
          /\ Closed(w).rate = w.rate
      BY <3>1, <3>2 DEF LiveWorkers
    <3> HIDE DEF Closed
    <3>4. Len(none) = 0 /\ DOMAIN none = {}
      OBVIOUS
    <3> QED BY <3>1, <3>3, <3>4 DEF TrueWorker
  <2> HIDE DEF Closed
  <2>4. MicHalf'
    <3>1. \A w \in audioWorkers' : TrueWorker(w, captured) /\ w.closed
      BY <2>1, <2>3
    <3>2. audioLate \/ \A u, v \in audioWorkers' : u = v
      BY <1>4, <2>1
    <3> QED BY <1>4, <2>1, <2>2, <3>1, <3>2 DEF MicHalf, Audio!Idle
  <2>5. audioLate \/ InOrder'
    <3> SUFFICES ASSUME InOrder, NEW w \in audioWorkers
                 PROVE  WorkerInOrder(scored, vad, inbox, Closed(w))
      BY <1>1, <1>2, <2>1 DEF InOrder
    <3>1. WorkerInOrder(scored, vad, inbox, w) /\ Len(none) = 0
      BY DEF InOrder
    <3> QED BY <2>3, <3>1 DEF WorkerInOrder, Rising
  <2> QED BY <1>3, <2>1, <2>4, <2>5 DEF AudioInv
<1>9. CASE Audio!Joined
  <2>1. /\ mic.step = "join" /\ audioLate' = (audioLate \/ audioWorkers # {})
        /\ mic' = [mic EXCEPT !.step = IF mic.state = "stopped" THEN Audio!Idle ELSE "open"]
        /\ UNCHANGED <<stream, audioWorkers, captured, reopens>>
    BY <1>9 DEF Audio!Joined
  <2>2. mic' \in Microphones /\ mic'.state = mic.state
      /\ (mic'.step = "open" \/ (mic'.step = Audio!Idle /\ mic.state = "stopped"))
    BY <1>4, <2>1 DEF Microphones
  <2>3. audioLate' \in BOOLEAN /\ (audioLate' \/ audioWorkers = {}) /\ (~audioLate' => ~audioLate)
    BY <1>4, <2>1
  <2>4. MicHalf'
    BY <1>4, <2>1, <2>2, <2>3 DEF MicHalf, Audio!Idle
  <2>5. audioLate' \/ InOrder'
    BY <1>1, <1>2, <2>1, <2>3 DEF InOrder
  <2> QED BY <1>3, <2>4, <2>5 DEF AudioInv
<1>10. CASE Audio!OpenStream
  <2>1. /\ mic.step \in {"open", "restore"} /\ stream' = TRUE
           /\ audioWorkers' = audioWorkers \cup {Audio!NewWorker(mic.rate)}
        /\ mic' = [mic EXCEPT !.step = Audio!Idle] /\ UNCHANGED <<captured, audioLate, reopens>>
    BY <1>10 DEF Audio!OpenStream
  <2>2. mic' \in Microphones /\ mic'.step = Audio!Idle
    BY <1>4, <2>1 DEF Microphones
  <2> PICK none \in Seq(Audio!Blocks) : none = <<>>
    <3>1. <<>> \in Seq(Audio!Blocks)
      OBVIOUS
    <3> QED BY <3>1
  <2> PICK w : w = Audio!NewWorker(mic.rate)
    OBVIOUS
  <2>3. w \in LiveWorkers /\ ~w.closed /\ w.item = Audio!NoBlock /\ w.queue = none /\ Len(none) = 0
      /\ DOMAIN none = {}
    <3>1. w = [rate |-> mic.rate, queue |-> none, item |-> Audio!NoBlock, closed |-> FALSE]
        /\ mic.rate \in Rates
      BY <1>4 DEF Audio!NewWorker, Microphones
    <3>2. Audio!NoBlock \in Audio!Blocks
      BY DEF Audio!NoBlock, Audio!Blocks
    <3> QED BY <3>1, <3>2 DEF LiveWorkers
  <2>4. TrueWorker(w, captured)
    BY <2>3 DEF TrueWorker
  <2>5. audioWorkers' = audioWorkers \cup {w} /\ ~stream /\ \A u \in audioWorkers : u.closed
    BY <1>4, <2>1
  <2>6. MicHalf'
    <3>1. \A u, v \in audioWorkers' : ~u.closed /\ ~v.closed => u = v
      BY <2>5
    <3>2. \E u \in audioWorkers' : ~u.closed
      BY <2>3, <2>5
    <3>3. audioLate \/ \A u, v \in audioWorkers' : u = v
      BY <1>4, <2>1, <2>5
    <3>4. \A u \in audioWorkers' : TrueWorker(u, captured)
      BY <1>4, <2>4, <2>5
    <3> QED BY <1>4, <2>1, <2>2, <3>1, <3>2, <3>3, <3>4 DEF MicHalf, Audio!Idle
  <2>7. audioLate \/ InOrder'
    <3>1. WorkerInOrder(scored, vad, inbox, w)
      BY <2>3 DEF WorkerInOrder, Rising
    <3> QED BY <1>1, <1>2, <2>5, <3>1 DEF InOrder
  <2> QED BY <1>3, <2>1, <2>6, <2>7 DEF AudioInv
<1>11. CASE Audio!OpenStreamFails
  <2>1. /\ mic.step \in {"open", "restore"}
        /\ mic' = IF mic.step = "open"
                  THEN [mic EXCEPT !.step = "restore", !.rate = mic.previous]
                  ELSE [mic EXCEPT !.step = Audio!Idle, !.state = "errored"]
        /\ UNCHANGED <<stream, audioWorkers, captured, audioLate, reopens>>
    BY <1>11 DEF Audio!OpenStreamFails
  <2>2. mic' \in Microphones /\ (mic'.step = "restore"
                                 \/ (mic'.step = Audio!Idle /\ mic'.state = "errored"))
    BY <1>4, <2>1 DEF Microphones
  <2>3. MicHalf'
    BY <1>4, <2>1, <2>2 DEF MicHalf, Audio!Idle
  <2> QED BY <1>1, <1>2, <1>3, <2>1, <2>3 DEF AudioInv, InOrder
<1> QED BY <1>5, <1>6, <1>7, <1>8, <1>9, <1>10, <1>11

-----------------------------------------------------------------------------
(* The detector                                                             *)
LEMMA MicStays == ASSUME MicHalf, UNCHANGED Audio!micVars PROVE MicHalf'
BY DEF Audio!micVars, MicHalf

\* A step of the detector moves samples down the path, and loses some.
LEMMA WorkersStayInOrder ==
  ASSUME NEW sc, NEW v, NEW box, NEW sc2, NEW v2, NEW box2, NEW ws,
         \A n : PastInbox(sc, v, box, n) => PastInbox(sc2, v2, box2, n),
         \A w \in ws : WorkerInOrder(sc, v, box, w)
  PROVE  \A w \in ws : WorkerInOrder(sc2, v2, box2, w)
BY DEF WorkerInOrder

LEMMA TakeBlockStep == ASSUME AudioInv, Audio!TakeBlock PROVE AudioInv'
<1> USE AudioAssumption
<1>1. /\ inbox # <<>> /\ vad.item = Audio!NoBlock
         /\ vad' = [vad EXCEPT !.item = Head(inbox), !.checked = FALSE]
      /\ inbox' = Tail(inbox) /\ UNCHANGED Audio!micVars /\ UNCHANGED <<scored, resets>>
  BY DEF Audio!TakeBlock
<1>2. MicHalf /\ VadHalf /\ vad \in Detectors /\ inbox \in Seq(Audio!Blocks)
    /\ Len(inbox) <= VadQueue
      /\ \A i \in DOMAIN inbox : TrueBlock(inbox[i], captured)
  BY DEF AudioInv, VadHalf
<1> PICK b, q : b = Head(inbox) /\ q = Tail(inbox)
  OBVIOUS
<1>3. /\ b \in Audio!Blocks /\ b = inbox[1] /\ 1 \in 1..Len(inbox)
      /\ q \in Seq(Audio!Blocks) /\ Len(q) = Len(inbox) - 1 /\ Len(inbox) \in Nat
      /\ \A i \in 1..Len(q) : q[i] = inbox[i + 1] /\ i + 1 \in 1..Len(inbox)
      /\ Rising(inbox) => Rising(q) /\ \A i \in 1..Len(q) : b.id < q[i].id
  BY <1>1, <1>2, TailKeeps
<1> PICK v : v = [vad EXCEPT !.item = b, !.checked = FALSE]
  OBVIOUS
<1>4. vad' = v /\ inbox' = q
  BY <1>1
<1>5. v \in Detectors /\ v.item = b /\ ~v.checked /\ v.pending = vad.pending /\ v.rate = vad.rate
  BY <1>2, <1>3 DEF Detectors
<1>6. DOMAIN q = 1..Len(q) /\ DOMAIN inbox = 1..Len(inbox) /\ Len(q) <= VadQueue
  BY <1>2, <1>3
<1>7. captured' = captured /\ audioLate' = audioLate /\ audioWorkers' = audioWorkers
  BY <1>1 DEF Audio!micVars
<1>8. VadHalf'
  <2>1. TrueBlock(b, captured) /\ \A i \in DOMAIN q : TrueBlock(q[i], captured)
    BY <1>2, <1>3, <1>6
  <2> QED BY <1>1, <1>2, <1>3, <1>4, <1>5, <1>6, <1>7, <2>1 DEF VadHalf
<1>9. ASSUME InOrder PROVE InOrder'
  <2>1. DetectorInOrder(scored, vad, inbox)
      /\ \A w \in audioWorkers : WorkerInOrder(scored, vad, inbox, w)
    BY <1>9 DEF InOrder
  <2>2. Rising(q) /\ \A i \in 1..Len(q) : b.id < q[i].id
    BY <1>3, <2>1 DEF DetectorInOrder
  <2>3. PastScores(scored, v, b.id)
    BY <1>3, <1>5, <2>1 DEF DetectorInOrder, PastDetector, PastScores
  <2>4. \A i \in 1..Len(q) : PastDetector(scored, v, q[i].id)
    BY <1>3, <1>5, <2>1, <2>2 DEF DetectorInOrder, PastDetector, PastScores
  <2>5. DetectorInOrder(scored, v, q)
    BY <1>5, <2>1, <2>2, <2>3, <2>4 DEF DetectorInOrder
  <2>6. \A n : PastInbox(scored, vad, inbox, n) => PastInbox(scored, v, q, n)
    BY <1>3, <1>5 DEF PastInbox, PastDetector, PastScores
  <2>7. \A w \in audioWorkers : WorkerInOrder(scored, v, q, w)
    BY <2>1, <2>6 DEF WorkerInOrder
  <2> QED BY <1>1, <1>4, <1>7, <2>5, <2>7 DEF InOrder
<1>10. MicHalf'
  BY <1>1, <1>2, MicStays
<1> QED BY <1>7, <1>8, <1>9, <1>10 DEF AudioInv

\* The detector forgets its leftover, or keeps it.
LEMMA LeftoverStep ==
  ASSUME AudioInv, NEW v \in Detectors, vad' = v, v.item = vad.item,
         v.pending \in {vad.pending, <<>>},
         v.pending # <<>> => v.rate = ModelRate, vad.item # Audio!NoBlock /\ v.checked
             => v.rate = vad.item.rate,
         UNCHANGED Audio!micVars, UNCHANGED <<inbox, scored>>, resets' \in 0..MaxResets
  PROVE  AudioInv'
<1> USE AudioAssumption
<1>1. MicHalf /\ VadHalf /\ (audioLate \/ InOrder)
  BY DEF AudioInv
<1>2. captured' = captured /\ audioLate' = audioLate /\ audioWorkers' = audioWorkers
  BY DEF Audio!micVars
<1>3. vad.pending \in Seq(Audio!Samples) /\ v.pending \in Seq(Audio!Samples)
  BY <1>1 DEF VadHalf, Detectors
<1>4. v.pending = vad.pending \/ (Len(v.pending) = 0 /\ DOMAIN v.pending = {})
  BY <1>3
<1>5. Len(v.pending) < Chunk /\ \A i \in DOMAIN v.pending : TrueSample(v.pending[i], captured)
  BY <1>1, <1>4 DEF VadHalf
<1>6. VadHalf'
  BY <1>1, <1>2, <1>5 DEF VadHalf
<1>7. ASSUME InOrder PROVE InOrder'
  <2>1. \A n : PastScores(scored, vad, n) => PastScores(scored, v, n)
    BY <1>4 DEF PastScores, Older
  <2>2. DetectorInOrder(scored, v, inbox)
    BY <1>4, <1>7, <2>1 DEF InOrder, DetectorInOrder, PastDetector, Ascends
  <2>3. \A n : PastInbox(scored, vad, inbox, n) => PastInbox(scored, v, inbox, n)
    BY <2>1 DEF PastInbox, PastDetector
  <2>4. \A w \in audioWorkers : WorkerInOrder(scored, v, inbox, w)
    BY <1>7, <2>3, WorkersStayInOrder DEF InOrder
  <2> QED BY <1>2, <2>2, <2>4 DEF InOrder
<1>8. MicHalf'
  BY <1>1, MicStays
<1> QED BY <1>1, <1>2, <1>6, <1>7, <1>8 DEF AudioInv

LEMMA CheckRateStep == ASSUME AudioInv, Audio!CheckRate PROVE AudioInv'
<1>1. /\ vad.item # Audio!NoBlock /\ UNCHANGED Audio!micVars /\ UNCHANGED <<inbox, scored, resets>>
      /\ vad' = [vad EXCEPT !.rate = vad.item.rate, !.checked = TRUE,
                            !.pending = IF vad.rate = vad.item.rate THEN @ ELSE <<>>]
  BY DEF Audio!CheckRate
<1>2. VadHalf /\ vad \in Detectors /\ captured \in Seq(Rates) /\ TrueBlock(vad.item, captured)
  BY <1>1 DEF AudioInv, VadHalf, MicHalf
<1>3. vad.item.rate \in Rates \cup {Audio!None} /\ resets' \in 0..MaxResets
  BY <1>1, <1>2 DEF TrueBlock, Audio!Blocks, VadHalf
<1> PICK p \in Seq(Audio!Samples) : p = IF vad.rate = vad.item.rate THEN vad.pending ELSE <<>>
  <2>1. <<>> \in Seq(Audio!Samples)
    OBVIOUS
  <2> QED BY <1>2, <2>1 DEF Detectors
<1> PICK v : v = [vad EXCEPT !.rate = vad.item.rate, !.checked = TRUE, !.pending = p]
  OBVIOUS
<1>4. v \in Detectors /\ v.rate = vad.item.rate /\ v.pending = p /\ v.item = vad.item
  BY <1>2, <1>3 DEF Detectors
<1>5. vad' = v
  BY <1>1
<1>6. p \in {vad.pending, <<>>} /\ (p # <<>> => vad.item.rate = ModelRate)
  BY <1>2 DEF VadHalf
<1> QED BY <1>1, <1>3, <1>4, <1>5, <1>6, LeftoverStep

LEMMA ResetStep == ASSUME AudioInv, Audio!ResetDetector PROVE AudioInv'
<1>1. /\ resets < MaxResets /\ resets' = resets + 1 /\ vad' = [vad EXCEPT !.pending = <<>>]
      /\ UNCHANGED Audio!micVars /\ UNCHANGED <<inbox, scored>>
  BY DEF Audio!ResetDetector
<1>2. VadHalf /\ vad \in Detectors
  BY DEF AudioInv, VadHalf
<1>3. resets' \in 0..MaxResets
  BY <1>1, <1>2, AudioAssumption DEF VadHalf
<1> PICK p \in Seq(Audio!Samples) : p = <<>>
  <2>1. <<>> \in Seq(Audio!Samples)
    OBVIOUS
  <2> QED BY <2>1
<1> PICK v : v = [vad EXCEPT !.pending = p]
  OBVIOUS
<1>4. v \in Detectors /\ v.rate = vad.rate /\ v.pending = <<>> /\ v.item = vad.item
    /\ v.checked = vad.checked
  BY <1>2 DEF Detectors
<1>5. vad' = v
  BY <1>1
<1>6. vad.item # Audio!NoBlock /\ v.checked => v.rate = vad.item.rate
  BY <1>2, <1>4 DEF VadHalf
<1> QED BY <1>1, <1>3, <1>4, <1>5, <1>6, LeftoverStep

\* The scores and the leftover that a block leaves are a cut of what was
\* scored, left over, and came with the block, in this order.
LEMMA WindowsOfWhole ==
  ASSUME NEW n \in Nat, NEW d \in Nat \ {0}
  PROVE  (n \div d) * d \in 0..n /\ n - (n \div d) * d < d
<1>1. n = d * (n \div d) + (n % d) /\ n % d \in 0..(d - 1)
  OBVIOUS
<1>2. n \div d \in Nat
  OBVIOUS
<1>3. d * (n \div d) = (n \div d) * d /\ (n \div d) * d \in Nat
  BY <1>2
<1> QED BY <1>1, <1>3

SampleAt(b, i) == [block |-> b, at |-> i]

\* What feed leaves of the block b, and how the parts are cut.
IsFed(sc, pe, b, sc2, pe2) ==
  LET all == pe \o Audio!SamplesOf(b)
      complete == (Len(all) \div Chunk) * Chunk
      heard0 == sc \o SubSeq(all, 1, complete)
      kept == IF Len(heard0) > 2 * Chunk THEN Len(heard0) - 2 * Chunk ELSE 0
  IN sc2 = SubSeq(heard0, kept + 1, Len(heard0)) /\ pe2 = SubSeq(all, complete + 1, Len(all))

CutOf(whole, m, k, sc, pe, b, sc2, pe2) ==
  /\ Len(whole) = Len(sc) + Len(pe) + BlockLen /\ k <= m /\ m <= Len(whole)
  /\ m - k <= 2 * Chunk /\ Len(whole) - m < Chunk
  /\ \A i \in 1..Len(sc) : whole[i] = sc[i]
  /\ \A i \in 1..Len(pe) : whole[Len(sc) + i] = pe[i]
  /\ \A i \in 1..BlockLen : whole[Len(sc) + Len(pe) + i] = SampleAt(b, i)
  /\ sc2 \in Seq(Audio!Samples) /\ Len(sc2) = m - k /\ \A i \in 1..(m - k) : sc2[i] = whole[k + i]
  /\ pe2 \in Seq(Audio!Samples) /\ Len(pe2) = Len(whole) - m
     /\ \A i \in 1..(Len(whole) - m) : pe2[i] = whole[m + i]

LEMMA FeedCuts ==
  ASSUME NEW sc \in Seq(Audio!Samples), NEW pe \in Seq(Audio!Samples), NEW b \in 1..MaxBlocks,
         NEW sc2, NEW pe2,
         IsFed(sc, pe, b, sc2, pe2)
  PROVE  \E whole \in Seq(Audio!Samples), m, k \in Nat : CutOf(whole, m, k, sc, pe, b, sc2, pe2)
<1> USE AudioAssumption
<1> DEFINE new == Audio!SamplesOf(b)
           all == pe \o new
           complete == (Len(all) \div Chunk) * Chunk
           now == SubSeq(all, 1, complete)
           heard0 == sc \o now
           kept == IF Len(heard0) > 2 * Chunk THEN Len(heard0) - 2 * Chunk ELSE 0
           scored2 == SubSeq(heard0, kept + 1, Len(heard0))
           rest == SubSeq(all, complete + 1, Len(all))
           whole == sc \o all
           m == Len(sc) + complete
<1>1. new \in Seq(Audio!Samples) /\ Len(new) = BlockLen
    /\ \A i \in 1..BlockLen : new[i] = SampleAt(b, i)
  <2>1. \A i \in 1..BlockLen : SampleAt(b, i) \in Audio!Samples
    BY DEF Audio!Samples, SampleAt
  <2>2. new = [i \in 1..BlockLen |-> SampleAt(b, i)]
    BY DEF Audio!SamplesOf, SampleAt
  <2> HIDE DEF new
  <2>3. new \in [1..BlockLen -> Audio!Samples] /\ \A i \in 1..BlockLen : new[i] = SampleAt(b, i)
    BY <2>1, <2>2
  <2>4. new \in Seq(Audio!Samples)
    BY <2>3, SeqDef
  <2>5. Len(new) = BlockLen
    BY <2>3, <2>4
  <2> QED BY <2>3, <2>4, <2>5
<1> HIDE DEF new
<1>2. /\ all \in Seq(Audio!Samples) /\ Len(all) = Len(pe) + BlockLen /\ Len(all) \in Nat
         /\ Len(pe) \in Nat /\ Len(sc) \in Nat
      /\ \A i \in 1..Len(pe) : all[i] = pe[i]
      /\ \A i \in 1..BlockLen : all[Len(pe) + i] = SampleAt(b, i)
  <2>1. /\ all \in Seq(Audio!Samples) /\ Len(all) = Len(pe) + Len(new)
        /\ \A i \in 1..Len(pe) + Len(new) : all[i] = IF i <= Len(pe) THEN pe[i] ELSE new[i - Len(pe)]
    BY <1>1, ConcatProperties
  <2>2. Len(all) \in Nat /\ Len(pe) \in Nat /\ Len(sc) \in Nat
    BY <2>1
  <2> HIDE DEF all
  <2>3. \A i \in 1..Len(pe) : i \in 1..Len(pe) + Len(new) /\ i <= Len(pe)
    BY <1>1, <2>2
  <2>4. \A i \in 1..BlockLen : /\ Len(pe) + i \in 1..Len(pe) + Len(new) /\ ~(Len(pe) + i <= Len(pe))
                               /\ (Len(pe) + i) - Len(pe) = i
    BY <1>1, <2>2
  <2> QED BY <1>1, <2>1, <2>2, <2>3, <2>4
<1> HIDE DEF all
<1>3. complete \in 0..Len(all) /\ Len(all) - complete < Chunk
  BY <1>2, WindowsOfWhole
<1> HIDE DEF complete
<1>4. now \in Seq(Audio!Samples) /\ Len(now) = complete /\ \A i \in 1..complete : now[i] = all[i]
  <2>1. \A i \in 1..complete : all[i] \in Audio!Samples
    BY <1>2, <1>3
  <2>2. /\ now \in Seq(Audio!Samples)
        /\ Len(now) = (IF 1 <= complete THEN complete - 1 + 1 ELSE 0)
        /\ \A i \in 1..complete - 1 + 1 : now[i] = all[1 + i - 1]
    BY <1>3, <2>1, SubSeqProperties
  <2> QED BY <1>3, <2>2
<1> HIDE DEF now
<1>5. rest \in Seq(Audio!Samples) /\ Len(rest) = Len(all) - complete
      /\ \A i \in 1..(Len(all) - complete) : rest[i] = all[complete + i]
  <2>1. \A i \in complete + 1..Len(all) : all[i] \in Audio!Samples
    BY <1>2, <1>3
  <2>2. /\ rest \in Seq(Audio!Samples)
        /\ Len(rest) = (IF complete + 1 <= Len(all) THEN Len(all) - (complete + 1) + 1 ELSE 0)
        /\ \A i \in 1..Len(all) - (complete + 1) + 1 : rest[i] = all[(complete + 1) + i - 1]
    BY <1>2, <1>3, <2>1, SubSeqProperties
  <2>3. \A i \in 1..(Len(all) - complete) : i \in 1..Len(all) - (complete + 1) + 1
      /\ (complete + 1) + i - 1 = complete + i
    BY <1>2, <1>3
  <2>4. \A i \in 1..(Len(all) - complete) : rest[i] = all[complete + i]
    BY <2>2, <2>3
  <2>5. Len(rest) = Len(all) - complete
    <3>1. CASE complete + 1 <= Len(all)
      BY <1>2, <1>3, <2>2, <3>1
    <3>2. CASE ~(complete + 1 <= Len(all))
      <4>2. Len(all) \in Nat /\ complete \in Nat /\ complete <= Len(all)
        BY <1>2, <1>3
      <4>1. complete = Len(all)
        BY <3>2, <4>2
      <4> QED BY <1>2, <2>2, <3>2, <4>1
    <3> QED BY <3>1, <3>2
  <2> QED BY <2>2, <2>4, <2>5
<1> HIDE DEF rest
<1>6. heard0 \in Seq(Audio!Samples) /\ Len(heard0) = m /\ m \in Nat
      /\ \A i \in 1..m : heard0[i] = IF i <= Len(sc) THEN sc[i] ELSE all[i - Len(sc)]
  <2>1. /\ heard0 \in Seq(Audio!Samples) /\ Len(heard0) = Len(sc) + Len(now)
        /\ \A i \in 1..Len(sc) + Len(now) : heard0[i] = IF i <= Len(sc) THEN sc[i] ELSE now[i - Len(sc)]
    BY <1>4, ConcatProperties
  <2> HIDE DEF heard0
  <2>2. \A i \in 1..m : ~(i <= Len(sc)) => i - Len(sc) \in 1..complete
    BY <1>2, <1>3
  <2> QED BY <1>2, <1>3, <1>4, <2>1, <2>2
<1>7. whole \in Seq(Audio!Samples) /\ Len(whole) = Len(sc) + Len(all)
      /\ \A i \in 1..Len(sc) + Len(all) : whole[i] = IF i <= Len(sc) THEN sc[i] ELSE all[i - Len(sc)]
  BY <1>2, ConcatProperties
<1> HIDE DEF heard0, whole
<1>8. kept \in 0..m /\ m - kept <= 2 * Chunk
  <2>1. Len(heard0) = m /\ m \in Nat /\ 2 * Chunk \in Nat
    BY <1>6
  <2> HIDE DEF m
  <2>2. kept = IF m > 2 * Chunk THEN m - 2 * Chunk ELSE 0
    BY <2>1
  <2> HIDE DEF kept
  <2> QED BY <2>1, <2>2
<1> HIDE DEF kept
<1>9. scored2 \in Seq(Audio!Samples) /\ Len(scored2) = m - kept
    /\ \A i \in 1..(m - kept) : scored2[i] = heard0[kept + i]
  <2>1. \A i \in kept + 1..m : heard0[i] \in Audio!Samples
    BY <1>6, <1>8
  <2>2. /\ scored2 \in Seq(Audio!Samples)
        /\ Len(scored2) = (IF kept + 1 <= m THEN m - (kept + 1) + 1 ELSE 0)
        /\ \A i \in 1..m - (kept + 1) + 1 : scored2[i] = heard0[(kept + 1) + i - 1]
    BY <1>6, <1>8, <2>1, SubSeqProperties
  <2>3. \A i \in 1..(m - kept) : i \in 1..m - (kept + 1) + 1 /\ (kept + 1) + i - 1 = kept + i
    BY <1>6, <1>8
  <2> QED BY <1>6, <1>8, <2>2, <2>3
<1>10. \A i \in 1..(m - kept) : scored2[i] = whole[kept + i]
  <2>1. \A i \in 1..(m - kept) : kept + i \in 1..m /\ kept + i \in 1..Len(sc) + Len(all)
    BY <1>2, <1>3, <1>8
  <2> QED BY <1>6, <1>7, <1>9, <2>1
<1>11. \A i \in 1..(Len(whole) - m) : rest[i] = whole[m + i]
  <2>1. \A i \in 1..(Len(whole) - m) : /\ m + i \in 1..Len(sc) + Len(all) /\ ~(m + i <= Len(sc))
                                       /\ (m + i) - Len(sc) = complete + i
                                          /\ i \in 1..(Len(all) - complete)
    BY <1>2, <1>3, <1>7
  <2> QED BY <1>5, <1>7, <2>1
<1>12. /\ \A i \in 1..Len(sc) : whole[i] = sc[i]
       /\ \A i \in 1..Len(pe) : whole[Len(sc) + i] = pe[i]
       /\ \A i \in 1..BlockLen : whole[Len(sc) + Len(pe) + i] = SampleAt(b, i)
  <2>1. \A i \in 1..Len(sc) : i \in 1..Len(sc) + Len(all) /\ i <= Len(sc)
    BY <1>2
  <2>2. \A i \in 1..Len(pe) : Len(sc) + i \in 1..Len(sc) + Len(all) /\ ~(Len(sc) + i <= Len(sc))
      /\ (Len(sc) + i) - Len(sc) = i
    BY <1>2
  <2>3. \A i \in 1..BlockLen : /\ Len(sc) + Len(pe) + i \in 1..Len(sc) + Len(all)
                                  /\ ~(Len(sc) + Len(pe) + i <= Len(sc))
                               /\ (Len(sc) + Len(pe) + i) - Len(sc) = Len(pe) + i
    BY <1>2
  <2>4. \A i \in 1..Len(sc) : whole[i] = sc[i]
    BY <1>7, <2>1
  <2>5. \A i \in 1..Len(pe) : whole[Len(sc) + i] = pe[i]
    BY <1>2, <1>7, <2>2
  <2>6. \A i \in 1..BlockLen : whole[Len(sc) + Len(pe) + i] = SampleAt(b, i)
    <3> TAKE i \in 1..BlockLen
    <3>1. whole[Len(sc) + Len(pe) + i] = all[(Len(sc) + Len(pe) + i) - Len(sc)]
      BY <1>7, <2>3
    <3>2. whole[Len(sc) + Len(pe) + i] = all[Len(pe) + i]
      BY <2>3, <3>1
    <3>3. all[Len(pe) + i] = SampleAt(b, i)
      BY <1>2
    <3> QED BY <3>2, <3>3
  <2> QED BY <2>4, <2>5, <2>6
<1>13. Len(whole) = Len(sc) + Len(pe) + BlockLen /\ kept <= m /\ m <= Len(whole)
    /\ Len(whole) - m < Chunk
       /\ Len(rest) = Len(whole) - m /\ kept \in Nat /\ m \in Nat
  BY <1>2, <1>3, <1>5, <1>6, <1>7, <1>8
<1> HIDE DEF scored2, m
<1>14. CutOf(whole, m, kept, sc, pe, b, scored2, rest)
  BY <1>5, <1>7, <1>8, <1>9, <1>10, <1>11, <1>12, <1>13 DEF CutOf
<1>15. sc2 = scored2 /\ pe2 = rest
  BY DEF IsFed, scored2, rest, heard0, now, kept, complete, all, new
<1> QED BY <1>7, <1>13, <1>14, <1>15

LEMMA FeedStep == ASSUME AudioInv, Audio!Feed PROVE AudioInv'
<1> USE AudioAssumption
<1>1. vad.item # Audio!NoBlock /\ vad.checked /\ UNCHANGED Audio!micVars
    /\ UNCHANGED <<inbox, resets>>
  BY DEF Audio!Feed
<1>2. MicHalf /\ VadHalf /\ vad \in Detectors /\ (audioLate \/ InOrder)
  BY DEF AudioInv, VadHalf
<1>3. /\ TrueBlock(vad.item, captured) /\ vad.rate = vad.item.rate
      /\ scored \in Seq(Audio!Samples) /\ vad.pending \in Seq(Audio!Samples)
      /\ \A i \in 1..Len(scored) : TrueSample(scored[i], captured)
      /\ \A i \in 1..Len(vad.pending) : TrueSample(vad.pending[i], captured)
      /\ captured \in Seq(Rates) /\ Len(captured) \in Nat /\ Len(captured) <= MaxBlocks
  <2>1. scored \in Seq(Audio!Samples) /\ vad.pending \in Seq(Audio!Samples)
    BY <1>2 DEF VadHalf, Detectors
  <2>2. DOMAIN scored = 1..Len(scored) /\ DOMAIN vad.pending = 1..Len(vad.pending)
    BY <2>1
  <2>3. TrueBlock(vad.item, captured) /\ vad.rate = vad.item.rate
    BY <1>1, <1>2 DEF VadHalf
  <2>4. captured \in Seq(Rates) /\ Len(captured) <= MaxBlocks
    BY <1>2 DEF MicHalf
  <2>5. /\ \A i \in 1..Len(scored) : TrueSample(scored[i], captured)
        /\ \A i \in 1..Len(vad.pending) : TrueSample(vad.pending[i], captured)
    BY <1>2, <2>2 DEF VadHalf
  <2> QED BY <2>1, <2>3, <2>4, <2>5
<1>4. captured' = captured /\ audioLate' = audioLate /\ audioWorkers' = audioWorkers
  BY <1>1 DEF Audio!micVars
<1>5. MicHalf'
  BY <1>1, <1>2, MicStays
<1>n. Audio!NoBlock \in Audio!Blocks
  BY DEF Audio!NoBlock, Audio!Blocks
<1>6. CASE vad.item.rate # ModelRate
  <2>1. vad' = [vad EXCEPT !.item = Audio!NoBlock] /\ UNCHANGED scored
    BY <1>6 DEF Audio!Feed
  <2> PICK v : v = [vad EXCEPT !.item = Audio!NoBlock]
    OBVIOUS
  <2>2. v \in Detectors /\ v.item = Audio!NoBlock /\ v.pending = vad.pending /\ v.rate = vad.rate
      /\ vad' = v
    BY <1>2, <1>n, <2>1 DEF Detectors
  <2>3. VadHalf'
    BY <1>1, <1>2, <1>4, <2>1, <2>2 DEF VadHalf
  <2>4. ASSUME InOrder PROVE InOrder'
    <3>1. DetectorInOrder(scored, v, inbox)
      BY <2>2, <2>4 DEF InOrder, DetectorInOrder, PastDetector, PastScores
    <3>2. \A n : PastInbox(scored, vad, inbox, n) => PastInbox(scored, v, inbox, n)
      BY <2>2 DEF PastInbox, PastDetector, PastScores
    <3>3. \A w \in audioWorkers : WorkerInOrder(scored, v, inbox, w)
      BY <2>4, <3>2 DEF InOrder, WorkerInOrder
    <3> QED BY <1>1, <1>4, <2>1, <2>2, <3>1, <3>3 DEF InOrder
  <2> QED BY <1>2, <1>4, <1>5, <2>3, <2>4 DEF AudioInv
<1>7. CASE vad.item.rate = ModelRate
  <2>16. PICK b : b = vad.item.id
    OBVIOUS
  <2>1. b \in 1..MaxBlocks /\ b \in 1..Len(captured) /\ captured[b] = ModelRate
    <3>1. b \in 1..Len(captured) /\ captured[b] = ModelRate
      BY <1>3, <1>7, <2>16 DEF TrueBlock
    <3>2. Len(captured) \in Nat /\ Len(captured) <= MaxBlocks
      BY <1>3
    <3> QED BY <3>1, <3>2
  <2>17. PICK sc, pe : sc = scored /\ pe = vad.pending
    OBVIOUS
  <2>5. Len(sc) \in Nat /\ Len(pe) \in Nat /\ sc \in Seq(Audio!Samples) /\ pe \in Seq(Audio!Samples)
    BY <1>3, <2>17
  <2>14. PICK sc2, pe2 : IsFed(sc, pe, b, sc2, pe2) /\ scored' = sc2
      /\ vad' = [vad EXCEPT !.item = Audio!NoBlock, !.pending = pe2]
    BY <1>7, <2>16, <2>17 DEF Audio!Feed, IsFed
  <2>11. PICK whole \in Seq(Audio!Samples), m, k \in Nat : CutOf(whole, m, k, sc, pe, b, sc2, pe2)
    BY <2>1, <2>5, <2>14, FeedCuts
  <2>2. /\ Len(whole) = Len(sc) + Len(pe) + BlockLen /\ k <= m /\ m <= Len(whole)
        /\ m - k <= 2 * Chunk /\ Len(whole) - m < Chunk /\ m \in Nat /\ k \in Nat
           /\ whole \in Seq(Audio!Samples)
        /\ \A i \in 1..Len(sc) : whole[i] = sc[i]
        /\ \A i \in 1..Len(pe) : whole[Len(sc) + i] = pe[i]
        /\ \A i \in 1..BlockLen : whole[Len(sc) + Len(pe) + i] = SampleAt(b, i)
        /\ sc2 \in Seq(Audio!Samples) /\ Len(sc2) = m - k
           /\ \A i \in 1..(m - k) : sc2[i] = whole[k + i]
        /\ pe2 \in Seq(Audio!Samples) /\ Len(pe2) = Len(whole) - m
           /\ \A i \in 1..(Len(whole) - m) : pe2[i] = whole[m + i]
    BY <2>11 DEF CutOf
  <2>12. /\ whole \in Seq(Audio!Samples) /\ m \in Nat /\ k \in Nat /\ Len(whole) \in Nat
            /\ Len(whole) = Len(sc) + Len(pe) + BlockLen /\ m - k \in Nat /\ Len(whole) - m \in Nat
         /\ k <= m /\ m <= Len(whole)
    BY <2>2
  <2>13. Len(sc2) = m - k /\ Len(pe2) = Len(whole) - m
    BY <2>2
  <2>15. PICK v : v = [vad EXCEPT !.item = Audio!NoBlock, !.pending = pe2]
    OBVIOUS
  <2>3. vad' = v /\ scored' = sc2
    BY <2>14, <2>15
  <2>4. v \in Detectors /\ v.item = Audio!NoBlock /\ v.pending = pe2 /\ v.rate = vad.rate
    BY <1>2, <1>n, <2>2, <2>15 DEF Detectors
  <2>6. ASSUME NEW i \in 1..Len(whole)
        PROVE  \/ i \in 1..Len(sc) /\ whole[i] = sc[i]
               \/ i > Len(sc) /\ \E j \in 1..Len(pe) : i = Len(sc) + j /\ whole[i] = pe[j]
               \/ i > Len(sc) + Len(pe) /\ \E j \in 1..BlockLen : i = Len(sc) + Len(pe) + j
                  /\ whole[i] = SampleAt(b, j)
    <3>1. CASE i <= Len(sc)
      <4>1. i \in 1..Len(sc)
        BY <2>5, <3>1
      <4> QED BY <2>2, <4>1
    <3>2. CASE i > Len(sc) /\ i <= Len(sc) + Len(pe)
      <4>1. i - Len(sc) \in 1..Len(pe) /\ i = Len(sc) + (i - Len(sc))
        BY <2>5, <3>2
      <4>2. whole[Len(sc) + (i - Len(sc))] = pe[i - Len(sc)]
        BY <2>2, <4>1
      <4> QED BY <3>2, <4>1, <4>2
    <3>3. CASE i > Len(sc) + Len(pe)
      <4>1. i - Len(sc) - Len(pe) \in 1..BlockLen /\ i = Len(sc) + Len(pe) + (i - Len(sc) - Len(pe))
        BY <2>12, <2>5, <3>3
      <4>2. whole[Len(sc) + Len(pe) + (i - Len(sc) - Len(pe))] = SampleAt(b, i - Len(sc) - Len(pe))
        BY <2>2, <4>1
      <4> QED BY <3>3, <4>1, <4>2
    <3> QED BY <2>5, <2>12, <3>1, <3>2, <3>3
  <2>7. \A i \in 1..Len(whole) : TrueSample(whole[i], captured)
    <3> TAKE i \in 1..Len(whole)
    <3>1. whole[i] \in Audio!Samples
      BY <2>12
    <3>2. ASSUME NEW j \in 1..BlockLen, whole[i] = SampleAt(b, j)
        PROVE TrueSample(whole[i], captured)
      <4>1. whole[i].block = b
        BY <3>2 DEF SampleAt
      <4> QED BY <2>1, <3>1, <4>1 DEF TrueSample
    <3> QED BY <1>3, <2>6, <2>17, <3>2
  <2>8. (\A i \in 1..Len(sc2) : i + k \in 1..Len(whole) /\ k + i \in 1..Len(whole) /\ k + i <= m
         /\ sc2[i] = whole[k + i])
        /\ (\A i \in 1..Len(pe2) : m + i \in 1..Len(whole) /\ m + i > m /\ pe2[i] = whole[m + i])
    <3>2. (\A i \in 1..Len(sc2) : i + k \in 1..Len(whole) /\ k + i \in 1..Len(whole) /\ k + i <= m)
      BY <2>12, <2>13
    <3>3. (\A i \in 1..Len(pe2) : m + i \in 1..Len(whole) /\ m + i > m)
      BY <2>12, <2>13
    <3>4. (\A i \in 1..Len(sc2) : sc2[i] = whole[k + i])
        /\ (\A i \in 1..Len(pe2) : pe2[i] = whole[m + i])
      BY <2>2, <2>13
    <3> QED BY <3>2, <3>3, <3>4
  <2>9. VadHalf'
    <3>6. sc2 \in Seq(Audio!Samples) /\ pe2 \in Seq(Audio!Samples)
      BY <2>2
    <3>1. DOMAIN sc2 = 1..Len(sc2) /\ DOMAIN pe2 = 1..Len(pe2)
      BY <3>6
    <3>2. \A i \in DOMAIN sc2 : TrueSample(sc2[i], captured)
      BY <2>7, <2>8, <3>1
    <3>3. \A i \in DOMAIN pe2 : TrueSample(pe2[i], captured)
      BY <2>7, <2>8, <3>1
    <3>4. Len(sc2) <= 2 * Chunk /\ Len(pe2) < Chunk
      BY <2>2
    <3>5. vad.rate = ModelRate
      BY <1>3, <1>7
    <3> QED BY <1>1, <1>2, <1>4, <2>2, <2>3, <2>4, <3>2, <3>3, <3>4, <3>5 DEF VadHalf
  <2>10. ASSUME InOrder PROVE InOrder'
    <3>1. DetectorInOrder(sc, vad, inbox)
        /\ \A w \in audioWorkers : WorkerInOrder(sc, vad, inbox, w)
      BY <2>10, <2>17 DEF InOrder
    <3>2. Ascends(sc) /\ Ascends(pe) /\ (\A i \in 1..Len(sc),
                                         j \in 1..Len(pe) : Audio!Before(sc[i], pe[j]))
          /\ Older(sc, b) /\ Older(pe, b)
      BY <1>1, <2>16, <2>17, <3>1 DEF DetectorInOrder, PastScores
    <3>3. \A j, l \in 1..BlockLen : j < l => Audio!Before(SampleAt(b, j), SampleAt(b, l))
      BY DEF Audio!Before, SampleAt
    <3>4. \A s, l : s.block < b => Audio!Before(s, SampleAt(b, l))
      BY DEF Audio!Before, SampleAt
    <3>5. Ascends(whole)
      <4> SUFFICES ASSUME NEW i \in 1..Len(whole), NEW j \in 1..Len(whole), i < j
          PROVE Audio!Before(whole[i], whole[j])
        BY DEF Ascends
      <4>1. CASE i \in 1..Len(sc) /\ whole[i] = sc[i]
        <5>1. CASE j \in 1..Len(sc) /\ whole[j] = sc[j]
          BY <3>2, <4>1, <5>1 DEF Ascends
        <5>2. CASE \E l \in 1..Len(pe) : whole[j] = pe[l]
          BY <3>2, <4>1, <5>2
        <5>3. CASE \E l \in 1..BlockLen : whole[j] = SampleAt(b, l)
          BY <3>2, <3>4, <4>1, <5>3 DEF Older
        <5> QED BY <2>6, <5>1, <5>2, <5>3
      <4>2. ASSUME NEW n \in 1..Len(pe), i = Len(sc) + n, whole[i] = pe[n]
          PROVE Audio!Before(whole[i], whole[j])
        <5>1. j \notin 1..Len(sc)
          BY <2>5, <2>12, <4>2
        <5>2. ASSUME NEW l \in 1..Len(pe), j = Len(sc) + l, whole[j] = pe[l]
            PROVE Audio!Before(whole[i], whole[j])
          <6>1. n < l
            BY <2>5, <4>2, <5>2
          <6> QED BY <3>2, <4>2, <5>2, <6>1 DEF Ascends
        <5>3. CASE \E l \in 1..BlockLen : whole[j] = SampleAt(b, l)
          BY <3>2, <3>4, <4>2, <5>3 DEF Older
        <5> QED BY <2>6, <5>1, <5>2, <5>3
      <4>3. ASSUME NEW n \in 1..BlockLen, i = Len(sc) + Len(pe) + n, whole[i] = SampleAt(b, n)
            PROVE  Audio!Before(whole[i], whole[j])
        <5>1. j \notin 1..Len(sc) /\ \A l \in 1..Len(pe) : j # Len(sc) + l
          BY <2>5, <2>12, <4>3
        <5>2. PICK l \in 1..BlockLen : j = Len(sc) + Len(pe) + l /\ whole[j] = SampleAt(b, l)
          BY <2>6, <5>1
        <5>3. n < l
          BY <2>5, <4>3, <5>2
        <5> QED BY <3>3, <4>3, <5>2, <5>3
      <4> QED BY <2>6, <4>1, <4>2, <4>3
    <3>6. Ascends(sc2) /\ Ascends(pe2)
      <4>1. \A i, j \in 1..Len(sc2) : i < j => k + i < k + j
        BY <2>2
      <4>2. \A i, j \in 1..Len(pe2) : i < j => m + i < m + j
        BY <2>2
      <4> QED BY <2>8, <3>5, <4>1, <4>2 DEF Ascends
    <3>7. \A i \in 1..Len(sc2), j \in 1..Len(pe2) : Audio!Before(sc2[i], pe2[j])
      <4> TAKE i \in 1..Len(sc2), j \in 1..Len(pe2)
      <4>1. k + i \in 1..Len(whole) /\ m + j \in 1..Len(whole) /\ k + i < m + j
        BY <2>12, <2>13, <2>8
      <4> QED BY <2>8, <3>5, <4>1 DEF Ascends
    <3>8. ASSUME NEW n, PastScores(sc, vad, n), b < n PROVE PastScores(sc2, v, n)
      <4>1. \A i \in 1..Len(whole) : whole[i].block < n
        <5> TAKE i \in 1..Len(whole)
        <5>1. ASSUME NEW j \in 1..BlockLen, whole[i] = SampleAt(b, j) PROVE whole[i].block < n
          BY <3>8, <5>1 DEF SampleAt
        <5>2. Older(sc, n) /\ Older(pe, n)
          BY <2>17, <3>8 DEF PastScores
        <5> QED BY <2>6, <5>1, <5>2 DEF Older
      <4> QED BY <2>4, <2>8, <4>1 DEF PastScores, Older
    <3>9. \A n : PastDetector(sc, vad, n) => PastDetector(sc2, v, n)
      BY <1>1, <2>4, <2>16, <3>8 DEF PastDetector
    <3>10. DetectorInOrder(sc2, v, inbox)
      BY <2>4, <3>1, <3>6, <3>7, <3>9 DEF DetectorInOrder
    <3>11. \A n : PastInbox(sc, vad, inbox, n) => PastInbox(sc2, v, inbox, n)
      BY <3>9 DEF PastInbox
    <3>12. \A w \in audioWorkers : WorkerInOrder(sc2, v, inbox, w)
      BY <3>1, <3>11 DEF WorkerInOrder
    <3> QED BY <1>1, <1>4, <2>3, <3>10, <3>12 DEF InOrder
  <2> QED BY <1>2, <1>4, <1>5, <2>9, <2>10 DEF AudioInv
<1> QED BY <1>6, <1>7

LEMMA AudioSteps == AudioInv /\ [Audio!AudioNext]_audioVars => AudioInv'
<1> SUFFICES ASSUME AudioInv, [Audio!AudioNext]_audioVars PROVE AudioInv'
  OBVIOUS
<1>1. CASE UNCHANGED audioVars
  <2>1. UNCHANGED Audio!micVars /\ UNCHANGED Audio!vadVars
    BY <1>1 DEF audioVars, Audio!micVars, Audio!vadVars
  <2>2. MicHalf'
    BY <2>1, MicStays DEF AudioInv
  <2>3. VadHalf'
    BY <2>1 DEF AudioInv, VadHalf, Audio!vadVars, Audio!micVars
  <2>4. (audioLate \/ InOrder)'
    BY <2>1 DEF AudioInv, InOrder, Audio!vadVars, Audio!micVars
  <2> QED BY <2>2, <2>3, <2>4 DEF AudioInv
<1>2. CASE Audio!Callback \/ Audio!Take \/ Audio!Publish
  BY <1>2, CallbackStep, TakeStep, PublishStep
<1>3. CASE Audio!WorkerEnds \/ Audio!Reopen \/ Audio!StopMicrophone \/ Audio!CloseStream
    \/ Audio!Joined \/ Audio!OpenStream \/ Audio!OpenStreamFails
  BY <1>3, StreamSteps
<1>4. CASE Audio!TakeBlock \/ Audio!CheckRate \/ Audio!Feed \/ Audio!ResetDetector
  BY <1>4, TakeBlockStep, CheckRateStep, FeedStep, ResetStep
<1> QED BY <1>1, <1>2, <1>3, <1>4 DEF Audio!AudioNext

LEMMA AudioCardinality == \A S : Audio!Cardinality(S) = Cardinality(S)
BY DEF Cardinality, Audio!Cardinality

LEMMA AudioHolds == AudioInv => Audio!AudioTypeOK /\ Audio!AudioIsSound
<1> SUFFICES ASSUME AudioInv PROVE Audio!AudioTypeOK /\ Audio!AudioIsSound
  OBVIOUS
<1> USE AudioAssumption
<1>1. MicHalf /\ VadHalf /\ (audioLate \/ InOrder)
  BY DEF AudioInv
<1>2. Audio!AudioTypeOK
  <2>1. mic \in Microphones /\ stream \in BOOLEAN /\ audioLate \in BOOLEAN
      /\ Len(captured) <= MaxBlocks /\ reopens \in 0..MaxReopens
    BY <1>1 DEF MicHalf
  <2>2. \A w \in audioWorkers : w.rate \in Rates /\ w.closed \in BOOLEAN
      /\ Len(w.queue) <= MicQueue /\ w.item \in Audio!Blocks
    BY <1>1 DEF MicHalf, TrueWorker, LiveWorkers
  <2>3. vad.rate \in Rates \cup {Audio!None} /\ vad.item \in Audio!Blocks /\ vad.checked \in BOOLEAN
    BY <1>1 DEF VadHalf, Detectors
  <2>4. /\ Len(inbox) <= VadQueue /\ Len(vad.pending) < Chunk /\ Len(scored) <= 2 * Chunk
           /\ resets \in 0..MaxResets
        /\ \A i \in DOMAIN inbox : inbox[i] \in Audio!Blocks
        /\ \A i \in DOMAIN scored : scored[i] \in Audio!Samples
    BY <1>1 DEF VadHalf, TrueBlock, TrueSample
  <2> QED BY <2>1, <2>2, <2>3, <2>4 DEF Audio!AudioTypeOK, Microphones
<1>3. Audio!ScoresAreOfOneStream
  <2>1. \A i \in DOMAIN scored : captured[scored[i].block] = ModelRate
    BY <1>1 DEF VadHalf, TrueSample
  <2>2. ASSUME ~audioLate, NEW i \in 1..(Len(scored) - 1)
      PROVE Audio!Before(scored[i], scored[i + 1])
    <3>1. Len(scored) \in Nat
      BY <1>1 DEF VadHalf
    <3>2. i \in 1..Len(scored) /\ i + 1 \in 1..Len(scored) /\ i < i + 1
      BY <3>1
    <3>3. Ascends(scored)
      BY <1>1, <2>2 DEF InOrder, DetectorInOrder
    <3> QED BY <3>2, <3>3 DEF Ascends
  <2>3. vad.pending # <<>> => vad.rate = ModelRate
    BY <1>1 DEF VadHalf
  <2> QED BY <2>1, <2>2, <2>3 DEF Audio!ScoresAreOfOneStream
<1>4. Audio!OpenIsHeard
  <2> DEFINE live == {w \in audioWorkers : ~w.closed}
  <2>1. stream \in BOOLEAN /\ (stream <=> \E w \in live : TRUE) /\ \A w, v \in live : w = v
    BY <1>1 DEF MicHalf
  <2>2. CASE stream
    <3>1. PICK w : live = {w}
      BY <2>1, <2>2
    <3>2. Cardinality({w}) = 1
      BY FS_Singleton
    <3> HIDE DEF live
    <3>3. Cardinality(live) = 1
      BY <3>1, <3>2
    <3> QED BY <1>1, <2>2, <3>3, AudioCardinality DEF Audio!OpenIsHeard, MicHalf, live
  <2>3. CASE ~stream
    <3>1. live = {}
      BY <2>1, <2>3
    <3> HIDE DEF live
    <3>3. Cardinality(live) = 0
      BY <3>1, FS_EmptySet
    <3> QED BY <1>1, <2>3, <3>3, AudioCardinality DEF Audio!OpenIsHeard, MicHalf, live
  <2> QED BY <2>2, <2>3
<1> QED BY <1>2, <1>3, <1>4 DEF Audio!AudioIsSound

-----------------------------------------------------------------------------
(*****************************************************************************)
(* Landmarks and signs.  Between two loads the session, its features and     *)
(* its labels are of one model, a sign that saw no load is read with them,   *)
(* and other features than the session's are in the window or on their way   *)
(* into it, not both.                                                        *)
(*****************************************************************************)
Slr == [session : PoseModels \cup {Pose!None}, face : BOOLEAN,
        labels : PoseModels \cup {Pose!None}, frames : Seq(BOOLEAN)]

DetectedSoFar == IF pose.step = "detect" THEN poses - 1 ELSE poses

ModelIsWhole ==
  /\ load.step \in {"face", "labels"} => slr.session = load.model
  /\ load.step \in {"idle", "session", "clear"} => slr.labels = slr.session
  /\ load.step # "face" /\ slr.session # Pose!None => slr.face = (slr.session \in WithFace)

SignIsAlone ==
  sign.alone /\ sign.step # "idle" =>
    load.step = "idle" /\ (sign.step = "label" => sign.used = slr.session)

Strange(f) == f # (slr.session \in WithFace)

OneIsStrange ==
  load.step \in {"idle", "session"} /\ slr.session # Pose!None =>
    /\ \A i, j \in DOMAIN slr.frames : Strange(slr.frames[i]) /\ Strange(slr.frames[j]) => i = j
    /\ sign.step = "append" /\ Strange(sign.features)
       => \A i \in DOMAIN slr.frames : ~Strange(slr.frames[i])

PoseInv ==
  /\ Pose!PoseTypeOK /\ Pose!PosesAreTrue
  /\ slr \in Slr /\ landmarks \in Seq(Pose!Payloads)
  /\ pose.last <= MaxStamp + DetectedSoFar
  /\ pose.step = "detect" => poses > 0
  /\ ModelIsWhole /\ SignIsAlone /\ OneIsStrange
  /\ emitted.alone => emitted.of = emitted.labels

LEMMA PoseStarts == Pose!PoseInit => PoseInv
<1> SUFFICES ASSUME Pose!PoseInit PROVE PoseInv
  OBVIOUS
<1> USE PoseAssumption
<1>1. /\ pose = [settings |-> [flip |-> FALSE, faceMesh |-> TRUE],
                 used |-> [flip |-> FALSE, faceMesh |-> TRUE],
                 step |-> "idle", last |-> 0]
      /\ stamps = TRUE /\ landmarks = <<>>
         /\ slr = [session |-> Pose!None, face |-> TRUE, labels |-> Pose!None, frames |-> <<>>]
      /\ load = [model |-> Pose!None, step |-> "idle"] /\ sign = Pose!NoSign
      /\ emitted = [of |-> Pose!None, labels |-> Pose!None, alone |-> FALSE] /\ poses = 0
         /\ loads = 0 /\ sets = 0
  BY DEF Pose!PoseInit
<1>2. slr \in Slr /\ landmarks \in Seq(Pose!Payloads) /\ landmarks = <<>> /\ slr.frames = <<>>
  BY <1>1 DEF Slr
<1>3. sign \in [frame : Pose!Payloads, features : Pose!Features, used : PoseModels \cup {Pose!None},
               alone : BOOLEAN, step : {"idle", "features", "append", "infer", "label"}]
                   /\ sign.step = "idle"
  BY <1>1 DEF Pose!NoSign, Pose!NoFrame, Pose!Payloads, Pose!Features
<1>4. pose \in [settings : Pose!Settings, used : Pose!Settings, step : {"idle", "detect", "emit"},
                last : 0..(MaxStamp + MaxPoses)]
  BY <1>1 DEF Pose!Settings
<1>5. Pose!PoseTypeOK
  BY <1>1, <1>2, <1>3, <1>4 DEF Pose!PoseTypeOK, Slr
<1> QED BY <1>1, <1>2, <1>3, <1>4, <1>5 DEF PoseInv, Pose!PosesAreTrue, DetectedSoFar,
     ModelIsWhole, SignIsAlone, OneIsStrange

\* What the steps of pose.py leave to slr.py, and the other way round.
PoseHalf ==
  /\ pose \in [settings : Pose!Settings, used : Pose!Settings, step : {"idle", "detect", "emit"},
               last : 0..(MaxStamp + MaxPoses)]
  /\ stamps /\ pose.last <= MaxStamp + DetectedSoFar
  /\ pose.step = "detect" => poses > 0
  /\ poses \in 0..MaxPoses /\ sets \in 0..MaxSets

LandmarksHalf ==
  /\ landmarks \in Seq(Pose!Payloads) /\ Len(landmarks) <= SignQueue
  /\ \A i \in DOMAIN landmarks : landmarks[i].flipped = landmarks[i].flag
     /\ landmarks[i].face # Pose!None

SlrHalf ==
  /\ slr \in Slr /\ Len(slr.frames) <= Window
  /\ load \in [model : PoseModels \cup {Pose!None},
               step : {"idle", "session", "face", "labels", "clear"}]
  /\ sign \in [frame : Pose!Payloads, features : Pose!Features, used : PoseModels \cup {Pose!None},
               alone : BOOLEAN, step : {"idle", "features", "append", "infer", "label"}]
  /\ emitted \in [of : PoseModels \cup {Pose!None}, labels : PoseModels \cup {Pose!None},
                  alone : BOOLEAN]
  /\ loads \in 0..MaxLoads
  /\ ModelIsWhole /\ SignIsAlone /\ OneIsStrange
  /\ emitted.alone => emitted.of = emitted.labels

LEMMA PoseHalves == PoseInv <=> PoseHalf /\ LandmarksHalf /\ SlrHalf
<1>1. PoseInv => PoseHalf /\ LandmarksHalf /\ SlrHalf
  BY DEF PoseInv, PoseHalf, LandmarksHalf, SlrHalf, Pose!PoseTypeOK, Pose!PosesAreTrue, Slr
<1>2. ASSUME PoseHalf, LandmarksHalf, SlrHalf PROVE PoseInv
  <2>1. \A i \in DOMAIN landmarks : landmarks[i] \in Pose!Payloads
    BY <1>2 DEF LandmarksHalf
  <2>2. \A i \in DOMAIN slr.frames : slr.frames[i] \in Pose!Features
    <3>1. slr.frames \in Seq(BOOLEAN)
      BY <1>2 DEF SlrHalf, Slr
    <3> QED BY <3>1 DEF Pose!Features
  <2>3. slr.session \in PoseModels \cup {Pose!None} /\ slr.face \in BOOLEAN
      /\ slr.labels \in PoseModels \cup {Pose!None}
    BY <1>2 DEF SlrHalf, Slr
  <2>4. stamps \in BOOLEAN
    BY <1>2 DEF PoseHalf
  <2> QED BY <1>2, <2>1, <2>2, <2>3 DEF PoseInv, PoseHalf, LandmarksHalf, SlrHalf,
       Pose!PoseTypeOK, Pose!PosesAreTrue
<1> QED BY <1>1, <1>2

LEMMA PoseHalfStays == PoseHalf /\ UNCHANGED Pose!poseVars => PoseHalf'
BY DEF Pose!poseVars, PoseHalf, DetectedSoFar

LEMMA LandmarksStay == LandmarksHalf /\ UNCHANGED landmarks => LandmarksHalf'
BY DEF LandmarksHalf

LEMMA SlrStays == SlrHalf /\ UNCHANGED Pose!slrVars => SlrHalf'
BY DEF Pose!slrVars, SlrHalf, ModelIsWhole, SignIsAlone, OneIsStrange, Strange

LEMMA PoseHalfSteps ==
  ASSUME PoseHalf, Pose!SetPose \/ Pose!PoseFrame \/ Pose!Detect \/ Pose!EmitPose PROVE PoseHalf'
<1> USE PoseAssumption
<1> DEFINE P == [settings : Pose!Settings, used : Pose!Settings, step : {"idle", "detect", "emit"},
                 last : 0..(MaxStamp + MaxPoses)]
<1>t. pose \in P /\ poses \in 0..MaxPoses /\ pose.last <= MaxStamp + DetectedSoFar /\ stamps
      /\ (pose.step = "detect" => poses > 0) /\ sets \in 0..MaxSets
  BY DEF PoseHalf
<1>1. CASE Pose!SetPose
  <2>1. PICK s \in Pose!Settings : pose' = [pose EXCEPT !.settings = s]
    BY <1>1 DEF Pose!SetPose
  <2>2. pose' \in P /\ pose'.step = pose.step /\ pose'.last = pose.last
    BY <1>t, <2>1
  <2> QED BY <1>1, <1>t, <2>2 DEF Pose!SetPose, PoseHalf, DetectedSoFar
<1>2. CASE Pose!PoseFrame
  <2>1. pose' = [pose EXCEPT !.step = "detect", !.used = pose.settings] /\ poses' = poses + 1
      /\ pose.step = "idle"
        /\ poses < MaxPoses /\ UNCHANGED <<stamps, sets>>
    BY <1>2 DEF Pose!PoseFrame
  <2>2. pose' \in P /\ pose'.step = "detect" /\ pose'.last = pose.last
    BY <1>t, <2>1
  <2> QED BY <1>t, <2>1, <2>2 DEF PoseHalf, DetectedSoFar
<1>3. CASE Pose!Detect
  <2>1. PICK capture \in 0..MaxStamp :
          LET at == IF capture > pose.last THEN capture ELSE pose.last + 1
          IN /\ stamps' = (stamps /\ at > pose.last)
             /\ pose' = [pose EXCEPT !.step = "emit", !.last = at]
    BY <1>3 DEF Pose!Detect
  <2>2. pose.step = "detect" /\ UNCHANGED <<poses, sets>>
    BY <1>3 DEF Pose!Detect
  <2> PICK at : at = IF capture > pose.last THEN capture ELSE pose.last + 1
    OBVIOUS
  <2>3. at \in Nat /\ at > pose.last /\ at <= MaxStamp + poses
    BY <1>t, <2>2 DEF DetectedSoFar
  <2>4. stamps' /\ pose' = [pose EXCEPT !.step = "emit", !.last = at]
    BY <1>t, <2>1, <2>3
  <2>5. at \in 0..(MaxStamp + MaxPoses)
    BY <1>t, <2>3
  <2>6. pose' \in P /\ pose'.step = "emit" /\ pose'.last = at
    BY <1>t, <2>4, <2>5
  <2> QED BY <1>t, <2>2, <2>3, <2>4, <2>6 DEF PoseHalf, DetectedSoFar
<1>4. CASE Pose!EmitPose
  <2>1. pose' = [pose EXCEPT !.step = "idle"] /\ pose.step = "emit"
      /\ UNCHANGED <<stamps, poses, sets>>
    BY <1>4 DEF Pose!EmitPose
  <2>2. pose' \in P /\ pose'.step = "idle" /\ pose'.last = pose.last
    BY <1>t, <2>1
  <2> QED BY <1>t, <2>1, <2>2 DEF PoseHalf, DetectedSoFar
<1> QED BY <1>1, <1>2, <1>3, <1>4

LEMMA EmitLandmarks == ASSUME LandmarksHalf, PoseHalf, Pose!EmitPose PROVE LandmarksHalf'
<1> USE PoseAssumption
<1> DEFINE payload == [flipped |-> pose.used.flip, flag |-> pose.used.flip,
                       face |-> IF pose.used.faceMesh THEN "both" ELSE "drivers"]
<1>1. payload \in Pose!Payloads /\ payload.flipped = payload.flag /\ payload.face # Pose!None
  BY DEF PoseHalf, Pose!Settings, Pose!Payloads, Pose!None
<1> HIDE DEF payload
<1> PICK old : old = IF Len(landmarks) = SignQueue THEN Tail(landmarks) ELSE landmarks
  OBVIOUS
<1>2. landmarks' = Append(old, payload)
  BY DEF Pose!EmitPose, Pose!Queued, payload
<1>3. landmarks \in Seq(Pose!Payloads) /\ Len(landmarks) <= SignQueue
      /\ \A i \in DOMAIN landmarks : landmarks[i].flipped = landmarks[i].flag
         /\ landmarks[i].face # Pose!None
  BY DEF LandmarksHalf
<1>4. old \in Seq(Pose!Payloads) /\ Len(old) < SignQueue
      /\ \A i \in DOMAIN old : old[i].flipped = old[i].flag /\ old[i].face # Pose!None
  <2>1. CASE Len(landmarks) = SignQueue
    <3>1. landmarks # <<>> /\ old = Tail(landmarks)
      BY <1>3, <2>1
    <3>2. old \in Seq(Pose!Payloads) /\ Len(old) = Len(landmarks) - 1
        /\ \A i \in 1..Len(old) : old[i] = landmarks[i + 1]
      BY <1>3, <3>1
    <3> QED BY <1>3, <3>2, <2>1
  <2>2. CASE Len(landmarks) # SignQueue
    BY <1>3, <2>2
  <2> QED BY <2>1, <2>2
<1>5. landmarks' \in Seq(Pose!Payloads) /\ Len(landmarks') = Len(old) + 1 /\ Len(old) \in Nat
      /\ landmarks'[Len(old) + 1] = payload /\ \A i \in 1..Len(old) : landmarks'[i] = old[i]
  BY <1>1, <1>2, <1>4
<1>6. DOMAIN old = 1..Len(old) /\ DOMAIN landmarks' = 1..Len(landmarks')
  BY <1>4, <1>5
<1>7. \A i \in DOMAIN landmarks' : landmarks'[i] = payload
    \/ (i \in DOMAIN old /\ landmarks'[i] = old[i])
  <2> TAKE i \in DOMAIN landmarks'
  <2>1. i \in 1..Len(old) \/ i = Len(old) + 1
    BY <1>5, <1>6
  <2>2. CASE i \in 1..Len(old)
    BY <1>5, <1>6, <2>2
  <2>3. CASE i = Len(old) + 1
    BY <1>5, <2>3
  <2> QED BY <2>1, <2>2, <2>3
<1>8. Len(landmarks') <= SignQueue
  BY <1>4, <1>5
<1> QED BY <1>1, <1>4, <1>5, <1>7, <1>8 DEF LandmarksHalf

\* A load, one assignment at a time.
LEMMA LoadSteps ==
  ASSUME SlrHalf, Pose!LoadModel \/ Pose!LoadFails \/ Pose!SetSession \/ Pose!SetFace
         \/ Pose!SetLabels \/ Pose!ClearWindow PROVE SlrHalf'
<1> USE PoseAssumption
<1> DEFINE L == [model : PoseModels \cup {Pose!None},
                 step : {"idle", "session", "face", "labels", "clear"}]
           S == [frame : Pose!Payloads, features : Pose!Features,
                 used : PoseModels \cup {Pose!None},
                 alone : BOOLEAN, step : {"idle", "features", "append", "infer", "label"}]
<1>t. /\ slr \in Slr /\ Len(slr.frames) <= Window /\ load \in L /\ sign \in S
      /\ emitted \in [of : PoseModels \cup {Pose!None}, labels : PoseModels \cup {Pose!None},
                      alone : BOOLEAN]
      /\ loads \in 0..MaxLoads
      /\ ModelIsWhole /\ SignIsAlone /\ OneIsStrange
      /\ emitted.alone => emitted.of = emitted.labels
  BY DEF SlrHalf
<1>1. CASE Pose!LoadModel
  <2>1. PICK m \in PoseModels : load' = [model |-> m, step |-> "session"]
    BY <1>1 DEF Pose!LoadModel
  <2>2. sign' = [sign EXCEPT !.alone = FALSE] /\ UNCHANGED <<slr, emitted>> /\ load.step = "idle"
        /\ loads < MaxLoads /\ loads' = loads + 1
    BY <1>1 DEF Pose!LoadModel
  <2>3. sign' \in S /\ ~sign'.alone /\ sign'.step = sign.step /\ sign'.features = sign.features
    BY <1>t, <2>2
  <2>4. load' \in L /\ load'.step = "session"
    BY <2>1
  <2> QED BY <1>t, <2>2, <2>3, <2>4 DEF SlrHalf, ModelIsWhole, SignIsAlone, OneIsStrange,
       Strange
<1>2. CASE Pose!LoadFails
  <2>1. load' = [model |-> Pose!None, step |-> "idle"] /\ load.step = "session"
      /\ UNCHANGED <<slr, sign, emitted, loads>>
    BY <1>2 DEF Pose!LoadFails
  <2>2. load' \in L /\ load'.step = "idle"
    BY <2>1
  <2> QED BY <1>t, <2>1, <2>2 DEF SlrHalf, ModelIsWhole, SignIsAlone, OneIsStrange, Strange
<1>3. ASSUME NEW from, NEW to \in {"face", "labels", "clear", "idle"}, NEW with,
    Pose!LoadStep(from, to, with)
      PROVE  /\ load.step = from /\ load' \in L /\ load'.step = to /\ load'.model = load.model
                /\ slr' = with
             /\ UNCHANGED <<sign, emitted, loads>>
  BY <1>t, <1>3 DEF Pose!LoadStep
<1>4. CASE Pose!SetSession
  <2>1. Pose!LoadStep("session", "face", [slr EXCEPT !.session = load.model])
    BY <1>4 DEF Pose!SetSession
  <2>2. /\ load.step = "session" /\ load' \in L /\ load'.step = "face" /\ load'.model = load.model
        /\ slr' = [slr EXCEPT !.session = load.model] /\ UNCHANGED <<sign, emitted, loads>>
    BY <1>3, <2>1
  <2>3. slr' \in Slr /\ slr'.session = load.model /\ slr'.frames = slr.frames
    BY <1>t, <2>2 DEF Slr
  <2> QED BY <1>t, <2>2, <2>3 DEF SlrHalf, ModelIsWhole, SignIsAlone, OneIsStrange
<1>5. CASE Pose!SetFace
  <2>1. Pose!LoadStep("face", "labels", [slr EXCEPT !.face = load.model \in WithFace])
    BY <1>5 DEF Pose!SetFace
  <2>2. /\ load.step = "face" /\ load' \in L /\ load'.step = "labels" /\ load'.model = load.model
        /\ slr' = [slr EXCEPT !.face = load.model \in WithFace]
           /\ UNCHANGED <<sign, emitted, loads>>
    BY <1>3, <2>1
  <2>5. (load.model \in WithFace) \in BOOLEAN
    OBVIOUS
  <2> PICK face \in BOOLEAN : face = (load.model \in WithFace)
    BY <2>5
  <2>4. slr' = [slr EXCEPT !.face = face]
    BY <2>2
  <2>3. slr' \in Slr /\ slr'.session = slr.session /\ slr'.frames = slr.frames
      /\ slr'.face = (load.model \in WithFace)
    BY <1>t, <2>4 DEF Slr
  <2> QED BY <1>t, <2>2, <2>3 DEF SlrHalf, ModelIsWhole, SignIsAlone, OneIsStrange
<1>6. CASE Pose!SetLabels
  <2>1. Pose!LoadStep("labels", "clear", [slr EXCEPT !.labels = load.model])
    BY <1>6 DEF Pose!SetLabels
  <2>2. /\ load.step = "labels" /\ load' \in L /\ load'.step = "clear" /\ load'.model = load.model
        /\ slr' = [slr EXCEPT !.labels = load.model] /\ UNCHANGED <<sign, emitted, loads>>
    BY <1>3, <2>1
  <2>3. slr' \in Slr /\ slr'.session = slr.session /\ slr'.frames = slr.frames
      /\ slr'.face = slr.face
        /\ slr'.labels = load.model
    BY <1>t, <2>2 DEF Slr
  <2> QED BY <1>t, <2>2, <2>3 DEF SlrHalf, ModelIsWhole, SignIsAlone, OneIsStrange
<1>7. CASE Pose!ClearWindow
  <2>1. Pose!LoadStep("clear", "idle", [slr EXCEPT !.frames = <<>>])
    BY <1>7 DEF Pose!ClearWindow
  <2>2. /\ load.step = "clear" /\ load' \in L /\ load'.step = "idle"
        /\ slr' = [slr EXCEPT !.frames = <<>>] /\ UNCHANGED <<sign, emitted, loads>>
    BY <1>3, <2>1
  <2>4. <<>> \in Seq(BOOLEAN)
    OBVIOUS
  <2> PICK none \in Seq(BOOLEAN) : none = <<>>
    BY <2>4
  <2>3. slr' \in Slr /\ slr'.session = slr.session /\ slr'.frames = none /\ slr'.face = slr.face
        /\ slr'.labels = slr.labels /\ Len(none) = 0 /\ DOMAIN none = {}
    <3>1. slr' = [slr EXCEPT !.frames = none]
      BY <2>2
    <3>2. slr' \in Slr /\ slr'.session = slr.session /\ slr'.frames = none /\ slr'.face = slr.face
        /\ slr'.labels = slr.labels
      BY <1>t, <3>1 DEF Slr
    <3> QED BY <3>2
  <2> QED BY <1>t, <2>2, <2>3 DEF SlrHalf, ModelIsWhole, SignIsAlone, OneIsStrange
<1> QED BY <1>1, <1>2, <1>4, <1>5, <1>6, <1>7

\* A sign, from its frame to its name.
LEMMA SignSteps ==
  ASSUME SlrHalf, LandmarksHalf, Pose!SignFrame \/ Pose!Adapt \/ Pose!AddFrame \/ Pose!InferSign
         \/ Pose!EmitSign PROVE SlrHalf'
<1> USE PoseAssumption
<1> DEFINE L == [model : PoseModels \cup {Pose!None},
                 step : {"idle", "session", "face", "labels", "clear"}]
           S == [frame : Pose!Payloads, features : Pose!Features,
                 used : PoseModels \cup {Pose!None},
                 alone : BOOLEAN, step : {"idle", "features", "append", "infer", "label"}]
<1>t. /\ slr \in Slr /\ Len(slr.frames) <= Window /\ load \in L /\ sign \in S
      /\ emitted \in [of : PoseModels \cup {Pose!None}, labels : PoseModels \cup {Pose!None},
                      alone : BOOLEAN]
      /\ loads \in 0..MaxLoads
      /\ ModelIsWhole /\ SignIsAlone /\ OneIsStrange
      /\ emitted.alone => emitted.of = emitted.labels
  BY DEF SlrHalf
<1>n. Pose!NoSign \in S /\ Pose!NoSign.step = "idle"
  BY DEF Pose!NoSign, Pose!NoFrame, Pose!Payloads, Pose!Features
<1>1. CASE Pose!SignFrame
  <2>1. UNCHANGED <<slr, load, emitted, loads>> /\ landmarks # <<>>
    BY <1>1 DEF Pose!SignFrame
  <2>2. CASE slr.session = Pose!None
    BY <1>1, <1>t, <2>1, <2>2 DEF Pose!SignFrame, SlrHalf, ModelIsWhole, SignIsAlone,
         OneIsStrange, Strange
  <2>3. CASE slr.session # Pose!None
    <3>1. sign' = [Pose!NoSign EXCEPT !.frame = Head(landmarks), !.alone = load.step = "idle",
                   !.step = "features"]
      BY <1>1, <2>3 DEF Pose!SignFrame
    <3>2. Head(landmarks) \in Pose!Payloads
      BY <2>1 DEF LandmarksHalf
    <3>3. (load.step = "idle") \in BOOLEAN
      OBVIOUS
    <3>4. sign' \in S /\ sign'.step = "features" /\ sign'.alone = (load.step = "idle")
      BY <1>n, <3>1, <3>2, <3>3
    <3> QED BY <1>t, <2>1, <3>4 DEF SlrHalf, ModelIsWhole, SignIsAlone, OneIsStrange, Strange
  <2> QED BY <2>2, <2>3
<1>2. CASE Pose!Adapt
  <2>1. /\ sign' = [sign EXCEPT !.features = slr.face, !.step = "append"] /\ sign.step = "features"
        /\ UNCHANGED <<slr, load, emitted, loads>>
    BY <1>2 DEF Pose!Adapt
  <2>2. slr.face \in Pose!Features
    BY <1>t DEF Slr, Pose!Features
  <2>3. sign' \in S /\ sign'.step = "append" /\ sign'.features = slr.face
      /\ sign'.alone = sign.alone
    BY <1>t, <2>1, <2>2
  <2>4. OneIsStrange'
    BY <1>t, <2>1, <2>3 DEF ModelIsWhole, OneIsStrange, Strange
  <2> QED BY <1>t, <2>1, <2>3, <2>4 DEF SlrHalf, ModelIsWhole, SignIsAlone
<1>3. CASE Pose!AddFrame
  <2>1. UNCHANGED <<load, emitted, loads>> /\ sign.step = "append"
    BY <1>3 DEF Pose!AddFrame
  <2> DEFINE all == Append(slr.frames, sign.features)
  <2> PICK frames0 : frames0 = IF Len(all) > Window THEN Tail(all) ELSE all
    OBVIOUS
  <2>2. slr.frames \in Seq(BOOLEAN) /\ sign.features \in BOOLEAN
    BY <1>t DEF Slr, Pose!Features
  <2>3. all \in Seq(BOOLEAN) /\ Len(all) = Len(slr.frames) + 1 /\ all[Len(all)] = sign.features
        /\ \A i \in 1..Len(slr.frames) : all[i] = slr.frames[i]
    BY <2>2
  <2> HIDE DEF all
  <2>4. PICK k \in {0, 1} : /\ frames0 \in Seq(BOOLEAN) /\ Len(frames0) = Len(all) - k
                               /\ Len(frames0) <= Window
                            /\ \A i \in 1..Len(frames0) : frames0[i] = all[i + k]
    <3>1. CASE Len(all) > Window
      <4>1. all # <<>> /\ frames0 = Tail(all)
        BY <2>3, <3>1
      <4>3. all \in Seq(BOOLEAN)
        BY <2>3
      <4>6. Tail(all) \in Seq(BOOLEAN) /\ Len(Tail(all)) = Len(all) - 1
        BY <4>1, <4>3
      <4>4. frames0 \in Seq(BOOLEAN) /\ Len(frames0) = Len(all) - 1
        BY <4>1, <4>6
      <4>5. \A i \in 1..Len(frames0) : frames0[i] = all[i + 1]
        BY <4>1, <4>3, <4>4
      <4>2. frames0 \in Seq(BOOLEAN) /\ Len(frames0) = Len(all) - 1
          /\ \A i \in 1..Len(frames0) : frames0[i] = all[i + 1]
        BY <4>4, <4>5
      <4> QED BY <1>t, <2>2, <2>3, <4>2
    <3>2. CASE ~(Len(all) > Window)
      BY <2>3, <3>2
    <3> QED BY <3>1, <3>2
  <2>5. slr' = [slr EXCEPT !.frames = frames0]
    BY <1>3 DEF Pose!AddFrame, all
  <2>6. slr' \in Slr /\ slr'.session = slr.session /\ slr'.face = slr.face
      /\ slr'.labels = slr.labels
        /\ slr'.frames = frames0
    BY <1>t, <2>4, <2>5 DEF Slr
  <2>7. sign' = [sign EXCEPT !.step = IF Len(slr'.frames) = Window THEN "infer" ELSE "idle"]
    BY <1>3 DEF Pose!AddFrame
  <2>8. sign' \in S /\ sign'.step \in {"infer", "idle"} /\ sign'.alone = sign.alone
    BY <1>t, <2>7
  <2>9. ASSUME load.step \in {"idle", "session"}, slr.session # Pose!None,
               NEW i \in DOMAIN frames0, NEW j \in DOMAIN frames0, Strange(frames0[i]),
                   Strange(frames0[j])
        PROVE  i = j
    <3>1. i \in 1..Len(frames0) /\ j \in 1..Len(frames0) /\ i + k \in 1..Len(all)
        /\ j + k \in 1..Len(all)
      <4>1. DOMAIN frames0 = 1..Len(frames0) /\ Len(frames0) \in Nat /\ Len(all) \in Nat
          /\ Len(frames0) = Len(all) - k
        BY <2>3, <2>4
      <4>2. i \in 1..Len(frames0) /\ j \in 1..Len(frames0)
        BY <2>9, <4>1
      <4> QED BY <4>1, <4>2
    <3>2. Strange(all[i + k]) /\ Strange(all[j + k])
      BY <2>4, <2>9, <3>1
    <3>3. i + k = j + k
      <4>1. CASE Strange(sign.features)
        <5>2. DOMAIN slr.frames = 1..Len(slr.frames) /\ Len(slr.frames) \in Nat
          BY <2>2
        <5>3. \A n \in DOMAIN slr.frames : ~Strange(slr.frames[n])
          BY <1>t, <2>1, <2>9, <4>1 DEF OneIsStrange
        <5>1. \A n \in 1..Len(slr.frames) : ~Strange(all[n])
          BY <2>3, <5>2, <5>3
        <5> HIDE DEF Strange
        <5>4. i + k \notin 1..Len(slr.frames) /\ j + k \notin 1..Len(slr.frames)
          BY <3>2, <5>1
        <5>5. i + k = Len(slr.frames) + 1 /\ j + k = Len(slr.frames) + 1
          BY <2>3, <3>1, <5>2, <5>4
        <5> QED BY <5>5
      <4>2. CASE ~Strange(sign.features)
        <5>1. i + k \in 1..Len(slr.frames) /\ j + k \in 1..Len(slr.frames)
          <6>1. i + k # Len(all) /\ j + k # Len(all)
            BY <2>3, <3>2, <4>2
          <6> QED BY <2>2, <2>3, <3>1, <6>1
        <5>2. Strange(slr.frames[i + k]) /\ Strange(slr.frames[j + k])
          BY <2>3, <3>2, <5>1
        <5>3. i + k \in DOMAIN slr.frames /\ j + k \in DOMAIN slr.frames
          BY <2>2, <5>1
        <5> QED BY <1>t, <2>9, <5>2, <5>3 DEF OneIsStrange
      <4> QED BY <4>1, <4>2
    <3> QED BY <2>4, <3>1, <3>3
  <2>10. OneIsStrange'
    BY <2>1, <2>6, <2>8, <2>9 DEF OneIsStrange, Strange
  <2> QED BY <1>t, <2>1, <2>4, <2>6, <2>8, <2>10 DEF SlrHalf, ModelIsWhole, SignIsAlone
<1>4. CASE Pose!InferSign
  <2>1. UNCHANGED <<slr, load, emitted, loads>> /\ sign.step = "infer"
    BY <1>4 DEF Pose!InferSign
  <2>2. PICK step0 \in {"label", "idle"} : sign' = [sign EXCEPT !.used = slr.session,
                                                    !.step = step0]
    BY <1>4 DEF Pose!InferSign
  <2>3. slr.session \in PoseModels \cup {Pose!None}
    BY <1>t DEF Slr
  <2>4. sign' \in S /\ sign'.step \in {"label", "idle"} /\ sign'.used = slr.session
      /\ sign'.alone = sign.alone
    BY <1>t, <2>2, <2>3
  <2> QED BY <1>t, <2>1, <2>4 DEF SlrHalf, ModelIsWhole, SignIsAlone, OneIsStrange, Strange
<1>5. CASE Pose!EmitSign
  <2>1. /\ emitted' = [of |-> sign.used, labels |-> slr.labels, alone |-> sign.alone]
        /\ sign' = Pose!NoSign /\ UNCHANGED <<slr, load, loads>> /\ sign.step = "label"
    BY <1>5 DEF Pose!EmitSign
  <2>2. sign.used \in PoseModels \cup {Pose!None} /\ slr.labels \in PoseModels \cup {Pose!None}
      /\ sign.alone \in BOOLEAN
    BY <1>t DEF Slr
  <2>3. sign.alone => sign.used = slr.labels
    BY <1>t, <2>1 DEF SignIsAlone, ModelIsWhole
  <2> QED BY <1>t, <1>n, <2>1, <2>2, <2>3 DEF SlrHalf, ModelIsWhole, SignIsAlone,
       OneIsStrange, Strange
<1> QED BY <1>1, <1>2, <1>3, <1>4, <1>5

LEMMA TakeLandmarks == ASSUME LandmarksHalf, Pose!SignFrame PROVE LandmarksHalf'
<1>1. landmarks # <<>> /\ landmarks' = Tail(landmarks)
  BY DEF Pose!SignFrame
<1>2. landmarks \in Seq(Pose!Payloads) /\ Len(landmarks) <= SignQueue /\ SignQueue \in Nat
      /\ \A i \in DOMAIN landmarks : landmarks[i].flipped = landmarks[i].flag
         /\ landmarks[i].face # Pose!None
  BY PoseAssumption DEF LandmarksHalf
<1>3. landmarks \in Seq(Pose!Payloads)
  BY <1>2
<1>4. landmarks' \in Seq(Pose!Payloads) /\ Len(landmarks') = Len(landmarks) - 1
    /\ Len(landmarks) \in Nat
      /\ DOMAIN landmarks = 1..Len(landmarks)
  BY <1>1, <1>3
<1>5. DOMAIN landmarks' = 1..Len(landmarks')
    /\ \A i \in 1..Len(landmarks') : landmarks'[i] = landmarks[i + 1]
  BY <1>1, <1>3, <1>4
<1>6. \A i \in 1..Len(landmarks') : i + 1 \in DOMAIN landmarks
  BY <1>4
<1>7. Len(landmarks') <= SignQueue
  BY <1>2, <1>4
<1> QED BY <1>2, <1>4, <1>5, <1>6, <1>7 DEF LandmarksHalf

LEMMA PoseSteps == PoseInv /\ [Pose!PoseNext]_poseVars => PoseInv'
<1> SUFFICES ASSUME PoseHalf, LandmarksHalf, SlrHalf, [Pose!PoseNext]_poseVars
    PROVE PoseHalf' /\ LandmarksHalf' /\ SlrHalf'
  <2>1. (PoseHalf /\ LandmarksHalf /\ SlrHalf)' => PoseInv'
    BY PoseHalves, PTL
  <2> QED BY <2>1, PoseHalves
<1>1. CASE UNCHANGED poseVars
  <2>1. UNCHANGED Pose!poseVars /\ UNCHANGED landmarks /\ UNCHANGED Pose!slrVars
    BY <1>1 DEF poseVars, Pose!poseVars, Pose!slrVars
  <2> QED BY <2>1, PoseHalfStays, LandmarksStay, SlrStays
<1>2. CASE Pose!SetPose \/ Pose!PoseFrame \/ Pose!Detect
  <2>1. UNCHANGED landmarks /\ UNCHANGED Pose!slrVars
    BY <1>2 DEF Pose!SetPose, Pose!PoseFrame, Pose!Detect
  <2> QED BY <1>2, <2>1, PoseHalfSteps, LandmarksStay, SlrStays
<1>3. CASE Pose!EmitPose
  <2>1. UNCHANGED Pose!slrVars
    BY <1>3 DEF Pose!EmitPose
  <2> QED BY <1>3, <2>1, PoseHalfSteps, EmitLandmarks, SlrStays
<1>4. CASE Pose!LoadModel \/ Pose!LoadFails \/ Pose!SetSession \/ Pose!SetFace \/ Pose!SetLabels
    \/ Pose!ClearWindow
  <2>1. UNCHANGED landmarks /\ UNCHANGED Pose!poseVars
    BY <1>4 DEF Pose!LoadModel, Pose!LoadFails, Pose!SetSession, Pose!SetFace, Pose!SetLabels,
         Pose!ClearWindow, Pose!LoadStep
  <2> QED BY <1>4, <2>1, PoseHalfStays, LandmarksStay, LoadSteps
<1>5. CASE Pose!Adapt \/ Pose!AddFrame \/ Pose!InferSign \/ Pose!EmitSign
  <2>1. UNCHANGED landmarks /\ UNCHANGED Pose!poseVars
    BY <1>5 DEF Pose!Adapt, Pose!AddFrame, Pose!InferSign, Pose!EmitSign
  <2> QED BY <1>5, <2>1, PoseHalfStays, LandmarksStay, SignSteps
<1>6. CASE Pose!SignFrame
  <2>1. UNCHANGED Pose!poseVars
    BY <1>6 DEF Pose!SignFrame
  <2> QED BY <1>6, <2>1, PoseHalfStays, TakeLandmarks, SignSteps
<1> QED BY <1>1, <1>2, <1>3, <1>4, <1>5, <1>6 DEF Pose!PoseNext

LEMMA PoseCardinality == \A S : Pose!Cardinality(S) = Cardinality(S)
BY DEF Cardinality, Pose!Cardinality

LEMMA PoseHolds == PoseInv => Pose!PosesAreSound
<1> SUFFICES ASSUME PoseInv, load.step = "idle", slr.session # Pose!None
             PROVE  Cardinality({i \in DOMAIN slr.frames : Strange(slr.frames[i])}) <= 1
  BY PoseCardinality DEF Pose!PosesAreSound, Pose!SignsAreOfOneModel, Strange, PoseInv
<1> DEFINE strange == {i \in DOMAIN slr.frames : Strange(slr.frames[i])}
<1>1. \A i, j \in strange : i = j
  BY DEF PoseInv, OneIsStrange
<1>2. CASE strange = {}
  BY <1>2, FS_EmptySet
<1>3. CASE strange # {}
  <2>1. PICK i : strange = {i}
    BY <1>1, <1>3
  <2> HIDE DEF strange
  <2>3. Cardinality({i}) = 1
    BY FS_Singleton
  <2>2. Cardinality(strange) <= 1
    BY <2>1, <2>3
  <2> QED BY <2>2 DEF strange
<1> QED BY <1>2, <1>3

-----------------------------------------------------------------------------
(*****************************************************************************)
(* Hands found in camera frames.  A failure is in one warning or waits, and  *)
(* the hands that are kept are some of the frame's.                          *)
(*****************************************************************************)
LEMMA LeastNumber ==
  ASSUME NEW S \in SUBSET Nat, S # {}
  PROVE  \E n \in S : \A i \in S : n <= i
<1>1. PICK n \in S : \A i \in S : <<i, n>> \notin OpToRel(<, Nat)
  BY NatLessThanWellFounded, WFMin
<1>2. SUFFICES ASSUME NEW i \in S, i < n PROVE FALSE
  OBVIOUS
<1>3. PICK pair : pair = <<i, n>>
  OBVIOUS
<1>4. pair \in Nat \X Nat /\ pair[1] < pair[2]
  BY <1>2, <1>3
<1>5. pair \in OpToRel(<, Nat)
  BY <1>4 DEF OpToRel
<1> QED
  BY <1>1, <1>3, <1>5

KeepsFrom(f, n) ==
  f = [i \in 0..n |-> IF i = 0 THEN <<>>
                      ELSE IF <<hp.homography, hand[i]>> \in MyLost THEN f[i - 1]
                      ELSE Append(f[i - 1], hand[i])]

LEMMA KeptIsMade ==
  ASSUME NEW n \in Nat
  PROVE  \E f : KeepsFrom(f, n)
<1> DEFINE bad == {m \in Nat : ~\E f : KeepsFrom(f, m)}
<1>1. SUFFICES ASSUME bad # {} PROVE FALSE
  OBVIOUS
<1>2. PICK m \in bad : \A i \in bad : m <= i
  BY <1>1, LeastNumber
<1>3. CASE m = 0
  <2> DEFINE f == [i \in 0..0 |-> <<>>]
  <2>1. KeepsFrom(f, 0)
    BY DEF KeepsFrom
  <2> QED BY <1>3, <2>1
<1>4. CASE m # 0
  <2>1. m - 1 \in Nat /\ m - 1 \notin bad
    BY <1>2, <1>4
  <2>2. PICK g : KeepsFrom(g, m - 1)
    BY <2>1
  <2> DEFINE last == IF <<hp.homography, hand[m]>> \in MyLost THEN g[m - 1] ELSE Append(g[m - 1],
                                                                                        hand[m])
             f == [i \in 0..m |-> IF i = m THEN last ELSE g[i]]
  <2> HIDE DEF last
  <2>3. f[m] = last /\ f[0] = <<>> /\ \A i \in 0..(m - 1) : f[i] = g[i]
    BY <1>4, <2>2 DEF KeepsFrom
  <2>4. \A i \in 1..(m - 1) : f[i] = IF <<hp.homography, hand[i]>> \in MyLost THEN f[i - 1]
                                     ELSE Append(f[i - 1], hand[i])
    <3> TAKE i \in 1..(m - 1)
    <3>1. f[i] = g[i] /\ f[i - 1] = g[i - 1] /\ i \in 0..(m - 1) /\ i # 0
      BY <2>3
    <3> HIDE DEF f
    <3> QED BY <2>2, <3>1 DEF KeepsFrom
  <2>5. f[m] = IF <<hp.homography, hand[m]>> \in MyLost THEN f[m - 1] ELSE Append(f[m - 1], hand[m])
    BY <1>4, <2>3 DEF last
  <2>6. f = [i \in 0..m |-> f[i]]
    OBVIOUS
  <2>7. KeepsFrom(f, m)
    <3> HIDE DEF f
    <3>1. \A i \in 0..m : f[i] = IF i = 0 THEN <<>>
                      ELSE IF <<hp.homography, hand[i]>> \in MyLost THEN f[i - 1]
                      ELSE Append(f[i - 1], hand[i])
      <4> TAKE i \in 0..m
      <4>1. i = 0 \/ i = m \/ i \in 1..(m - 1)
        OBVIOUS
      <4> QED BY <1>4, <2>3, <2>4, <2>5, <4>1
    <3> QED BY <2>6, <3>1 DEF KeepsFrom
  <2> QED BY <2>7
<1> QED BY <1>3, <1>4

LEMMA KeptStepwise ==
  ASSUME NEW f, NEW n \in Nat, KeepsFrom(f, n)
  PROVE  f[0] = <<>> /\ \A i \in 1..n : f[i] \in {f[i - 1], Append(f[i - 1], hand[i])}
<1>1. \A i \in 0..n : f[i] = IF i = 0 THEN <<>>
                      ELSE IF <<hp.homography, hand[i]>> \in MyLost THEN f[i - 1]
                      ELSE Append(f[i - 1], hand[i])
  <2> DEFINE g(i) == IF i = 0 THEN <<>>
                      ELSE IF <<hp.homography, hand[i]>> \in MyLost THEN f[i - 1]
                      ELSE Append(f[i - 1], hand[i])
  <2>1. f = [i \in 0..n |-> g(i)]
    BY DEF KeepsFrom
  <2> HIDE DEF g
  <2>2. \A i \in 0..n : f[i] = g(i)
    BY <2>1
  <2> QED BY <2>2 DEF g
<1>2. 0 \in 0..n /\ \A i \in 1..n : i \in 0..n /\ i # 0
  OBVIOUS
<1> QED BY <1>1, <1>2

LEMMA KeptFrom ==
  ASSUME hand \in Seq(HandsHands), NEW f, KeepsFrom(f, Len(hand))
  PROVE  f[Len(hand)] \in Seq(HandsHands)
<1> PICK n : n = Len(hand)
  OBVIOUS
<1>1. n \in Nat /\ \A i \in 1..n : hand[i] \in HandsHands
  OBVIOUS
<1>2. f[0] = <<>> /\ \A i \in 1..n : f[i] \in {f[i - 1], Append(f[i - 1], hand[i])}
  BY <1>1, KeptStepwise
<1> DEFINE bad == {m \in 0..n : f[m] \notin Seq(HandsHands)}
<1>3. ASSUME bad # {} PROVE FALSE
  <2>1. bad \in SUBSET Nat
    BY <1>1
  <2>2. PICK m \in bad : \A i \in bad : m <= i
    BY <1>3, <2>1, LeastNumber
  <2>3. m # 0
    <3>1. <<>> \in Seq(HandsHands)
      OBVIOUS
    <3> QED BY <1>2, <2>2, <3>1
  <2>4. m - 1 \in 0..n /\ m \in 1..n /\ m - 1 \notin bad
    BY <1>1, <2>2, <2>3
  <2>5. f[m - 1] \in Seq(HandsHands) /\ hand[m] \in HandsHands
    BY <1>1, <2>4
  <2>6. Append(f[m - 1], hand[m]) \in Seq(HandsHands)
    BY <2>5
  <2> QED BY <1>2, <2>2, <2>4, <2>5, <2>6
<1> QED BY <1>1, <1>3

LEMMA KeptAre == ASSUME hand \in Seq(HandsHands) PROVE Hands!Kept \in Seq(HandsHands)
<1> DEFINE f == CHOOSE f : KeepsFrom(f, Len(hand))
<1>1. KeepsFrom(f, Len(hand))
  BY KeptIsMade
<1>2. Hands!Kept = f[Len(hand)]
  BY DEF Hands!Kept, KeepsFrom
<1> HIDE DEF f
<1> QED BY <1>1, <1>2, KeptFrom

LEMMA HandsCardinality == \A S : Hands!Cardinality(S) = Cardinality(S)
BY DEF Cardinality, Hands!Cardinality

LEMMA FoundAre ==
  ASSUME NEW found \in SUBSET HandsHands, NEW s \in Hands!SetToSeqs(found)
  PROVE  s \in Seq(HandsHands)
<1>1. Cardinality(found) \in Nat
  BY HandAssumption, FS_Subset, FS_CardinalityType
<1>2. s \in [1..Cardinality(found) -> HandsHands]
  BY HandsCardinality DEF Hands!SetToSeqs
<1> QED BY <1>1, <1>2

HandInv ==
  /\ Hands!HandTypeOK /\ Hands!HandsAreSound
  /\ hand \in Seq(HandsHands)
  /\ hp.step = "detect" => hlock = "data"
  /\ sent.landmarks \in Seq(HandsHands)

LEMMA HandsStart == Hands!HandInit => HandInv
<1> SUFFICES ASSUME Hands!HandInit PROVE HandInv
  OBVIOUS
<1>1. Hands!Range(<<>>) = {}
  BY DEF Hands!Range
<1> QED BY <1>1, HandAssumption DEF Hands!HandInit, HandInv, Hands!HandTypeOK,
     Hands!HandsAreSound

LEMMA RangesAre == ASSUME NEW s \in Seq(HandsHands) PROVE Hands!Range(s) \subseteq HandsHands
BY DEF Hands!Range

LEMMA HandSteps == HandInv /\ [Hands!HandNext]_handsVars => HandInv'
<1> SUFFICES ASSUME HandInv, [Hands!HandNext]_handsVars PROVE HandInv'
  OBVIOUS
<1> USE DEF HandInv
<1> DEFINE HP == [detector : BOOLEAN, homography : Homographies \cup {Hands!Unset},
                  step : {"idle", "wait", "detect", "warp"}]
<1>1. CASE UNCHANGED handsVars
  BY <1>1 DEF handsVars, Hands!HandTypeOK, Hands!HandsAreSound
<1>2. CASE Hands!SetHomography
  <2>1. PICK h \in Homographies \cup {Hands!Unset} : hp' = [hp EXCEPT !.homography = h]
    BY <1>2 DEF Hands!SetHomography
  <2>2. hp' \in HP /\ hp'.step = hp.step /\ hp'.detector = hp.detector
    BY <2>1 DEF Hands!HandTypeOK
  <2>3. /\ changes' \in 0..MaxChanges
        /\ UNCHANGED <<hand, hlock, cleaned, sent, handFailed, hframes>>
    BY <1>2, HandAssumption DEF Hands!SetHomography, Hands!HandTypeOK
  <2>4. Hands!HandTypeOK'
    BY <2>2, <2>3 DEF Hands!HandTypeOK
  <2> QED BY <2>2, <2>3, <2>4 DEF Hands!HandsAreSound
<1>3. CASE Hands!HandFrame
  <2>1. /\ hframes' \in 0..MaxHandFrames /\ UNCHANGED <<hand, hlock, cleaned, sent, handFailed, changes>>
        /\ hp' = [hp EXCEPT !.step = IF cleaned # "no" \/ ~hp.detector THEN "idle" ELSE "wait"]
    BY <1>3, HandAssumption DEF Hands!HandFrame, Hands!HandTypeOK
  <2>2. hp' \in HP /\ hp'.step # "detect" /\ hp'.detector = hp.detector
    BY <2>1 DEF Hands!HandTypeOK
  <2> HIDE DEF HP
  <2>3. Hands!HandTypeOK'
    BY <2>1, <2>2 DEF Hands!HandTypeOK, HP
  <2> QED BY <2>1, <2>2, <2>3 DEF Hands!HandsAreSound
<1>4. CASE Hands!LockDetector
  BY <1>4, HandAssumption DEF Hands!LockDetector, Hands!HandTypeOK, Hands!HandsAreSound
<1>5. CASE Hands!DetectHands
  <2>1. hand' \in Seq(HandsHands)
    BY <1>5, FoundAre DEF Hands!DetectHands
  <2>2. Hands!Range(hand') \subseteq HandsHands
    BY <2>1, RangesAre
  <2> QED BY <1>5, <2>1, <2>2 DEF Hands!DetectHands, Hands!HandTypeOK, Hands!HandsAreSound,
       Hands!Nobody
<1>6. CASE Hands!DetectFails
  <2>1. handFailed' \in [all : 0..MaxFailures, waiting : 0..MaxFailures, told : 0..MaxFailures,
                         recent : BOOLEAN]
        /\ handFailed'.all = handFailed'.told + handFailed'.waiting
    <3>1. handFailed.all < MaxFailures /\ handFailed.all = handFailed.told + handFailed.waiting
          /\ handFailed \in [all : 0..MaxFailures, waiting : 0..MaxFailures, told : 0..MaxFailures,
                             recent : BOOLEAN]
      BY <1>6 DEF Hands!DetectFails, Hands!HandTypeOK, Hands!HandsAreSound
    <3>2. CASE handFailed.recent
      <4>1. handFailed' = [all |-> handFailed.all + 1, waiting |-> handFailed.waiting + 1,
                           told |-> handFailed.told,
                           recent |-> handFailed.recent]
        BY <1>6, <3>1, <3>2 DEF Hands!DetectFails
      <4> QED BY <3>1, <4>1, HandAssumption
    <3>3. CASE ~handFailed.recent
      <4>1. handFailed' = [all |-> handFailed.all + 1, waiting |-> 0,
                           told |-> handFailed.told + handFailed.waiting + 1,
                           recent |-> TRUE]
        BY <1>6, <3>1, <3>3 DEF Hands!DetectFails
      <4> QED BY <3>1, <4>1, HandAssumption
    <3> QED BY <3>2, <3>3
  <2> QED BY <1>6, <2>1 DEF Hands!DetectFails, Hands!HandTypeOK, Hands!HandsAreSound
<1>7. CASE Hands!IntervalPasses
  BY <1>7, HandAssumption DEF Hands!IntervalPasses, Hands!HandTypeOK, Hands!HandsAreSound
<1>8. CASE Hands!Warp
  <2>1. Hands!Kept \in Seq(HandsHands) /\ Hands!Range(Hands!Kept) \subseteq HandsHands
    BY KeptAre, RangesAre
  <2>2. Hands!Range(<<>>) = {}
    BY DEF Hands!Range
  <2>3. sent' = [landmarks |-> Hands!Kept, handedness |-> Hands!Kept] /\ hand' = <<>>
        /\ UNCHANGED <<hlock, cleaned, handFailed, hframes, changes>>
        /\ hp' = [hp EXCEPT !.step = "idle"]
    BY <1>8 DEF Hands!Warp
  <2>4. Hands!Range(hand') \subseteq HandsHands /\ hand' \in Seq(HandsHands)
    BY <2>2, <2>3
  <2>5. Hands!Range(sent'.landmarks) \subseteq HandsHands /\ sent'.landmarks \in Seq(HandsHands)
      /\ sent'.landmarks = sent'.handedness
    BY <2>1, <2>3
  <2>6. hp' \in HP /\ hp'.step = "idle" /\ hp'.detector = hp.detector
    BY <2>3 DEF Hands!HandTypeOK
  <2> QED BY <2>3, <2>4, <2>5, <2>6 DEF Hands!HandTypeOK, Hands!HandsAreSound
<1>9. CASE Hands!StopHands
  BY <1>9, HandAssumption DEF Hands!StopHands, Hands!HandTypeOK, Hands!HandsAreSound
<1>10. CASE Hands!CleanupHands
  BY <1>10, HandAssumption DEF Hands!CleanupHands, Hands!HandTypeOK, Hands!HandsAreSound,
       Hands!Nobody
<1> QED
  BY <1>1, <1>2, <1>3, <1>4, <1>5, <1>6, <1>7, <1>8, <1>9, <1>10 DEF Hands!HandNext

-----------------------------------------------------------------------------
(*****************************************************************************)
(* The interpolation of a stream.  Ids tell its jobs apart, only the last    *)
(* registered one is not started, and unless a join gave up the others are   *)
(* of the call before.                                                       *)
(*****************************************************************************)
JobsAreApart ==
  /\ \A j, k \in jobs : j.id = k.id => j = k
  /\ \A j \in jobs : /\ j.id <= calling.id
                     /\ j.step = "new" <=> j.id = calling.id /\ calling.step # "idle"
                     /\ j.step = "step" => j.left > 0
  /\ ending = "no" => newest = calling.id

Turn == IF calling.step = "idle" THEN calling.id ELSE calling.previous

OneTurn ==
  /\ \A j \in jobs : j.step # "new" => j.id = Turn
  /\ ending = "done" => \A j \in jobs : j.step \notin {"step", "emit"}
  /\ value # Interp!NoValue => \A j \in jobs : j.step = "emit" => j.held = value
  /\ value # Interp!NoValue /\ interpolationOut.value # value => \E j \in jobs : j.step = "emit"

InterpolationInv ==
  /\ Interp!InterpolationTypeOK /\ JobsAreApart
  /\ ~overrun => OneTurn

LEMMA InterpolationStarts == Interp!InterpolationInit => InterpolationInv
<1> SUFFICES ASSUME Interp!InterpolationInit PROVE InterpolationInv
  OBVIOUS
<1>1. jobs = {} /\ newest = 0 /\ calling = [step |-> "idle", id |-> 0, previous |-> 0]
      /\ value = -1 /\ interpolationOut = [by |-> 0, value |-> -1] /\ ending = "no"
         /\ overrun = FALSE
  BY DEF Interp!InterpolationInit, Interp!NoValue
<1>2. calling \in [step : {"idle", "stop", "start"}, id : 0..MaxJobs, previous : 0..MaxJobs]
      /\ interpolationOut \in [by : 0..MaxJobs, value : Int] /\ newest \in 0..MaxJobs
         /\ value \in Int
  BY <1>1, InterpolationAssumption
<1> QED BY <1>1, <1>2 DEF InterpolationInv, Interp!InterpolationTypeOK, JobsAreApart, OneTurn

\* A job that goes on with its id.
LEMMA JobGoesOn ==
  ASSUME JobsAreApart, NEW j \in jobs, NEW k, Interp!Become(j, k), k.id = j.id, k.step # "new",
         j.step # "new",
         k.step = "step" => k.left > 0,
         UNCHANGED <<newest, calling, ending>>
  PROVE  JobsAreApart'
<1>1. \A x \in jobs' : x = k \/ (x \in jobs /\ x # j)
  BY DEF Interp!Become
<1> QED BY <1>1 DEF JobsAreApart

LEMMA CancelledAre ==
  ASSUME NEW ids, \A j \in jobs : j \in Interp!Job
  PROVE  /\ \A k \in Interp!Cancelled(ids) : /\ k \in Interp!Job
                                             /\ \E j \in jobs : k = [j EXCEPT !.cancelled = @
                                                                     \/ j.id \in ids]
                                             /\ \E j \in jobs : /\ k.id = j.id /\ k.step = j.step
                                                                   /\ k.left = j.left
                                                                /\ k.held = j.held
         /\ \A j \in jobs : \E k \in Interp!Cancelled(ids) : /\ k.id = j.id /\ k.step = j.step
                                                                /\ k.left = j.left
                                                             /\ k.held = j.held
<1>1. ASSUME NEW j \in jobs
      PROVE  LET k == [j EXCEPT !.cancelled = @ \/ j.id \in ids]
             IN  k \in Interp!Job /\ k.id = j.id /\ k.step = j.step /\ k.left = j.left
                 /\ k.held = j.held
  <2>1. j \in Interp!Job
    OBVIOUS
  <2>2. (j.cancelled \/ j.id \in ids) \in BOOLEAN
    OBVIOUS
  <2> QED BY <2>1, <2>2 DEF Interp!Job
<1>2. ASSUME NEW k \in Interp!Cancelled(ids)
      PROVE  \E j \in jobs : k = [j EXCEPT !.cancelled = @ \/ j.id \in ids]
  BY DEF Interp!Cancelled
<1>3. ASSUME NEW j \in jobs
      PROVE  [j EXCEPT !.cancelled = @ \/ j.id \in ids] \in Interp!Cancelled(ids)
  BY DEF Interp!Cancelled
<1>4. ASSUME NEW k \in Interp!Cancelled(ids)
      PROVE  k \in Interp!Job /\ \E j \in jobs : /\ k.id = j.id /\ k.step = j.step
                                                 /\ k.left = j.left /\ k.held = j.held
  <2>1. PICK j \in jobs : k = [j EXCEPT !.cancelled = @ \/ j.id \in ids]
    BY <1>2
  <2>2. k \in Interp!Job /\ k.id = j.id /\ k.step = j.step /\ k.left = j.left /\ k.held = j.held
    BY <1>1, <2>1
  <2> QED BY <2>2
<1>5. ASSUME NEW j \in jobs
      PROVE  \E k \in Interp!Cancelled(ids) : /\ k.id = j.id /\ k.step = j.step
                                              /\ k.left = j.left /\ k.held = j.held
  BY <1>1, <1>3
<1> QED BY <1>2, <1>4, <1>5

LEMMA CancelledStay ==
  ASSUME JobsAreApart, \A j \in jobs : j \in Interp!Job, NEW ids, jobs' = Interp!Cancelled(ids)
  PROVE  \A j, k \in jobs' : j.id = k.id => j = k
<1> SUFFICES ASSUME NEW j \in jobs', NEW k \in jobs', j.id = k.id PROVE j = k
  OBVIOUS
<1>1. PICK x \in jobs : j = [x EXCEPT !.cancelled = @ \/ x.id \in ids]
  BY DEF Interp!Cancelled
<1>2. PICK y \in jobs : k = [y EXCEPT !.cancelled = @ \/ y.id \in ids]
  BY DEF Interp!Cancelled
<1>3. x.id = j.id /\ y.id = k.id
  BY <1>1, <1>2 DEF Interp!Job
<1>4. x = y
  BY <1>3 DEF JobsAreApart
<1> QED BY <1>1, <1>2, <1>4

LEMMA InterpolationSteps == InterpolationInv /\ [Interp!InterpolationNext]_interpolationVars
    => InterpolationInv'
<1> SUFFICES ASSUME InterpolationInv, [Interp!InterpolationNext]_interpolationVars
    PROVE InterpolationInv'
  OBVIOUS
<1> USE InterpolationAssumption DEF InterpolationInv
<1>t. /\ \A j \in jobs : j \in Interp!Job
      /\ newest \in 0..MaxJobs /\ calling.id \in 0..MaxJobs /\ calling.previous \in 0..MaxJobs
      /\ calling \in [step : {"idle", "stop", "start"}, id : 0..MaxJobs, previous : 0..MaxJobs]
  BY DEF Interp!InterpolationTypeOK
<1>1. CASE UNCHANGED interpolationVars
  BY <1>1 DEF interpolationVars, Interp!InterpolationTypeOK, JobsAreApart, OneTurn, Turn
<1>2. CASE Interp!Interpolate
  <2>1. PICK j : /\ jobs' = jobs \cup {j} /\ j \in Interp!Job /\ j.id = calling.id + 1
                    /\ j.step = "new"
    <3>1. PICK goal \in Goals :
            jobs' = jobs \cup {[id |-> calling.id + 1, goal |-> goal, left |-> Amount,
                                cancelled |-> FALSE, step |-> "new", held |-> Interp!NoValue]}
      BY <1>2 DEF Interp!Interpolate
    <3>2. calling.id + 1 \in 1..MaxJobs /\ Amount \in 0..Amount /\ Interp!NoValue \in Goals \cup Int
      BY <1>2, <1>t DEF Interp!Interpolate, Interp!NoValue
    <3> DEFINE j == [id |-> calling.id + 1, goal |-> goal, left |-> Amount,
                     cancelled |-> FALSE, step |-> "new", held |-> Interp!NoValue]
    <3>3. j \in Interp!Job /\ j.id = calling.id + 1 /\ j.step = "new"
      BY <3>2 DEF Interp!Job
    <3> HIDE DEF j
    <3>4. jobs' = jobs \cup {j}
      BY <3>1 DEF j
    <3> QED BY <3>3, <3>4
  <2>2. /\ calling' = [step |-> "stop", id |-> calling.id + 1, previous |-> newest]
        /\ newest' = calling.id + 1 /\ UNCHANGED <<value, interpolationOut, ending, overrun>>
        /\ calling.step = "idle" /\ ending = "no" /\ calling.id < MaxJobs
    BY <1>2 DEF Interp!Interpolate
  <2>3. Interp!InterpolationTypeOK'
    BY <1>t, <2>1, <2>2 DEF Interp!InterpolationTypeOK
  <2>4. \A x \in jobs : x.id \in Nat /\ x.id <= calling.id /\ x.step # "new"
    BY <1>t, <2>2 DEF JobsAreApart, Interp!Job
  <2>5. JobsAreApart'
    BY <1>t, <2>1, <2>2, <2>4 DEF JobsAreApart
  <2>6. ASSUME ~overrun' PROVE OneTurn'
    <3>1. newest = calling.id /\ OneTurn
      BY <2>2, <2>6 DEF JobsAreApart
    <3> QED BY <2>1, <2>2, <3>1 DEF OneTurn, Turn
  <2> QED BY <2>3, <2>5, <2>6
<1>3. CASE Interp!CancelPrevious
  <2>1. /\ calling' = [calling EXCEPT !.step = "start"] /\ calling.step = "stop"
        /\ UNCHANGED <<newest, value, interpolationOut, ending, overrun>>
        /\ jobs' = Interp!Cancelled({calling.previous})
    BY <1>3 DEF Interp!CancelPrevious
  <2>2. /\ \A k \in jobs' : k \in Interp!Job /\ \E j \in jobs : k.id = j.id /\ k.step = j.step
           /\ k.left = j.left /\ k.held = j.held
        /\ \A j \in jobs : \E k \in jobs' : k.id = j.id /\ k.step = j.step /\ k.left = j.left
           /\ k.held = j.held
        /\ \A j, k \in jobs' : j.id = k.id => j = k
    <3>1. \A j, k \in jobs' : j.id = k.id => j = k
      BY <1>t, <2>1, CancelledStay
    <3>2. /\ \A k \in jobs' : k \in Interp!Job /\ \E j \in jobs : k.id = j.id /\ k.step = j.step
             /\ k.left = j.left /\ k.held = j.held
          /\ \A j \in jobs : \E k \in jobs' : k.id = j.id /\ k.step = j.step /\ k.left = j.left
             /\ k.held = j.held
      BY <1>t, <2>1, CancelledAre
    <3> QED BY <3>1, <3>2
  <2>3. Interp!InterpolationTypeOK'
    BY <1>t, <2>1, <2>2 DEF Interp!InterpolationTypeOK
  <2>4. JobsAreApart'
    <3>1. /\ \A k \in jobs' : \E j \in jobs : k.id = j.id /\ k.step = j.step /\ k.left = j.left
          /\ \A j, k \in jobs' : j.id = k.id => j = k
      BY <2>2
    <3>2. calling'.id = calling.id /\ (calling'.step = "idle" <=> calling.step = "idle")
          /\ (ending' = "no" => newest' = calling'.id)
      BY <1>t, <2>1 DEF JobsAreApart
    <3> QED BY <3>1, <3>2 DEF JobsAreApart
  <2>5. ASSUME OneTurn PROVE OneTurn'
    <3>1. Turn' = Turn /\ (ending' = "done" <=> ending = "done") /\ value' = value
        /\ interpolationOut' = interpolationOut
      BY <1>t, <2>1 DEF Turn
    <3>2. \A k \in jobs' : \E j \in jobs : k.id = j.id /\ k.step = j.step /\ k.held = j.held
      BY <2>2
    <3>3. \A j \in jobs : \E k \in jobs' : k.step = j.step
      BY <2>2
    <3>4. \A k \in jobs' : k.step # "new" => k.id = Turn'
      BY <2>5, <3>1, <3>2 DEF OneTurn
    <3>5. ending' = "done" => \A k \in jobs' : k.step \notin {"step", "emit"}
      BY <2>5, <3>1, <3>2 DEF OneTurn
    <3>6. value' # Interp!NoValue => \A k \in jobs' : k.step = "emit" => k.held = value'
      BY <2>5, <3>1, <3>2 DEF OneTurn
    <3>7. value' # Interp!NoValue /\ interpolationOut'.value # value'
        => \E k \in jobs' : k.step = "emit"
      BY <2>5, <3>1, <3>3 DEF OneTurn
    <3> QED BY <3>4, <3>5, <3>6, <3>7 DEF OneTurn, Interp!NoValue
  <2> QED BY <2>1, <2>3, <2>4, <2>5
<1>4. CASE Interp!StartJob
  <2>1. PICK j \in jobs : j.id = calling.id /\ Interp!Become(j, [j EXCEPT !.step = "check"])
    BY <1>4 DEF Interp!StartJob
  <2> DEFINE k == [j EXCEPT !.step = "check"]
  <2>2. k \in Interp!Job /\ k.id = j.id /\ k.step = "check"
    BY <1>t DEF Interp!Job
  <2> HIDE DEF k
  <2>3. jobs' = (jobs \ {j}) \cup {k}
    BY <2>1 DEF Interp!Become, k
  <2>4. /\ calling' = [calling EXCEPT !.step = "idle"] /\ calling.step = "start"
        /\ UNCHANGED <<newest, value, interpolationOut, ending>>
        /\ overrun' = (overrun \/ \E x \in jobs : x.id = calling.previous)
    BY <1>4 DEF Interp!StartJob
  <2>5. overrun' \in BOOLEAN
    BY <2>4 DEF Interp!InterpolationTypeOK
  <2>6. Interp!InterpolationTypeOK'
    BY <1>t, <2>2, <2>3, <2>4, <2>5 DEF Interp!InterpolationTypeOK
  <2>7. JobsAreApart'
    BY <1>t, <2>1, <2>2, <2>3, <2>4 DEF JobsAreApart
  <2>8. ASSUME ~overrun' PROVE OneTurn'
    <3>1. OneTurn /\ \A x \in jobs : x.id # calling.previous
      BY <2>4, <2>8
    <3>2. \A x \in jobs : x.step = "new"
      BY <2>4, <3>1 DEF OneTurn, Turn
    <3>3. \A x \in jobs : x = j
      BY <2>1, <3>2 DEF JobsAreApart
    <3>4. jobs' = {k}
      BY <2>3, <3>3
    <3> QED BY <1>t, <2>1, <2>2, <2>4, <3>1, <3>2, <3>4 DEF OneTurn, Turn
  <2> QED BY <2>6, <2>7, <2>8
<1>5. CASE Interp!JobEnds
  <2>1. PICK j \in jobs : j.step = "check" /\ jobs' = jobs \ {j}
    BY <1>5 DEF Interp!JobEnds
  <2>2. UNCHANGED <<newest, calling, value, interpolationOut, ending, overrun>>
    BY <1>5 DEF Interp!JobEnds
  <2> QED BY <2>1, <2>2 DEF Interp!InterpolationTypeOK, JobsAreApart, OneTurn, Turn
<1>6. CASE Interp!JobChecks
  <2>1. PICK j \in jobs : j.step = "check" /\ j.left > 0
      /\ Interp!Become(j, [j EXCEPT !.step = "step"]) /\ ending = "no"
    BY <1>6 DEF Interp!JobChecks
  <2> DEFINE k == [j EXCEPT !.step = "step"]
  <2>2. k \in Interp!Job /\ k.id = j.id /\ k.step = "step" /\ k.left = j.left
    BY <1>t DEF Interp!Job
  <2> HIDE DEF k
  <2>3. jobs' = (jobs \ {j}) \cup {k} /\ Interp!Become(j, k)
    BY <2>1 DEF Interp!Become, k
  <2>4. UNCHANGED <<newest, calling, value, interpolationOut, ending, overrun>>
    BY <1>6 DEF Interp!JobChecks
  <2>5. JobsAreApart'
    BY <2>1, <2>2, <2>3, <2>4, JobGoesOn
  <2>6. OneTurn => OneTurn'
    BY <2>1, <2>2, <2>3, <2>4 DEF OneTurn, Turn
  <2> QED BY <1>t, <2>2, <2>3, <2>4, <2>5, <2>6 DEF Interp!InterpolationTypeOK
<1>7. CASE Interp!JobSteps
  <2>1. PICK j \in jobs : /\ j.step = "step" /\ value' = Interp!Lerped(value, j.goal)
                          /\ Interp!Become(j, [j EXCEPT !.step = "emit", !.left = @ - 1,
                                               !.held = value'])
    BY <1>7 DEF Interp!JobSteps
  <2> DEFINE k == [j EXCEPT !.step = "emit", !.left = @ - 1, !.held = value']
  <2>2. j \in Interp!Job /\ j.left > 0 /\ j.goal \in Int
    BY <1>t, <2>1 DEF JobsAreApart, Interp!Job
  <2>3. value' \in Int
    <3>1. value \in Int
      BY DEF Interp!InterpolationTypeOK
    <3> QED BY <2>1, <2>2, <3>1 DEF Interp!Lerped
  <2>4. k \in Interp!Job /\ k.id = j.id /\ k.step = "emit" /\ k.held = value'
    <3>1. j.left - 1 \in 0..Amount /\ value' \in Goals \cup Int
        /\ "emit" \in {"new", "check", "step", "emit"}
      BY <2>2, <2>3 DEF Interp!Job
    <3>2. k \in Interp!Job
      BY <2>2, <3>1 DEF Interp!Job
    <3> QED BY <2>2, <3>2 DEF Interp!Job
  <2> HIDE DEF k
  <2>5. jobs' = (jobs \ {j}) \cup {k} /\ Interp!Become(j, k)
    BY <2>1 DEF Interp!Become, k
  <2>6. UNCHANGED <<newest, calling, interpolationOut, ending, overrun>>
    BY <1>7 DEF Interp!JobSteps
  <2>7. JobsAreApart'
    BY <2>1, <2>4, <2>5, <2>6, JobGoesOn
  <2>8. ASSUME OneTurn PROVE OneTurn'
    <3>1. \A x \in jobs : x.step # "new" => x = j
      BY <2>1, <2>8 DEF OneTurn, JobsAreApart
    <3>2. \A x \in jobs' : x = k \/ x.step = "new"
      BY <2>5, <3>1
    <3>3. k \in jobs' /\ j.id = Turn
      BY <2>1, <2>5, <2>8 DEF OneTurn
    <3> QED BY <2>1, <2>4, <2>6, <2>8, <3>2, <3>3 DEF OneTurn, Turn
  <2> QED BY <1>t, <2>3, <2>4, <2>5, <2>6, <2>7, <2>8 DEF Interp!InterpolationTypeOK
<1>8. CASE Interp!JobEmits
  <2>1. PICK j \in jobs : /\ j.step = "emit" /\ interpolationOut' = [by |-> j.id, value |-> j.held]
                          /\ Interp!Become(j, [j EXCEPT !.step = "check", !.held = Interp!NoValue])
    BY <1>8 DEF Interp!JobEmits
  <2> DEFINE k == [j EXCEPT !.step = "check", !.held = Interp!NoValue]
  <2>2. j \in Interp!Job /\ j.held \in Int /\ j.id \in 0..MaxJobs
    BY <1>t, <2>1 DEF Interp!Job
  <2>3. k \in Interp!Job /\ k.id = j.id /\ k.step = "check"
    <3>1. Interp!NoValue \in Goals \cup Int /\ "check" \in {"new", "check", "step", "emit"}
      BY DEF Interp!NoValue
    <3>2. k \in Interp!Job
      BY <2>2, <3>1 DEF Interp!Job
    <3> QED BY <2>2, <3>2 DEF Interp!Job
  <2> HIDE DEF k
  <2>4. jobs' = (jobs \ {j}) \cup {k} /\ Interp!Become(j, k)
    BY <2>1 DEF Interp!Become, k
  <2>5. UNCHANGED <<newest, calling, value, ending, overrun>>
    BY <1>8 DEF Interp!JobEmits
  <2>6. JobsAreApart'
    BY <2>1, <2>3, <2>4, <2>5, JobGoesOn
  <2>7. OneTurn => OneTurn'
    BY <2>1, <2>3, <2>4, <2>5 DEF OneTurn, Turn
  <2> QED BY <1>t, <2>1, <2>2, <2>3, <2>4, <2>5, <2>6, <2>7 DEF Interp!InterpolationTypeOK
<1>9. CASE Interp!ResetStream
  BY <1>9 DEF Interp!ResetStream, Interp!InterpolationTypeOK, JobsAreApart, OneTurn, Turn,
       Interp!NoValue
<1>10. CASE Interp!CleanupJobs
  <2>1. /\ ending = "no" /\ ending' = "stop" /\ newest' = 0
        /\ UNCHANGED <<calling, value, interpolationOut, overrun>>
        /\ jobs' = Interp!Cancelled({newest})
    BY <1>10 DEF Interp!CleanupJobs
  <2>2. /\ \A k \in jobs' : k \in Interp!Job /\ \E j \in jobs : k.id = j.id /\ k.step = j.step
           /\ k.left = j.left /\ k.held = j.held
        /\ \A j \in jobs : \E k \in jobs' : k.id = j.id /\ k.step = j.step /\ k.left = j.left
           /\ k.held = j.held
        /\ \A j, k \in jobs' : j.id = k.id => j = k
    <3>1. \A j, k \in jobs' : j.id = k.id => j = k
      BY <1>t, <2>1, CancelledStay
    <3>2. /\ \A k \in jobs' : k \in Interp!Job /\ \E j \in jobs : k.id = j.id /\ k.step = j.step
             /\ k.left = j.left /\ k.held = j.held
          /\ \A j \in jobs : \E k \in jobs' : k.id = j.id /\ k.step = j.step /\ k.left = j.left
             /\ k.held = j.held
      BY <1>t, <2>1, CancelledAre
    <3> QED BY <3>1, <3>2
  <2>3. Interp!InterpolationTypeOK'
    BY <1>t, <2>1, <2>2 DEF Interp!InterpolationTypeOK
  <2>4. JobsAreApart'
    <3>1. /\ \A k \in jobs' : \E j \in jobs : k.id = j.id /\ k.step = j.step /\ k.left = j.left
          /\ \A j, k \in jobs' : j.id = k.id => j = k
      BY <2>2
    <3>2. calling'.id = calling.id /\ (calling'.step = "idle" <=> calling.step = "idle")
          /\ (ending' = "no" => newest' = calling'.id)
      BY <1>t, <2>1 DEF JobsAreApart
    <3> QED BY <3>1, <3>2 DEF JobsAreApart
  <2>5. ASSUME OneTurn PROVE OneTurn'
    <3>1. Turn' = Turn /\ (ending' = "done" <=> ending = "done") /\ value' = value
        /\ interpolationOut' = interpolationOut
      BY <1>t, <2>1 DEF Turn
    <3>2. \A k \in jobs' : \E j \in jobs : k.id = j.id /\ k.step = j.step /\ k.held = j.held
      BY <2>2
    <3>3. \A j \in jobs : \E k \in jobs' : k.step = j.step
      BY <2>2
    <3>4. \A k \in jobs' : k.step # "new" => k.id = Turn'
      BY <2>5, <3>1, <3>2 DEF OneTurn
    <3>5. ending' = "done" => \A k \in jobs' : k.step \notin {"step", "emit"}
      BY <2>5, <3>1, <3>2 DEF OneTurn
    <3>6. value' # Interp!NoValue => \A k \in jobs' : k.step = "emit" => k.held = value'
      BY <2>5, <3>1, <3>2 DEF OneTurn
    <3>7. value' # Interp!NoValue /\ interpolationOut'.value # value'
        => \E k \in jobs' : k.step = "emit"
      BY <2>5, <3>1, <3>3 DEF OneTurn
    <3> QED BY <3>4, <3>5, <3>6, <3>7 DEF OneTurn, Interp!NoValue
  <2> QED BY <2>1, <2>3, <2>4, <2>5
<1>11. CASE Interp!CleanupEnds
  BY <1>11 DEF Interp!CleanupEnds, Interp!InterpolationTypeOK, JobsAreApart, OneTurn, Turn
<1> QED
  BY <1>1, <1>2, <1>3, <1>4, <1>5, <1>6, <1>7, <1>8, <1>9, <1>10, <1>11
     DEF Interp!InterpolationNext

LEMMA InterpCardinality == \A S : Interp!Cardinality(S) = Cardinality(S)
BY DEF Cardinality, Interp!Cardinality

LEMMA InterpolationHolds == InterpolationInv => Interp!OneJobAtATime
<1> SUFFICES ASSUME InterpolationInv, ~overrun PROVE Interp!OneJobAtATime
  BY DEF Interp!OneJobAtATime
<1> DEFINE started == {j \in jobs : j.step # "new"}
<1>1. \A j, k \in started : j = k
  BY DEF InterpolationInv, JobsAreApart, OneTurn
<1>2. Cardinality(started) <= 1
  <2>1. CASE started = {}
    BY <2>1, FS_EmptySet
  <2>2. CASE started # {}
    <3>1. PICK j : started = {j}
      BY <1>1, <2>2
    <3> HIDE DEF started
    <3> QED BY <3>1, FS_Singleton
  <2> QED BY <2>1, <2>2
<1> HIDE DEF started
<1> QED BY <1>2, InterpCardinality DEF InterpolationInv, OneTurn, Turn, Interp!OneJobAtATime, started

-----------------------------------------------------------------------------
(*****************************************************************************)
(* Where a model runs.  Each provider that a session asks for is one that    *)
(* the setting and the build allow, and the first of them is what it gets.   *)
(*****************************************************************************)
LEMMA FirstIs ==
  ASSUME NEW order \in Seq(Acc!Providers \cup {"cpu"}), NEW those
  PROVE  \/ Acc!First(order, those) = "cpu"
         \/ \E i \in DOMAIN order : Acc!First(order, those) = order[i] /\ order[i] \in those
<1> DEFINE found == {i \in DOMAIN order : order[i] \in those}
           IsFirst(i) == order[i] \in those /\ \A j \in 1..(i - 1) : order[j] \notin those
<1>1. CASE found = {}
  BY <1>1 DEF Acc!First
<1>2. CASE found # {}
  <2>1. found \in SUBSET Nat /\ DOMAIN order = 1..Len(order) /\ Len(order) \in Nat
    OBVIOUS
  <2>2. PICK n \in found : \A i \in found : n <= i
    BY <1>2, <2>1, LeastNumber
  <2>3. n \in DOMAIN order /\ IsFirst(n)
    BY <2>1, <2>2
  <2>4. PICK i : i = CHOOSE k \in DOMAIN order : IsFirst(k)
    OBVIOUS
  <2>5. i \in DOMAIN order /\ IsFirst(i)
    BY <2>3, <2>4
  <2>6. Acc!First(order, those) = order[i]
    BY <2>3, <2>4 DEF Acc!First
  <2> QED BY <2>5, <2>6
<1> QED BY <1>1, <1>2

Allowed(p) ==
  /\ p \in Acc!Providers => /\ p \in build.offers
                            /\ setting.mode \in {"auto", p}
                               \/ (setting.mode = "tensorrt" /\ p = "cuda")
  /\ p = "cpu" => Acc!CpuAllowed

AskedAreAllowed ==
  model # "task" /\ acceleratorSession = "asked" =>
    asked # <<>> /\ \A i \in DOMAIN asked : asked[i] \in Acc!Providers \cup {"cpu"}
        /\ Allowed(asked[i])

AccInv ==
  /\ Acc!AccTypeOK /\ Acc!RunsWhereAllowed
  /\ acceleratorSession = "none" => asked = <<>>
  /\ AskedAreAllowed
  /\ model = "task" => acceleratorSession # "refused"

LEMMA AccStarts == Acc!AccInit => AccInv
<1> SUFFICES ASSUME Acc!AccInit PROVE AccInv
  OBVIOUS
<1>1. Acc!AccTypeOK
  <2>1. asked = <<>>
    BY DEF Acc!AccInit
  <2>2. asked \in Seq(Acc!Providers \cup {"cpu"})
    BY <2>1
  <2> QED BY <2>2 DEF Acc!AccInit, Acc!AccTypeOK
<1> QED BY <1>1 DEF Acc!AccInit, AccInv, AskedAreAllowed, Acc!RunsWhereAllowed, Acc!Runs,
     Acc!Providers

LEMMA WantedIs == ASSUME Acc!AccTypeOK PROVE Acc!Wanted \in Acc!Providers \cup {"cpu"}
    /\ (Acc!Wanted # "cpu" => Allowed(Acc!Wanted))
<1>1. Acc!AutoOrder \in Seq(Acc!Providers \cup {"cpu"})
    /\ \A i \in DOMAIN Acc!AutoOrder : Acc!AutoOrder[i] \in Acc!Providers
  BY DEF Acc!AutoOrder, Acc!Providers
<1>2. CASE setting.mode = "auto"
  <2>1. Acc!Wanted = Acc!First(Acc!AutoOrder, build.offers)
    BY <1>2 DEF Acc!Wanted
  <2> QED BY <1>1, <1>2, <2>1, FirstIs DEF Allowed
<1>3. CASE setting.mode # "auto"
  BY <1>3 DEF Acc!Wanted, Allowed, Acc!AccTypeOK, Acc!Modes
<1> QED BY <1>2, <1>3

LEMMA AccSteps == AccInv /\ [Acc!AccNext]_acceleratorVars => AccInv'
<1> SUFFICES ASSUME AccInv, [Acc!AccNext]_acceleratorVars PROVE AccInv'
  OBVIOUS
<1> USE DEF AccInv, AskedAreAllowed
<1>1. CASE UNCHANGED acceleratorVars
  <2>1. UNCHANGED <<setting, build, model, asked, acceleratorSession, reason>>
    BY <1>1 DEF acceleratorVars
  <2>2. Acc!AccTypeOK'
    BY <2>1 DEF Acc!AccTypeOK
  <2>4. Acc!RunsWhereAllowed'
    BY <2>1 DEF Acc!RunsWhereAllowed, Acc!Runs
  <2>3. AskedAreAllowed'
    BY <2>1 DEF Allowed, Acc!CpuAllowed
  <2> QED BY <2>1, <2>2, <2>3, <2>4
<1>2. CASE Acc!Choose
  <2>1. Acc!Wanted \in Acc!Providers \cup {"cpu"} /\ (Acc!Wanted # "cpu" => Allowed(Acc!Wanted))
    BY WantedIs
  <2>2. UNCHANGED <<setting, build, model, reason>> /\ model # "task"
    BY <1>2 DEF Acc!Choose
  <2>3. CASE Acc!Wanted = "cpu" /\ ~Acc!CpuAllowed
    <3>1. acceleratorSession' = "refused" /\ UNCHANGED asked
      BY <1>2, <2>3 DEF Acc!Choose
    <3> QED BY <2>2, <2>3, <3>1 DEF Acc!AccTypeOK, Acc!RunsWhereAllowed, Acc!Runs,
         Acc!Providers, Acc!CpuAllowed
  <2>4. CASE ~(Acc!Wanted = "cpu" /\ ~Acc!CpuAllowed)
    <3>1. acceleratorSession' = "asked" /\ asked' = IF Acc!Wanted = "tensorrt"
        /\ "cuda" \in build.offers
                                 THEN <<"tensorrt", "cuda">> ELSE <<Acc!Wanted>>
      BY <1>2, <2>4 DEF Acc!Choose
    <3>2. asked' \in Seq(Acc!Providers \cup {"cpu"}) /\ asked' # <<>>
          /\ \A i \in DOMAIN asked' : asked'[i] \in Acc!Providers \cup {"cpu"} /\ Allowed(asked'[i])
      <4>1. CASE Acc!Wanted = "tensorrt" /\ "cuda" \in build.offers
        <5>1. setting.mode \in {"auto", "tensorrt"}
          BY <2>1, <4>1 DEF Allowed, Acc!Providers
        <5>2. asked' = <<"tensorrt", "cuda">>
          BY <3>1, <4>1
        <5>3. Allowed("tensorrt") /\ Allowed("cuda")
          BY <2>1, <4>1, <5>1 DEF Allowed
        <5> QED BY <5>2, <5>3 DEF Acc!Providers
      <4>2. CASE ~(Acc!Wanted = "tensorrt" /\ "cuda" \in build.offers)
        <5>1. asked' = <<Acc!Wanted>> /\ Allowed(Acc!Wanted)
          BY <2>1, <2>4, <3>1, <4>2 DEF Allowed, Acc!Providers
        <5> QED BY <2>1, <5>1
      <4> QED BY <4>1, <4>2
    <3> QED BY <2>2, <3>1, <3>2 DEF Acc!AccTypeOK, Acc!RunsWhereAllowed, Acc!Runs,
         Acc!Providers, Allowed, Acc!CpuAllowed
  <2> QED BY <2>3, <2>4
<1>3. CASE Acc!CreateSession
  <2>1. UNCHANGED <<setting, build, model, asked>> /\ model # "task" /\ acceleratorSession = "asked"
    BY <1>3 DEF Acc!CreateSession
  <2>2. PICK active :
          /\ active = "cpu" \/ \E i \in DOMAIN asked : active = asked[i]
          /\ IF Acc!Refuses(active) THEN acceleratorSession' = "refused" /\ UNCHANGED reason
                                    ELSE acceleratorSession' = active /\ reason' = Acc!Why(active)
    <3>1. PICK starts \in SUBSET Acc!ToSet(asked) :
            IF Acc!Refuses(Acc!First(asked, starts)) THEN acceleratorSession' = "refused"
                /\ UNCHANGED reason
            ELSE acceleratorSession' = Acc!First(asked, starts)
                /\ reason' = Acc!Why(Acc!First(asked, starts))
      BY <1>3 DEF Acc!CreateSession
    <3>2. asked \in Seq(Acc!Providers \cup {"cpu"})
      BY DEF Acc!AccTypeOK
    <3> QED BY <3>1, <3>2, FirstIs
  <2>3. active \in Acc!Providers \cup {"cpu"} /\ (active # "cpu" => Allowed(active)) /\ asked # <<>>
        /\ Allowed(asked[1]) /\ asked[1] \in Acc!Providers \cup {"cpu"}
    <3>1. asked # <<>> /\ \A i \in DOMAIN asked : asked[i] \in Acc!Providers \cup {"cpu"}
        /\ Allowed(asked[i])
      BY <2>1
    <3>2. 1 \in DOMAIN asked
      <4>1. asked \in Seq(Acc!Providers \cup {"cpu"})
        BY DEF Acc!AccTypeOK
      <4> QED BY <3>1, <4>1
    <3> QED BY <2>2, <3>1, <3>2
  <2>4. CASE Acc!Refuses(active)
    BY <2>1, <2>2, <2>4 DEF Acc!Refuses, Acc!AccTypeOK, Acc!RunsWhereAllowed, Acc!Runs,
         Acc!Providers, Acc!CpuAllowed
  <2>5. CASE ~Acc!Refuses(active)
    <3>1. acceleratorSession' = active /\ reason' = Acc!Why(active)
      BY <2>2, <2>5
    <3>2. active = "cpu" => Acc!CpuAllowed
      BY <2>3, <2>5 DEF Acc!Refuses, Allowed
    <3>3. /\ reason' \in {"", "requested", "none started", "first did not start"}
          /\ reason' = "" <=> active # "cpu" /\ active = asked[1]
      BY <3>1 DEF Acc!Why
    <3> QED BY <2>1, <2>3, <3>1, <3>2, <3>3 DEF Acc!AccTypeOK, Acc!RunsWhereAllowed, Acc!Runs,
         Acc!CpuAllowed, Allowed, Acc!Providers
  <2> QED BY <2>4, <2>5
<1>4. CASE Acc!CreateTask
  <2>1. UNCHANGED <<setting, build, model>> /\ model = "task"
      /\ acceleratorSession \in {"none", "asked"}
    BY <1>4 DEF Acc!CreateTask
  <2> DEFINE first == acceleratorSession = "none"
  <2>2. asked' = Append(asked, Acc!Delegate(first)) /\ Acc!Delegate(first) \in {"coreml", "cpu"}
    BY <1>4 DEF Acc!CreateTask, Acc!Delegate
  <2>3. asked' \in Seq(Acc!Providers \cup {"cpu"}) /\ (first => asked'[1] = Acc!Delegate(first))
    <3>1. asked \in Seq(Acc!Providers \cup {"cpu"})
        /\ Acc!Delegate(first) \in Acc!Providers \cup {"cpu"}
      BY <2>2 DEF Acc!AccTypeOK, Acc!Providers
    <3>2. asked' \in Seq(Acc!Providers \cup {"cpu"})
      BY <2>2, <3>1
    <3>3. first => asked = <<>>
      OBVIOUS
    <3> QED BY <2>2, <3>2, <3>3
  <2>4. CASE acceleratorSession' = Acc!Delegate(first) /\ reason' = Acc!DelegateReason(first)
    <3>1. reason' \in {"", "requested", "rejected", "disabled", "no delegate"}
          /\ (reason' = "" <=> Acc!Delegate(first) = "coreml")
      BY <2>4 DEF Acc!DelegateReason
    <3>2. Acc!Delegate(first) = "coreml" => first /\ build.mac /\ setting.gpu # "off"
      BY DEF Acc!Delegate, Acc!WantsGpu, Acc!Unset
    <3> QED BY <2>1, <2>2, <2>3, <2>4, <3>1, <3>2 DEF Acc!AccTypeOK, Acc!RunsWhereAllowed,
         Acc!Runs, Acc!Providers
  <2>5. CASE acceleratorSession' = (IF first THEN "asked" ELSE "failed") /\ UNCHANGED reason
    BY <2>1, <2>3, <2>5 DEF Acc!AccTypeOK, Acc!RunsWhereAllowed, Acc!Runs, Acc!Providers
  <2> QED BY <1>4, <2>4, <2>5 DEF Acc!CreateTask
<1> QED BY <1>1, <1>2, <1>3, <1>4 DEF Acc!AccNext

-----------------------------------------------------------------------------
(*****************************************************************************)
(* The downloaded models.  Only the thread with the lock of its process has  *)
(* a temp file, and it puts nothing in place that it did not verify.         *)
(*****************************************************************************)
Locked == {"checking", "opening", "downloading", "verifying", "replacing", "removing"}

HoldersWork ==
  \A t \in Models!Threads : loading[t].at \in Locked <=> holding[t[1]] = t[2]

PartsAreHeld ==
  \A t \in Models!Threads :
    /\ part[t] # Models!NoFile => loading[t].at \in {"downloading", "verifying", "replacing",
                                                     "removing"}
    /\ Models!At(t, "replacing") => part[t] = MyWanted[t[1]]
    /\ Models!At(t, "verifying") => part[t] \in {MyWanted[t[1]], Models!Damaged}

ResolvedIsThere ==
  \A t \in Models!Threads : ~swapped =>
    /\ Models!At(t, "resolved") \/ (Models!At(t, "removing") /\ ~loading[t].failed)
       => modelsTarget = MyWanted[t[1]]
    /\ Models!At(t, "loaded") => loading[t].got = MyWanted[t[1]]

NoneFailedYet ==
  \A t \in Models!Threads : loading[t].failed => loading[t].at \in {"removing", "failed"}

FilesInv ==
  /\ Models!FilesTypeOK /\ HoldersWork /\ PartsAreHeld /\ ResolvedIsThere /\ NoneFailedYet
  /\ leftParts <= bridgeDeaths

LEMMA ThreadsAre == \A p \in Bridges, l \in Loaders : <<p, l>> \in Models!Threads
BY DEF Models!Threads

LEMMA ThreadParts ==
  \A t \in Models!Threads : /\ t[1] \in Bridges /\ t[2] \in Loaders /\ t[2] # Models!Free
                             /\ \A u \in Models!Threads : t[1] = u[1] /\ t[2] = u[2] => t = u
BY FilesAssumption DEF Models!Threads

LEMMA WantedIsVersion == \A p \in Bridges : MyWanted[p] \in Models!Versions
BY DEF Models!Versions

LEMMA ModelsCardinality == \A S : Models!Cardinality(S) = Cardinality(S)
BY DEF Cardinality, Models!Cardinality

LEMMA FilesStart == Models!FilesInit => FilesInv
<1> SUFFICES ASSUME Models!FilesInit PROVE FilesInv
  OBVIOUS
<1> USE FilesAssumption DEF Models!FilesInit, Models!IdleThread, Models!NoFile, Models!Free,
     Models!Damaged
<1>1. 0 \in 0..MaxBridgeDeaths * Cardinality(Loaders)
  <2>1. Cardinality(Loaders) \in Nat
    BY FS_CardinalityType
  <2>2. MaxBridgeDeaths * Cardinality(Loaders) \in Nat
    BY <2>1
  <2> QED BY <2>2
<1>2. Models!FilesTypeOK
  <2>1. Models!IdleThread \in [at : Models!Steps, failed : BOOLEAN,
                               got : Models!Versions \cup {Models!NoFile, Models!Damaged}]
    BY DEF Models!Steps
  <2>2. 0 \in 0..MaxDownloads /\ 0 \in 0..MaxBridgeDeaths
    OBVIOUS
  <2> QED BY <1>1, <2>1, <2>2, ModelsCardinality DEF Models!FilesTypeOK
<1>3. HoldersWork
  BY ThreadParts DEF HoldersWork, Locked
<1>4. PartsAreHeld /\ ResolvedIsThere /\ NoneFailedYet
  BY DEF PartsAreHeld, ResolvedIsThere, NoneFailedYet, Models!At
<1> QED BY <1>2, <1>3, <1>4 DEF FilesInv

\* A thread goes on to another step.
LEMMA FilesSteps == FilesInv /\ [Models!FilesNext]_modelsVars => FilesInv'
<1> SUFFICES ASSUME FilesInv, [Models!FilesNext]_modelsVars PROVE FilesInv'
  OBVIOUS
<1> USE FilesAssumption DEF FilesInv
<1> DEFINE Good == /\ modelsTarget' \in Models!Versions \cup {Models!NoFile, Models!Damaged}
                   /\ holding' \in [Bridges -> Loaders \cup {Models!Free}]
                   /\ loading' \in [Models!Threads -> [at : Models!Steps, failed : BOOLEAN,
                                                       got : Models!Versions \cup {Models!NoFile,
                                                                                   Models!Damaged}]]
                   /\ part' \in [Models!Threads -> Models!Versions \cup {Models!NoFile,
                                                                         Models!Damaged, "open"}]
                   /\ swapped' \in BOOLEAN
                   /\ downloads' \in 0..MaxDownloads
<1> DEFINE Kept == leftParts' = leftParts /\ bridgeDeaths' = bridgeDeaths
<1>a. ASSUME Good, Kept, HoldersWork', PartsAreHeld', ResolvedIsThere', NoneFailedYet'
    PROVE FilesInv'
  BY <1>a DEF Models!FilesTypeOK
<1>1. CASE UNCHANGED modelsVars
  BY <1>1 DEF modelsVars, Models!FilesTypeOK, HoldersWork, PartsAreHeld, ResolvedIsThere,
       NoneFailedYet, Models!At
<1>s. ASSUME NEW t \in Models!Threads, NEW s \in Models!Steps, Models!Goes(t, s)
      PROVE  /\ loading' \in [Models!Threads -> [at : Models!Steps, failed : BOOLEAN,
                                                 got : Models!Versions \cup {Models!NoFile,
                                                                             Models!Damaged}]]
             /\ loading'[t].at = s /\ loading'[t].failed = loading[t].failed
                /\ loading'[t].got = loading[t].got
             /\ \A u \in Models!Threads \ {t} : loading'[u] = loading[u]
  BY <1>s DEF Models!Goes, Models!FilesTypeOK
<1>2. ASSUME NEW t \in Models!Threads, Models!Resolve(t) PROVE FilesInv'
  <2>1. "waiting" \in Models!Steps /\ Models!Goes(t, "waiting") /\ Models!At(t, "idle")
    BY <1>2 DEF Models!Steps, Models!Resolve
  <2>2. Good /\ Kept
    BY <1>2, <1>s, <2>1 DEF Models!Resolve, Models!FilesTypeOK, Models!bounds
  <2>3. HoldersWork' /\ PartsAreHeld' /\ ResolvedIsThere' /\ NoneFailedYet'
    BY <1>2, <1>s, <2>1, ThreadsAre DEF Models!Resolve, HoldersWork, PartsAreHeld,
         ResolvedIsThere, NoneFailedYet, Models!At, Locked
  <2> QED BY <2>2, <2>3, <1>a
<1>3. ASSUME NEW t \in Models!Threads, Models!Lock(t) PROVE FilesInv'
  <2>1. "checking" \in Models!Steps /\ Models!Goes(t, "checking") /\ Models!At(t, "waiting")
    BY <1>3 DEF Models!Steps, Models!Lock
  <2>2. Good /\ Kept
    BY <1>3, <1>s, <2>1, ThreadParts DEF Models!Lock, Models!FilesTypeOK, Models!bounds
  <2>3. PartsAreHeld' /\ ResolvedIsThere' /\ NoneFailedYet'
    BY <1>3, <1>s, <2>1 DEF Models!Lock, PartsAreHeld, ResolvedIsThere, NoneFailedYet, Models!At
  <2>4. HoldersWork'
    BY <1>3, <1>s, <2>1, ThreadsAre, ThreadParts DEF Models!Lock, HoldersWork, Locked,
         Models!FilesTypeOK, Models!At
  <2> QED BY <2>2, <2>3, <2>4, <1>a
<1>4. ASSUME NEW t \in Models!Threads, Models!CheckCached(t) PROVE FilesInv'
  <2>1. CASE modelsTarget = MyWanted[t[1]]
    <3>1. "resolved" \in Models!Steps /\ Models!Goes(t, "resolved") /\ Models!At(t, "checking")
        /\ Models!Unlocked(t)
      BY <1>4, <2>1 DEF Models!Steps, Models!CheckCached
    <3>2. Good /\ Kept
      BY <1>4, <1>s, <3>1 DEF Models!CheckCached, Models!FilesTypeOK, Models!bounds,
           Models!Unlocked
    <3>3. PartsAreHeld' /\ ResolvedIsThere' /\ NoneFailedYet'
      BY <1>4, <1>s, <3>1, <2>1 DEF Models!CheckCached, PartsAreHeld, ResolvedIsThere,
           NoneFailedYet, Models!At
    <3>4. HoldersWork'
      BY <1>s, <3>1, ThreadsAre, ThreadParts DEF Models!Unlocked, HoldersWork, Locked,
           Models!FilesTypeOK, Models!At
    <3> QED BY <3>2, <3>3, <3>4, <1>a
  <2>2. CASE modelsTarget # MyWanted[t[1]]
    <3>1. "opening" \in Models!Steps /\ Models!Goes(t, "opening") /\ Models!At(t, "checking")
        /\ UNCHANGED holding
      BY <1>4, <2>2 DEF Models!Steps, Models!CheckCached
    <3>2. Good /\ Kept
      BY <1>4, <1>s, <3>1 DEF Models!CheckCached, Models!FilesTypeOK, Models!bounds
    <3>3. PartsAreHeld' /\ ResolvedIsThere' /\ NoneFailedYet'
      BY <1>4, <1>s, <3>1 DEF Models!CheckCached, PartsAreHeld, ResolvedIsThere,
           NoneFailedYet, Models!At
    <3>4. HoldersWork'
      BY <1>s, <3>1, ThreadsAre, ThreadParts DEF HoldersWork, Locked, Models!FilesTypeOK,
           Models!At
    <3> QED BY <3>2, <3>3, <3>4, <1>a
  <2> QED BY <2>1, <2>2
<1>5. ASSUME NEW t \in Models!Threads, Models!OpenPart(t) PROVE FilesInv'
  <2>1. "downloading" \in Models!Steps /\ Models!Goes(t, "downloading") /\ Models!At(t, "opening")
      /\ UNCHANGED holding
    BY <1>5 DEF Models!Steps, Models!OpenPart
  <2>2. Good /\ Kept
    BY <1>5, <1>s, <2>1 DEF Models!OpenPart, Models!FilesTypeOK
  <2>3. PartsAreHeld' /\ ResolvedIsThere' /\ NoneFailedYet'
    BY <1>5, <1>s, <2>1 DEF Models!OpenPart, PartsAreHeld, ResolvedIsThere, NoneFailedYet,
         Models!At, Models!FilesTypeOK
  <2>4. HoldersWork'
    BY <1>s, <2>1, ThreadsAre, ThreadParts DEF HoldersWork, Locked, Models!FilesTypeOK,
         Models!At
  <2> QED BY <2>2, <2>3, <2>4, <1>a
<1>6. ASSUME NEW t \in Models!Threads, Models!Downloaded(t) PROVE FilesInv'
  <2>1. Models!At(t, "downloading") /\ UNCHANGED <<modelsTarget, holding, leftParts, swapped,
                                                   downloads, bridgeDeaths>>
    BY <1>6 DEF Models!Downloaded, Models!bounds
  <2>2. CASE Models!Goes(t, "verifying")
      /\ \E content \in {MyWanted[t[1]], Models!Damaged} : part' = [part EXCEPT ![t] = content]
    <3>1. "verifying" \in Models!Steps /\ Models!Goes(t, "verifying")
      BY <2>2 DEF Models!Steps
    <3>2. Good /\ Kept
      BY <1>s, <2>1, <2>2, <3>1, ThreadParts, WantedIsVersion DEF Models!FilesTypeOK
    <3>3. PartsAreHeld' /\ ResolvedIsThere' /\ NoneFailedYet'
      BY <1>s, <2>1, <2>2, <3>1 DEF PartsAreHeld, ResolvedIsThere, NoneFailedYet, Models!At,
           Models!FilesTypeOK
    <3>4. HoldersWork'
      BY <1>s, <2>1, <3>1, ThreadsAre, ThreadParts DEF HoldersWork, Locked,
           Models!FilesTypeOK, Models!At
    <3> QED BY <3>2, <3>3, <3>4, <1>a
  <2>3. CASE loading' = [loading EXCEPT ![t].at = "removing", ![t].failed = TRUE] /\ UNCHANGED part
    <3>1. /\ loading' \in [Models!Threads -> [at : Models!Steps, failed : BOOLEAN,
                                              got : Models!Versions \cup {Models!NoFile,
                                                                          Models!Damaged}]]
          /\ loading'[t].at = "removing" /\ loading'[t].failed
          /\ \A u \in Models!Threads \ {t} : loading'[u] = loading[u]
      BY <2>3 DEF Models!FilesTypeOK, Models!Steps
    <3>2. Good /\ Kept
      BY <2>1, <2>3, <3>1 DEF Models!FilesTypeOK
    <3>3. PartsAreHeld' /\ ResolvedIsThere' /\ NoneFailedYet'
      BY <2>1, <2>3, <3>1 DEF PartsAreHeld, ResolvedIsThere, NoneFailedYet, Models!At
    <3>4. HoldersWork'
      BY <2>1, <3>1, ThreadsAre, ThreadParts DEF HoldersWork, Locked, Models!FilesTypeOK,
           Models!At
    <3> QED BY <3>2, <3>3, <3>4, <1>a
  <2> QED BY <1>6, <2>2, <2>3 DEF Models!Downloaded
<1>7. ASSUME NEW t \in Models!Threads, Models!Verify(t) PROVE FilesInv'
  <2>1. Models!At(t, "verifying") /\ UNCHANGED <<modelsTarget, holding, part, leftParts, swapped,
                                                 downloads, bridgeDeaths>>
    BY <1>7 DEF Models!Verify, Models!bounds
  <2>2. CASE part[t] = MyWanted[t[1]]
    <3>1. "replacing" \in Models!Steps /\ Models!Goes(t, "replacing")
      BY <1>7, <2>2 DEF Models!Steps, Models!Verify
    <3>2. Good /\ Kept
      BY <1>s, <2>1, <3>1 DEF Models!FilesTypeOK
    <3>3. PartsAreHeld' /\ ResolvedIsThere' /\ NoneFailedYet'
      BY <1>s, <2>1, <2>2, <3>1 DEF PartsAreHeld, ResolvedIsThere, NoneFailedYet, Models!At
    <3>4. HoldersWork'
      BY <1>s, <2>1, <3>1, ThreadsAre, ThreadParts DEF HoldersWork, Locked,
           Models!FilesTypeOK, Models!At
    <3> QED BY <3>2, <3>3, <3>4, <1>a
  <2>3. CASE part[t] # MyWanted[t[1]]
    <3>1. /\ loading' \in [Models!Threads -> [at : Models!Steps, failed : BOOLEAN,
                                              got : Models!Versions \cup {Models!NoFile,
                                                                          Models!Damaged}]]
          /\ loading'[t].at = "removing" /\ loading'[t].failed
          /\ \A u \in Models!Threads \ {t} : loading'[u] = loading[u]
      BY <1>7, <2>3 DEF Models!FilesTypeOK, Models!Steps, Models!Verify
    <3>2. Good /\ Kept
      BY <2>1, <3>1 DEF Models!FilesTypeOK
    <3>3. PartsAreHeld' /\ ResolvedIsThere' /\ NoneFailedYet'
      BY <2>1, <3>1 DEF PartsAreHeld, ResolvedIsThere, NoneFailedYet, Models!At
    <3>4. HoldersWork'
      BY <2>1, <3>1, ThreadsAre, ThreadParts DEF HoldersWork, Locked, Models!FilesTypeOK,
           Models!At
    <3> QED BY <3>2, <3>3, <3>4, <1>a
  <2> QED BY <2>2, <2>3
<1>8. ASSUME NEW t \in Models!Threads, Models!Replace(t) PROVE FilesInv'
  <2>1. "removing" \in Models!Steps /\ Models!Goes(t, "removing") /\ Models!At(t, "replacing")
      /\ UNCHANGED holding
    BY <1>8 DEF Models!Steps, Models!Replace
  <2>2. part[t] = MyWanted[t[1]] /\ modelsTarget' = MyWanted[t[1]] /\ ~loading[t].failed
    BY <1>8, <2>1 DEF Models!Replace, PartsAreHeld, NoneFailedYet, Models!At
  <2>3. Good /\ Kept
    BY <1>8, <1>s, <2>1, <2>2, ThreadParts, WantedIsVersion DEF Models!Replace,
         Models!FilesTypeOK, Models!bounds
  <2>4. ~swapped' => ~swapped /\ (modelsTarget \in Models!Versions => modelsTarget' = modelsTarget)
    BY <1>8 DEF Models!Replace, Models!FilesTypeOK
  <2>5. ResolvedIsThere'
    BY <1>s, <2>1, <2>2, <2>4, ThreadParts, WantedIsVersion DEF ResolvedIsThere, Models!At
  <2>a. /\ loading'[t].at = "removing" /\ loading'[t].failed = loading[t].failed
        /\ \A u \in Models!Threads \ {t} : loading'[u] = loading[u]
    BY <1>s, <2>1
  <2>b. part'[t] = Models!NoFile /\ \A u \in Models!Threads \ {t} : part'[u] = part[u]
    BY <1>8 DEF Models!Replace, Models!FilesTypeOK
  <2>c. PartsAreHeld'
    BY <2>a, <2>b DEF PartsAreHeld, Models!At
  <2>6. PartsAreHeld' /\ NoneFailedYet'
    BY <2>a, <2>c DEF NoneFailedYet
  <2>7. HoldersWork'
    BY <1>s, <2>1, ThreadsAre, ThreadParts DEF HoldersWork, Locked, Models!FilesTypeOK,
         Models!At
  <2> QED BY <2>3, <2>5, <2>6, <2>7, <1>a
<1>9. ASSUME NEW t \in Models!Threads, Models!RemovePart(t) PROVE FilesInv'
  <2> DEFINE s == IF loading[t].failed THEN "failed" ELSE "resolved"
  <2>1. s \in Models!Steps /\ Models!Goes(t, s) /\ Models!At(t, "removing") /\ Models!Unlocked(t)
    BY <1>9 DEF Models!Steps, Models!RemovePart
  <2>2. Good /\ Kept
    BY <1>9, <1>s, <2>1 DEF Models!RemovePart, Models!FilesTypeOK, Models!bounds,
         Models!Unlocked
  <2>3. ResolvedIsThere' /\ NoneFailedYet'
    BY <1>9, <1>s, <2>1 DEF Models!RemovePart, ResolvedIsThere, NoneFailedYet, Models!At
  <2>4. PartsAreHeld'
    BY <1>9, <1>s, <2>1 DEF Models!RemovePart, PartsAreHeld, Models!At, Models!FilesTypeOK
  <2>5. HoldersWork'
    BY <1>s, <2>1, ThreadsAre, ThreadParts DEF Models!Unlocked, HoldersWork, Locked,
         Models!FilesTypeOK, Models!At
  <2> QED BY <2>2, <2>3, <2>4, <2>5, <1>a
<1>10. ASSUME NEW t \in Models!Threads, Models!Load(t) PROVE FilesInv'
  <2>1. Models!At(t, "resolved") /\ UNCHANGED <<modelsTarget, holding, part, leftParts, swapped,
                                                downloads, bridgeDeaths>>
    BY <1>10 DEF Models!Load, Models!bounds
  <2>2. /\ loading' \in [Models!Threads -> [at : Models!Steps, failed : BOOLEAN,
                                            got : Models!Versions \cup {Models!NoFile,
                                                                        Models!Damaged}]]
        /\ loading'[t].at = "loaded" /\ loading'[t].failed = loading[t].failed
           /\ loading'[t].got = modelsTarget
        /\ \A u \in Models!Threads \ {t} : loading'[u] = loading[u]
    BY <1>10 DEF Models!FilesTypeOK, Models!Steps, Models!Load
  <2>3. Good /\ Kept
    BY <2>1, <2>2 DEF Models!FilesTypeOK
  <2>4. PartsAreHeld' /\ ResolvedIsThere' /\ NoneFailedYet'
    BY <2>1, <2>2 DEF PartsAreHeld, ResolvedIsThere, NoneFailedYet, Models!At
  <2>5. HoldersWork'
    BY <2>1, <2>2, ThreadsAre, ThreadParts DEF HoldersWork, Locked, Models!FilesTypeOK,
         Models!At
  <2> QED BY <2>3, <2>4, <2>5, <1>a
<1>11. ASSUME NEW t \in Models!Threads, Models!StopLoader(t) PROVE FilesInv'
  <2>1. loading[t].at \in {"loaded", "failed"}
      /\ UNCHANGED <<modelsTarget, holding, part, leftParts, swapped, downloads, bridgeDeaths>>
    BY <1>11 DEF Models!StopLoader, Models!bounds
  <2>2. /\ loading' \in [Models!Threads -> [at : Models!Steps, failed : BOOLEAN,
                                            got : Models!Versions \cup {Models!NoFile,
                                                                        Models!Damaged}]]
        /\ loading'[t].at = "idle" /\ ~loading'[t].failed
        /\ \A u \in Models!Threads \ {t} : loading'[u] = loading[u]
    BY <1>11 DEF Models!FilesTypeOK, Models!Steps, Models!StopLoader, Models!IdleThread
  <2>3. Good /\ Kept
    BY <2>1, <2>2 DEF Models!FilesTypeOK
  <2>4. PartsAreHeld' /\ ResolvedIsThere' /\ NoneFailedYet'
    BY <2>1, <2>2 DEF PartsAreHeld, ResolvedIsThere, NoneFailedYet, Models!At
  <2>5. HoldersWork'
    BY <2>1, <2>2, ThreadsAre, ThreadParts DEF HoldersWork, Locked, Models!FilesTypeOK,
         Models!At
  <2> QED BY <2>3, <2>4, <2>5, <1>a
<1>12. ASSUME NEW p \in Bridges, Models!BridgeDies(p) PROVE FilesInv'
  <2> DEFINE lost == {l \in Loaders : part[<<p, l>>] # Models!NoFile}
  <2>1. lost \subseteq {holding[p]}
    BY ThreadsAre DEF PartsAreHeld, HoldersWork, Locked
  <2>2. IsFiniteSet({holding[p]}) /\ Cardinality({holding[p]}) = 1
    BY FS_Singleton
  <2>3. IsFiniteSet(lost) /\ Cardinality(lost) \in Nat /\ Cardinality(lost) <= 1
    BY <2>1, <2>2, FS_Subset, FS_CardinalityType
  <2>4. leftParts' = leftParts + Cardinality(lost) /\ bridgeDeaths' = bridgeDeaths + 1
        /\ bridgeDeaths < MaxBridgeDeaths
    BY <1>12, ModelsCardinality DEF Models!BridgeDies
  <2> HIDE DEF lost
  <2>5. Cardinality(Loaders) \in Nat /\ Cardinality(Loaders) # 0
    BY FS_CardinalityType, FS_EmptySet
  <2>6. MaxBridgeDeaths <= MaxBridgeDeaths * Cardinality(Loaders)
    BY <2>5
  <2>7. MaxBridgeDeaths * Cardinality(Loaders) \in Nat
    BY <2>5
  <2>8. leftParts \in Nat /\ bridgeDeaths \in 0..MaxBridgeDeaths /\ leftParts <= bridgeDeaths
    BY <2>7 DEF Models!FilesTypeOK
  <2>9. leftParts' \in 0..MaxBridgeDeaths * Cardinality(Loaders) /\ leftParts' <= bridgeDeaths'
        /\ bridgeDeaths' \in 0..MaxBridgeDeaths
    BY <2>3, <2>4, <2>6, <2>7, <2>8
  <2>10. /\ part' = [t \in Models!Threads |-> IF t[1] = p THEN Models!NoFile ELSE part[t]]
         /\ loading' = [t \in Models!Threads |-> IF t[1] = p THEN Models!IdleThread ELSE loading[t]]
         /\ holding' = [holding EXCEPT ![p] = Models!Free]
         /\ UNCHANGED <<modelsTarget, swapped, downloads>>
    BY <1>12 DEF Models!BridgeDies
  <2>11. Models!IdleThread \in [at : Models!Steps, failed : BOOLEAN,
                                got : Models!Versions \cup {Models!NoFile, Models!Damaged}]
    BY DEF Models!IdleThread, Models!Steps
  <2>12. Models!FilesTypeOK'
    BY <2>9, <2>10, <2>11, ModelsCardinality DEF Models!FilesTypeOK
  <2>13. \A t \in Models!Threads : t[1] = p => part'[t] = Models!NoFile /\ loading'[t].at = "idle"
      /\ ~loading'[t].failed
    BY <2>10 DEF Models!IdleThread
  <2>14. \A t \in Models!Threads : t[1] # p => part'[t] = part[t] /\ loading'[t] = loading[t]
    BY <2>10
  <2>15. PartsAreHeld' /\ ResolvedIsThere' /\ NoneFailedYet'
    BY <2>10, <2>13, <2>14 DEF PartsAreHeld, ResolvedIsThere, NoneFailedYet, Models!At
  <2>16. HoldersWork'
    BY <2>10, <2>13, <2>14, ThreadParts DEF HoldersWork, Locked, Models!FilesTypeOK
  <2> QED BY <2>9, <2>12, <2>15, <2>16
<1> QED
  BY <1>1, <1>2, <1>3, <1>4, <1>5, <1>6, <1>7, <1>8, <1>9, <1>10, <1>11, <1>12
     DEF Models!FilesNext

LEMMA FilesHold == FilesInv => Models!ModelsAreVerified
<1> SUFFICES ASSUME FilesInv PROVE Models!ModelsAreVerified
  OBVIOUS
<1> USE DEF FilesInv
<1>1. \A t \in Models!Threads : Models!At(t, "loaded") /\ ~swapped
    => loading[t].got = MyWanted[t[1]]
  BY DEF ResolvedIsThere
<1>2. \A t \in Models!Threads : Models!At(t, "resolved") \/ Models!At(t, "failed")
    => part[t] = Models!NoFile
  BY DEF PartsAreHeld, Models!At
<1> QED BY <1>1, <1>2, ThreadsAre DEF Models!ModelsAreVerified, HoldersWork, Locked

-----------------------------------------------------------------------------
\* The drivers whose state no sum or order of a sequence describes: the others
\* (the writer, the speaker and the ball) are model-checked only.
Reasoned == Components \ {"writer", "speaker", "ball"}

\* These components at once: each keeps its invariant, whichever one runs, as
\* the others stay where they are.
PythonInv ==
  /\ component \in Components
  /\ CameraInv /\ AudioInv /\ PoseInv /\ HandInv /\ InterpolationInv /\ AccInv /\ FilesInv

LEMMA PythonStarts == Init => PythonInv
BY CameraStarts, AudioStarts, PoseStarts, HandsStart, InterpolationStarts, AccStarts, FilesStart
   DEF Init, PythonInv

\* A step of the process is a step of each component, or leaves it alone.
LEMMA StepOfEach ==
  ASSUME [Next]_vars
  PROVE  /\ UNCHANGED component
         /\ [Threads!ThreadsNext]_threadsVars
         /\ [Camera!CameraNext]_cameraVars /\ [Audio!AudioNext]_audioVars
         /\ [Pose!PoseNext]_poseVars /\ [Hands!HandNext]_handsVars
         /\ [Interp!InterpolationNext]_interpolationVars /\ [Acc!AccNext]_acceleratorVars
         /\ [Models!FilesNext]_modelsVars
<1>1. CASE UNCHANGED vars
  BY <1>1 DEF vars
<1>2. CASE \/ component = "threads" /\ Threads!ThreadsNext /\ Only("threads")
           \/ component = "writer" /\ Writer!WriterNext /\ Only("writer")
           \/ component = "camera" /\ Camera!CameraNext /\ Only("camera")
           \/ component = "audio" /\ Audio!AudioNext /\ Only("audio")
  BY <1>2 DEF Only
<1>3. CASE \/ component = "speaker" /\ Speaker!SpeakerNext /\ Only("speaker")
           \/ component = "ball" /\ Ball!BallNext /\ Only("ball")
           \/ component = "pose" /\ Pose!PoseNext /\ Only("pose")
           \/ component = "hands" /\ Hands!HandNext /\ Only("hands")
  BY <1>3 DEF Only
<1>4. CASE \/ component = "interpolation" /\ Interp!InterpolationNext /\ Only("interpolation")
           \/ component = "accelerator" /\ Acc!AccNext /\ Only("accelerator")
           \/ component = "models" /\ Models!FilesNext /\ Only("models")
  BY <1>4 DEF Only
<1> QED
  BY <1>1, <1>2, <1>3, <1>4 DEF Next

LEMMA PythonSteps == PythonInv /\ [Next]_vars => PythonInv'
<1> SUFFICES ASSUME PythonInv, [Next]_vars
             PROVE  PythonInv'
  OBVIOUS
<1>1. component' \in Components
  BY StepOfEach DEF PythonInv
<1>2. CameraInv'
  BY StepOfEach, CameraSteps DEF PythonInv
<1>3. AudioInv'
  BY StepOfEach, AudioSteps DEF PythonInv
<1>4. PoseInv'
  BY StepOfEach, PoseSteps DEF PythonInv
<1>5. HandInv'
  BY StepOfEach, HandSteps DEF PythonInv
<1>6. InterpolationInv'
  BY StepOfEach, InterpolationSteps DEF PythonInv
<1>7. AccInv'
  BY StepOfEach, AccSteps DEF PythonInv
<1>8. FilesInv'
  BY StepOfEach, FilesSteps DEF PythonInv
<1> QED
  BY <1>1, <1>2, <1>3, <1>4, <1>5, <1>6, <1>7, <1>8 DEF PythonInv

LEMMA PythonHolds == Spec => []PythonInv
BY PythonStarts, PythonSteps, PTL DEF Spec

\* The threads run as DriverThreads says, whose theorems then hold of them.
LEMMA ThreadsRun == Spec => Threads!ThreadsSpec
<1>1. Init => Threads!ThreadsInit
  BY DEF Init
<1>2. [Next]_vars => [Threads!ThreadsNext]_(Threads!tVars)
  BY StepOfEach DEF threadsVars, Threads!tVars
<1> QED
  BY <1>1, <1>2, PTL DEF Spec, Threads!ThreadsSpec

LEMMA ThreadsHold == Spec => [](Threads!ThreadsTypeOK /\ Threads!DriverThreadsAreSafe)
<1>1. Threads!ThreadsSpec => []Threads!ThreadsTypeOK
  BY Threads!ThreadsTypeCorrect, ThreadsAssumption
<1>2. Threads!ThreadsSpec => []Threads!DriverThreadsAreSafe
  BY Threads!ThreadsStaySafe, ThreadsAssumption
<1> QED
  BY <1>1, <1>2, ThreadsRun, PTL

\* Whatever runs, of the eight drivers that are reasoned about, its state has
\* its types: requests, workers, captures, samples, windows, jobs, downloads.
THEOREM PythonTypeCorrect == Spec => [](component \in Reasoned => PythonTypeOK)
<1>1. PythonInv /\ Threads!ThreadsTypeOK => (component \in Reasoned => PythonTypeOK)
  BY AudioHolds DEF PythonInv, Reasoned, Components, PythonTypeOK, CameraInv, PoseInv,
     HandInv, InterpolationInv, AccInv, FilesInv
<1> QED
  BY <1>1, PythonHolds, ThreadsHold, PTL

\* No data reaches a driver in its cleanup or out of order and each request is
\* answered once; instances share cameras without a stale frame; samples are
\* scored at the model's rate and in order, landmarks and signs are of one
\* model, one ramp runs, a model runs where it may and only if verified, with
\* any number of subscriptions, cameras, hands, workers and loader threads
\* (driver.py, workers.py, drivers/camera.py, microphone.py, pose.py, slr.py,
\* hand_pose.py, interpolate.py, runtime/accelerator.py, models.py).
THEOREM DriversStaySound == Spec => [](component \in Reasoned => DriversAreSound)
<1>1. PythonInv /\ Threads!DriverThreadsAreSafe => (component \in Reasoned => DriversAreSound)
  BY CameraHolds, AudioHolds, PoseHolds, InterpolationHolds, FilesHold
     DEF PythonInv, Reasoned, Components, DriversAreSound, HandInv, AccInv
<1> QED
  BY <1>1, PythonHolds, ThreadsHold, PTL
=============================================================================
