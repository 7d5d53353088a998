------------------------------ MODULE MCPython -------------------------------
(*****************************************************************************)
(* What runs in the Python process besides its supervision (PythonBridge):   *)
(* the threads of a driver, the writer of its output, and the drivers        *)
(* themselves.  One run checks them side by side, one at a time (component), *)
(* as none of them touches the variables of another.                         *)
(*****************************************************************************)
EXTENDS Integers, Sequences, FiniteSets, TLC

CONSTANTS ThreadEvents, Subscribed, MaxSize, MaxRequests, MaxWorkers, MaxValues,
          Streams, Buffers, MaxPosts, Cams, Devices, CameraModes, StartModes,
          MaxOps, Rates, ModelRate, BlockLen, Chunk, MicQueue, VadQueue, MaxBlocks,
          MaxReopens, MaxResets, SpeakerRates, FirstRate, Lengths, Block,
          MaxPlays, MaxOpens, MaxUnderflows, Width, MaxBalls, Near, Far,
          MaxMiss, RenderMiss, MaxFrames, MaxReloads, PoseModels, WithFace,
          Window, SignQueue, MaxStamp, MaxPoses, MaxLoads, MaxSets, HandsHands,
          Homographies, MaxFailures, MaxHandFrames, MaxChanges, Goals, Amount,
          MaxJobs, Bridges, Loaders, MaxDownloads, MaxBridgeDeaths

VARIABLES
  component,  \* the one that runs
  tasks, qThread, task, answers, closing, inst, thread, stopFlag, subs, retired,
  mine, threadsWorkers, bus, popped, stopper, values, excused,  \* DriverThreads
  posted, ordered, writerLatest, buffered, uncounted, dropped, writerFailed,
  batch, writer, writerOut, broken, closed,  \* BridgeWriter
  state, step, cameraTarget, config, requested, cap, gen, stops, captures,
  cameraLatest, cameraLate, inUse, holder, cache, probe, ops,  \* CameraDriver
  mic, stream, audioWorkers, captured, audioLate, inbox, vad, scored, reopens,
  resets,  \* AudioInput
  speaker, open, chunks, offset, pending, heard, plays, opens, counters, under,  \* SpeakerStream
  tracks, frames, skip, ballSession, reload, data, matched, shown, reloads,  \* BallTracking
  pose, stamps, landmarks, slr, load, sign, emitted, poses, loads, sets,  \* PoseSigns
  hp, hand, hlock, cleaned, sent, handFailed, hframes, changes,  \* HandDetection
  jobs, newest, calling, value, interpolationOut, ending, overrun,  \* Interpolation
  setting, build, model, asked, acceleratorSession, reason,  \* Accelerator
  modelsTarget, holding, loading, part, leftParts, swapped, downloads,
  bridgeDeaths  \* ModelFiles

threadsVars == <<tasks, qThread, task, answers, closing, inst, thread, stopFlag,
                 subs, retired, mine, threadsWorkers, bus, popped, stopper,
                 values, excused>>
writerVars == <<posted, ordered, writerLatest, buffered, uncounted, dropped,
                writerFailed, batch, writer, writerOut, broken, closed>>
cameraVars == <<state, step, cameraTarget, config, requested, cap, gen, stops,
                captures, cameraLatest, cameraLate, inUse, holder, cache, probe,
                ops>>
audioVars == <<mic, stream, audioWorkers, captured, audioLate, inbox, vad,
               scored, reopens, resets>>
speakerVars == <<speaker, open, chunks, offset, pending, heard, plays, opens,
                 counters, under>>
ballVars == <<tracks, frames, skip, ballSession, reload, data, matched, shown,
              reloads>>
poseVars == <<pose, stamps, landmarks, slr, load, sign, emitted, poses, loads,
              sets>>
handsVars == <<hp, hand, hlock, cleaned, sent, handFailed, hframes, changes>>
interpolationVars == <<jobs, newest, calling, value, interpolationOut, ending,
                       overrun>>
acceleratorVars == <<setting, build, model, asked, acceleratorSession, reason>>
modelsVars == <<modelsTarget, holding, loading, part, leftParts, swapped,
                downloads, bridgeDeaths>>

CONSTANTS lefthand, h1, p1

\* One hand leaves the picture when it is warped.
MyLost == {<<h1, lefthand>>}

\* Two installations that share a folder and want different versions.
MyWanted == [p \in Bridges |-> IF p = p1 THEN "v1" ELSE "v2"]

Threads == INSTANCE DriverThreads WITH
    Events <- ThreadEvents, workers <- threadsWorkers
Writer == INSTANCE BridgeWriter WITH
    latest <- writerLatest, failed <- writerFailed, out <- writerOut
Camera == INSTANCE CameraDriver WITH
    Modes <- CameraModes, target <- cameraTarget, latest <- cameraLatest, late <- cameraLate
Audio == INSTANCE AudioInput WITH
    workers <- audioWorkers, late <- audioLate
Speaker == INSTANCE SpeakerStream
Ball == INSTANCE BallTracking WITH
    session <- ballSession
Pose == INSTANCE PoseSigns WITH
    Models <- PoseModels
Hands == INSTANCE HandDetection WITH
    Hands <- HandsHands, Lost <- MyLost, failed <- handFailed
Interp == INSTANCE Interpolation WITH
    out <- interpolationOut
Acc == INSTANCE Accelerator WITH
    session <- acceleratorSession
Models == INSTANCE ModelFiles WITH
    WantedModel <- MyWanted, target <- modelsTarget

(* The systems that the theorems are about.  The bounds are numbers, the    *)
(* queues and windows have room, and no sentinel is the name of a thing.    *)
ASSUME ThreadsAssumption == Threads!ThreadsBounds
ASSUME CameraAssumption ==
  /\ Devices \subseteq Nat /\ Devices # {}
  /\ StartModes \subseteq CameraModes /\ StartModes # {} /\ Camera!None \notin CameraModes
  /\ Camera!None \notin Cams /\ "probe" \notin Cams /\ MaxOps \in Nat
ASSUME AudioAssumption ==
  /\ ModelRate \in Rates /\ Audio!None \notin Rates
  /\ BlockLen \in Nat /\ Chunk \in Nat \ {0} /\ MicQueue \in Nat \ {0} /\ VadQueue \in Nat \ {0}
  /\ MaxBlocks \in Nat /\ MaxReopens \in Nat /\ MaxResets \in Nat
ASSUME PoseAssumption ==
  /\ Window \in Nat /\ SignQueue \in Nat \ {0}
  /\ MaxStamp \in Nat /\ MaxPoses \in Nat /\ MaxLoads \in Nat /\ MaxSets \in Nat
ASSUME HandAssumption ==
  /\ IsFiniteSet(HandsHands)
  /\ MaxFailures \in Nat /\ MaxHandFrames \in Nat /\ MaxChanges \in Nat
ASSUME InterpolationAssumption ==
  Goals \subseteq Int /\ Amount \in Nat /\ MaxJobs \in Nat
ASSUME FilesAssumption ==
  /\ IsFiniteSet(Loaders) /\ Loaders # {} /\ Models!Free \notin Loaders
  /\ MaxDownloads \in Nat /\ MaxBridgeDeaths \in Nat

Components == {"threads", "writer", "camera", "audio", "speaker", "ball",
               "pose", "hands", "interpolation", "accelerator", "models"}

(* The step is one of component c.                                         *)
Only(c) ==
  /\ UNCHANGED component
  /\ c # "threads" => UNCHANGED threadsVars
  /\ c # "writer" => UNCHANGED writerVars
  /\ c # "camera" => UNCHANGED cameraVars
  /\ c # "audio" => UNCHANGED audioVars
  /\ c # "speaker" => UNCHANGED speakerVars
  /\ c # "ball" => UNCHANGED ballVars
  /\ c # "pose" => UNCHANGED poseVars
  /\ c # "hands" => UNCHANGED handsVars
  /\ c # "interpolation" => UNCHANGED interpolationVars
  /\ c # "accelerator" => UNCHANGED acceleratorVars
  /\ c # "models" => UNCHANGED modelsVars

(* A component that does not run stays in one state.                       *)
Parked ==
  /\ component # "accelerator" => /\ setting = [mode |-> "auto", fallback |-> TRUE, gpu |-> Acc!Unset]
                                /\ build = [offers |-> {}, mac |-> FALSE] /\ model = "onnx"
  /\ component # "models" => modelsTarget = Models!NoFile

Init ==
  /\ component \in Components
  /\ Threads!ThreadsInit /\ Writer!WriterInit /\ Camera!CameraInit
  /\ Audio!AudioInit /\ Speaker!SpeakerInit /\ Ball!BallInit /\ Pose!PoseInit
  /\ Hands!HandInit /\ Interp!InterpolationInit /\ Acc!AccInit
  /\ Models!FilesInit
  /\ Parked

Next ==
  \/ component = "threads" /\ Threads!ThreadsNext /\ Only("threads")
  \/ component = "writer" /\ Writer!WriterNext /\ Only("writer")
  \/ component = "camera" /\ Camera!CameraNext /\ Only("camera")
  \/ component = "audio" /\ Audio!AudioNext /\ Only("audio")
  \/ component = "speaker" /\ Speaker!SpeakerNext /\ Only("speaker")
  \/ component = "ball" /\ Ball!BallNext /\ Only("ball")
  \/ component = "pose" /\ Pose!PoseNext /\ Only("pose")
  \/ component = "hands" /\ Hands!HandNext /\ Only("hands")
  \/ component = "interpolation" /\ Interp!InterpolationNext /\ Only("interpolation")
  \/ component = "accelerator" /\ Acc!AccNext /\ Only("accelerator")
  \/ component = "models" /\ Models!FilesNext /\ Only("models")

vars == <<component, threadsVars, writerVars, cameraVars, audioVars,
        speakerVars, ballVars, poseVars, handsVars, interpolationVars,
        acceleratorVars, modelsVars>>

(* Each component under its own fairness.                                  *)
Fairness ==
  /\ WF_Threads!tVars(component = "threads" /\ Threads!ThreadsProgress)
  /\ WF_Writer!writerVars(component = "writer" /\ Writer!WriterProgress)

Spec == Init /\ [][Next]_vars /\ Fairness

-----------------------------------------------------------------------------
PythonTypeOK ==
  CASE component = "threads" -> Threads!ThreadsTypeOK
    [] component = "writer" -> Writer!WriterTypeOK
    [] component = "camera" -> Camera!CameraTypeOK
    [] component = "audio" -> Audio!AudioTypeOK
    [] component = "speaker" -> Speaker!SpeakerTypeOK
    [] component = "ball" -> Ball!BallTypeOK
    [] component = "pose" -> Pose!PoseTypeOK
    [] component = "hands" -> Hands!HandTypeOK
    [] component = "interpolation" -> Interp!InterpolationTypeOK
    [] component = "accelerator" -> Acc!AccTypeOK
    [] component = "models" -> Models!FilesTypeOK

(* A driver's threads never deliver data into a cleanup or out of order     *)
(* (DriverThreads); output keeps its order and says what it dropped         *)
(* (BridgeWriter); capture threads share devices without deadlock or stale  *)
(* frames (CameraDriver); audio is scored at its rate and played in order   *)
(* (AudioInput, SpeakerStream); tracks, landmarks and signs belong to the   *)
(* model and the frames they were computed from (BallTracking, PoseSigns,   *)
(* HandDetection); one ramp runs at a time (Interpolation); models run only *)
(* where they may (Accelerator) and only verified ones are used             *)
(* (ModelFiles).                                                            *)
DriversAreSound ==
  /\ component = "threads" => Threads!DriverThreadsAreSafe
  /\ component = "writer" => Writer!WriterIsSound
  /\ component = "camera" => Camera!CamerasAreSound
  /\ component = "audio" => Audio!AudioIsSound
  /\ component = "speaker" => Speaker!SpeakerIsSound
  /\ component = "ball" => Ball!BallsAreTracked
  /\ component = "pose" => Pose!PosesAreSound
  /\ component = "hands" => Hands!HandsAreSound
  /\ component = "interpolation" => Interp!OneJobAtATime
  /\ component = "accelerator" => Acc!RunsWhereAllowed
  /\ component = "models" => Models!ModelsAreVerified

(* Every request of the bridge is answered unless it closes, a close ends,  *)
(* and the writer never sleeps on a message.                                *)
PythonSettles ==
  []<>CASE component = "threads" -> Threads!RequestsAnswered
        [] component = "writer" -> Writer!NothingWaits
        [] OTHER -> TRUE
=============================================================================
