----------------------------- MODULE PoseSigns -----------------------------
(***************************************************************************)
(* From camera frames to signs: landmarks of each frame (drivers/pose.py), *)
(* whose settings are changed by actions on another thread, and the signs  *)
(* read from a window of them (drivers/slr.py), whose model is replaced by *)
(* one.                                                                    *)
(***************************************************************************)
EXTENDS Integers, Sequences, FiniteSets

CONSTANTS Models,    \* models of signs, each with its labels
          WithFace,  \* the models that take the face's landmarks too
          Window,    \* frames of a window (30)
          SignQueue, \* frames the sign driver's subscription holds (60)
          MaxStamp,  \* bound on the camera's clock, in milliseconds
          MaxPoses,  \* bound on frames
          MaxLoads,  \* bound on loads of a model
          MaxSets    \* bound on changes of the settings

VARIABLES pose,     \* settings, settings of the frame at work, step, last timestamp
          stamps,   \* a timestamp given to the detector was not above the last
          landmarks,\* payloads that wait for the sign driver
          slr,      \* session, features, labels and window of the sign driver
          load,     \* the model being loaded and the step of it
          sign,     \* the frame in on_data, the session it used, the step
          emitted,  \* the last sign
          poses, loads, sets

pVars == <<pose, stamps, landmarks, slr, load, sign, emitted, poses, loads, sets>>
poseVars == <<pose, stamps, poses, sets>>
slrVars == <<slr, load, sign, emitted, loads>>

None == "none"
Settings == [flip : BOOLEAN, faceMesh : BOOLEAN]
\* The mesh goes to Node and to drivers, or to drivers only.
Payloads == [flipped : BOOLEAN, flag : BOOLEAN, face : {"both", "drivers", None}]
NoFrame == [flipped |-> FALSE, flag |-> FALSE, face |-> None]
Features == BOOLEAN

PoseTypeOK ==
  /\ pose \in [settings : Settings, used : Settings, step : {"idle", "detect", "emit"}, last : 0..(MaxStamp + MaxPoses)]
  /\ stamps \in BOOLEAN
  /\ Len(landmarks) <= SignQueue /\ \A i \in DOMAIN landmarks : landmarks[i] \in Payloads
  /\ slr.session \in Models \cup {None} /\ slr.face \in BOOLEAN /\ slr.labels \in Models \cup {None}
  /\ Len(slr.frames) <= Window /\ \A i \in DOMAIN slr.frames : slr.frames[i] \in Features
  /\ load \in [model : Models \cup {None}, step : {"idle", "session", "face", "labels", "clear"}]
  /\ sign \in [frame : Payloads, features : Features, used : Models \cup {None},
               alone : BOOLEAN, step : {"idle", "features", "append", "infer", "label"}]
  /\ emitted \in [of : Models \cup {None}, labels : Models \cup {None}, alone : BOOLEAN]
  /\ poses \in 0..MaxPoses /\ loads \in 0..MaxLoads /\ sets \in 0..MaxSets

NoSign == [frame |-> NoFrame, features |-> FALSE, used |-> None, alone |-> FALSE, step |-> "idle"]

PoseInit ==
  /\ LET s == [flip |-> FALSE, faceMesh |-> TRUE]
     IN pose = [settings |-> s, used |-> s, step |-> "idle", last |-> 0]
  /\ stamps = TRUE /\ landmarks = <<>>
  /\ slr = [session |-> None, face |-> TRUE, labels |-> None, frames |-> <<>>]
  /\ load = [model |-> None, step |-> "idle"] /\ sign = NoSign
  /\ emitted = [of |-> None, labels |-> None, alone |-> FALSE]
  /\ poses = 0 /\ loads = 0 /\ sets = 0

-----------------------------------------------------------------------------
(* Pose                                                                     *)

\* set_flip, set_face_mesh: the settings are replaced by a changed copy.
SetPose ==
  /\ sets < MaxSets /\ sets' = sets + 1
  /\ \E s \in Settings : s # pose.settings /\ pose' = [pose EXCEPT !.settings = s]
  /\ UNCHANGED <<stamps, poses, landmarks, slrVars>>

\* on_data reads the settings once, and flips.
PoseFrame ==
  /\ pose.step = "idle" /\ poses < MaxPoses /\ poses' = poses + 1
  /\ pose' = [pose EXCEPT !.step = "detect", !.used = pose.settings]
  /\ UNCHANGED <<stamps, sets, landmarks, slrVars>>

\* Defect: the camera's clock is taken as it is.
Detect_RawStamp ==
  /\ pose.step = "detect"
  /\ \E capture \in 0..MaxStamp :
       /\ stamps' = (stamps /\ capture > pose.last)
       /\ pose' = [pose EXCEPT !.step = "emit", !.last = capture]
  /\ UNCHANGED <<poses, sets, landmarks, slrVars>>

\* The detector needs increasing timestamps; the camera's clock may stand
\* still or go back.
Detect ==
  /\ pose.step = "detect"
  /\ \E capture \in 0..MaxStamp :
       LET at == IF capture > pose.last THEN capture ELSE pose.last + 1
       IN /\ stamps' = (stamps /\ at > pose.last)
          /\ pose' = [pose EXCEPT !.step = "emit", !.last = at]
  /\ UNCHANGED <<poses, sets, landmarks, slrVars>>

Queued(payload) ==
  landmarks' = Append(IF Len(landmarks) = SignQueue THEN Tail(landmarks) ELSE landmarks, payload)

\* Defect: the settings are read again.
EmitPose_ReadsAgain ==
  /\ pose.step = "emit"
  /\ pose' = [pose EXCEPT !.step = "idle"]
  /\ Queued([flipped |-> pose.used.flip, flag |-> pose.settings.flip,
             face |-> IF pose.used.faceMesh THEN "both" ELSE IF pose.settings.faceMesh THEN None ELSE "drivers"])
  /\ UNCHANGED <<stamps, poses, sets, slrVars>>

EmitPose ==
  /\ pose.step = "emit"
  /\ pose' = [pose EXCEPT !.step = "idle"]
  /\ Queued([flipped |-> pose.used.flip, flag |-> pose.used.flip,
             face |-> IF pose.used.faceMesh THEN "both" ELSE "drivers"])
  /\ UNCHANGED <<stamps, poses, sets, slrVars>>

-----------------------------------------------------------------------------
(* Signs                                                                    *)

\* set_actions, on the action thread; a load that fails changes nothing.
LoadModel ==
  /\ load.step = "idle" /\ loads < MaxLoads /\ loads' = loads + 1
  /\ \E m \in Models : load' = [model |-> m, step |-> "session"]
  /\ sign' = [sign EXCEPT !.alone = FALSE]
  /\ UNCHANGED <<slr, emitted, landmarks, poseVars>>

LoadFails ==
  /\ load.step = "session" /\ load' = [model |-> None, step |-> "idle"]
  /\ UNCHANGED <<slr, sign, emitted, loads, landmarks, poseVars>>

LoadStep(from, to, with) ==
  /\ load.step = from /\ load' = [load EXCEPT !.step = to] /\ slr' = with
  /\ UNCHANGED <<sign, emitted, loads, landmarks, poseVars>>

SetSession == LoadStep("session", "face", [slr EXCEPT !.session = load.model])
SetFace == LoadStep("face", "labels", [slr EXCEPT !.face = load.model \in WithFace])
SetLabels == LoadStep("labels", "clear", [slr EXCEPT !.labels = load.model])
\* Defect: the window keeps the old model's frames.
ClearWindow_Keeps == LoadStep("clear", "idle", slr)
ClearWindow == LoadStep("clear", "idle", [slr EXCEPT !.frames = <<>>])

\* on_data takes a payload, unless there is no model ...
SignFrame ==
  /\ sign.step = "idle" /\ landmarks # <<>> /\ landmarks' = Tail(landmarks)
  /\ sign' = IF slr.session = None THEN sign
             ELSE [NoSign EXCEPT !.frame = Head(landmarks), !.alone = load.step = "idle", !.step = "features"]
  /\ UNCHANGED <<slr, load, emitted, loads, poseVars>>

\* ... takes its features ...
Adapt ==
  /\ sign.step = "features" /\ sign' = [sign EXCEPT !.features = slr.face, !.step = "append"]
  /\ UNCHANGED <<slr, load, emitted, loads, landmarks, poseVars>>

\* ... adds them to the window, the oldest leaving ...
AddFrame ==
  /\ sign.step = "append"
  /\ LET all == Append(slr.frames, sign.features)
     IN slr' = [slr EXCEPT !.frames = IF Len(all) > Window THEN Tail(all) ELSE all]
  /\ sign' = [sign EXCEPT !.step = IF Len(slr'.frames) = Window THEN "infer" ELSE "idle"]
  /\ UNCHANGED <<load, emitted, loads, landmarks, poseVars>>

\* ... and runs the model, which refuses other features than its own ...
InferSign ==
  /\ sign.step = "infer"
  /\ LET fits == /\ Len(slr.frames) = Window
                 /\ \A i \in DOMAIN slr.frames : slr.frames[i] = (slr.session \in WithFace)
     IN sign' = [sign EXCEPT !.used = slr.session, !.step = IF fits THEN "label" ELSE "idle"]
  /\ UNCHANGED <<slr, load, emitted, loads, landmarks, poseVars>>

\* ... and names the sign.
EmitSign ==
  /\ sign.step = "label"
  /\ emitted' = [of |-> sign.used, labels |-> slr.labels, alone |-> sign.alone]
  /\ sign' = NoSign
  /\ UNCHANGED <<slr, load, loads, landmarks, poseVars>>

PoseNext ==
  \/ SetPose \/ PoseFrame \/ Detect \/ EmitPose
  \/ LoadModel \/ LoadFails \/ SetSession \/ SetFace \/ SetLabels \/ ClearWindow
  \/ SignFrame \/ Adapt \/ AddFrame \/ InferSign \/ EmitSign

PoseSpec == PoseInit /\ [][PoseNext]_pVars

-----------------------------------------------------------------------------
\* Whatever settings change while a frame is detected: its payload says
\* whether it was flipped, drivers always get the face, and the detector's
\* clock never stands still.
PosesAreTrue ==
  /\ stamps
  /\ \A i \in DOMAIN landmarks : landmarks[i].flipped = landmarks[i].flag /\ landmarks[i].face # None

\* Once a load is over, at most the one frame that was in on_data meanwhile
\* has the features of another model, and a sign read with no load meanwhile
\* is named by its own model's labels.
SignsAreOfOneModel ==
  /\ load.step = "idle" /\ slr.session # None
       => Cardinality({i \in DOMAIN slr.frames : slr.frames[i] # (slr.session \in WithFace)}) <= 1
  /\ emitted.alone => emitted.of = emitted.labels

PosesAreSound == PosesAreTrue /\ SignsAreOfOneModel

\* What the code does not keep: a load replaces the labels while a sign of
\* the previous model is being read, which then gets the new labels.
SignsHaveTheirLabels == emitted.labels \in {emitted.of, None}
=============================================================================
