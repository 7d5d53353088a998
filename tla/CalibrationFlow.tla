-------------------------- MODULE CalibrationFlow --------------------------
(***************************************************************************)
(* The camera-projector-surface flow of apps/calibration: the wizard and   *)
(* its control window, the projector window that follows it by events, the *)
(* calibration driver that both call, and the profile that is saved.       *)
(*                                                                         *)
(* A pan and zoom of the markers is a position; a corner is a point.  A    *)
(* calibration is what it was computed from.  Drawing, labels and the      *)
(* arithmetic of the homographies are left out.                            *)
(*                                                                         *)
(* The focus control of the same window (focus.ts) shares no state with    *)
(* the flow and is a specification of its own: a drag sends its values to  *)
(* the camera one at a time, the newest waiting, and a released value is   *)
(* also stored in the target app's camera settings.  Each release is an    *)
(* asynchronous call of its own.                                           *)
(***************************************************************************)
EXTENDS Naturals, Sequences

CONSTANTS Points,      \* points of the camera image
          NCorners,    \* corners of a surface (4 in the code)
          Positions,   \* pans and zooms of the markers
          Initial,     \* DEFAULT_MARKER_TRANSFORM
          MaxEvents,   \* bound on the events, and on the layout calls, on their way
          MaxFailures, \* bound on calls that fail or whose answer is lost
          Focuses,     \* focus values; one of them may be null (autofocus)
          FocusInitial,\* focus of the device and the app before
          MaxValues,   \* bound on values the slider produces
          MaxErrors    \* bound on requests that fail

VARIABLES wizard,    \* WizardState
          phase,     \* of the control window
          dragging,  \* corner being dragged, 0 for none
          transform, \* marker pan and zoom the control window shows
          asked,     \* the compute or save in progress, and its answer
          told,      \* events on their way to the projector window
          projector, \* the projector window
          calls,     \* its set_marker_layout calls on their way to the driver
          driver,    \* layout and detections of the calibration driver
          frame,     \* camera frame on its way to the driver
          profile,   \* what this flow stored
          verdicts,  \* results the control window reported
          failures   \* calls failed so far

fVars == <<wizard, phase, dragging, transform, asked, told, projector, calls, driver,
           frame, profile, verdicts, failures>>

controlVars   == <<wizard, phase, dragging, transform, asked, verdicts>>
projectorVars == <<projector, calls>>
driverVars    == <<driver, frame>>

None == "none"
Steps == {"markers", "surface-corners", "compute", "preview", "done", "cancelled"}
Corners == UNION {[1..n -> Points] : n \in 0..NCorners}
Places == Positions \cup {None}
Calibrations == [corners : Corners, layout : Places, seen : Places]
NoCalibration == [corners |-> <<>>, layout |-> None, seen |-> None]
NoFrame == [at |-> None, old |-> FALSE]

FlowTypeOK ==
  /\ wizard \in [step : Steps, corners : Corners, calibration : Calibrations,
                 saving : BOOLEAN]
  /\ phase \in {"loading", "running", "failed"}
  /\ dragging \in 0..NCorners /\ transform \in Positions
  /\ asked \in [what : {None, "compute", "save"}, answer : {None, "done", "failed"},
               result : Calibrations]
  /\ \A i \in DOMAIN told : told[i] \in [step : Steps] \cup [at : Positions]
  /\ projector \in [phase : {"loading", "drawing", "running", "failed"}, at : Positions,
                    shows : Steps, missed : BOOLEAN, excused : BOOLEAN]
  /\ \A i \in DOMAIN calls : calls[i] \in [at : Positions, own : BOOLEAN]
  /\ driver \in [layout : Places, seen : Places, stale : BOOLEAN]
  /\ frame \in [at : Places, old : BOOLEAN]
  /\ profile \in Calibrations
  /\ \A i \in DOMAIN verdicts : verdicts[i] \in {"ok", "cancelled", "error"}
  /\ failures \in 0..MaxFailures

Asked(what) == [what |-> what, answer |-> None, result |-> NoCalibration]
NoAnswer == Asked(None)

\* initialWizard: the corners of the last calibration, if it was read.
InitialWizard(corners) ==
  [step |-> "markers", corners |-> corners, calibration |-> NoCalibration, saving |-> FALSE]

FlowInit ==
  /\ wizard = InitialWizard(<<>>) /\ phase = "loading" /\ dragging = 0
  /\ transform = Initial /\ asked = NoAnswer /\ told = <<>>
  /\ projector = [phase |-> "loading", at |-> Initial, shows |-> "markers",
                  missed |-> FALSE, excused |-> TRUE]
  /\ calls = <<>> /\ frame = NoFrame
  /\ driver = [layout |-> None, seen |-> None, stale |-> FALSE]
  /\ profile = NoCalibration /\ verdicts = <<>> /\ failures = 0

Fails == failures < MaxFailures /\ failures' = failures + 1

-----------------------------------------------------------------------------
(* The wizard's transitions (wizard.ts).                                    *)

CanAdvance(w) ==
  \/ w.step = "markers"
  \/ w.step = "surface-corners" /\ Len(w.corners) = NCorners
  \/ w.step = "preview" /\ w.calibration # NoCalibration /\ ~w.saving

Advance(w) ==
  CASE ~CanAdvance(w) -> w
    [] w.step = "markers" -> [w EXCEPT !.step = "surface-corners"]
    [] w.step = "surface-corners" -> [w EXCEPT !.step = "compute"]
    [] OTHER -> [w EXCEPT !.saving = TRUE]

GoBack(w) ==
  CASE w.saving -> w
    [] w.step = "surface-corners" -> [w EXCEPT !.step = "markers"]
    [] w.step = "preview" -> [w EXCEPT !.step = "surface-corners", !.calibration = NoCalibration]
    [] OTHER -> w

\* Defect: a compute that ends late is shown whatever the wizard is at.
ComputeSucceeded_Anytime(w, calibration) ==
  [w EXCEPT !.step = "preview", !.calibration = calibration]

ComputeSucceeded(w, calibration) ==
  IF w.step = "compute" THEN [w EXCEPT !.step = "preview", !.calibration = calibration] ELSE w

ComputeFailed(w) ==
  IF w.step = "compute" THEN [w EXCEPT !.step = "surface-corners", !.calibration = NoCalibration] ELSE w

SaveSucceeded(w) == IF w.saving THEN [w EXCEPT !.step = "done", !.saving = FALSE] ELSE w
SaveFailed(w) == IF w.saving THEN [w EXCEPT !.saving = FALSE] ELSE w

\* Defect: a cancel is taken while the profile saves.
CancelWizard_Saving(w) ==
  IF w.step \in {"done", "cancelled"} THEN w ELSE [w EXCEPT !.step = "cancelled"]

CancelWizard(w) ==
  IF w.saving \/ w.step \in {"done", "cancelled"} THEN w ELSE [w EXCEPT !.step = "cancelled"]

AddCorner(w, p) ==
  IF w.step # "surface-corners" \/ Len(w.corners) >= NCorners THEN w
  ELSE [w EXCEPT !.corners = Append(@, p)]

MoveCorner(w, i, p) ==
  IF w.step # "surface-corners" \/ i \notin DOMAIN w.corners THEN w
  ELSE [w EXCEPT !.corners[i] = p]

ResetCorners(w) == IF w.step = "surface-corners" THEN [w EXCEPT !.corners = <<>>] ELSE w

-----------------------------------------------------------------------------
(* The control window (control.ts)                                          *)

\* broadcastStep
Broadcast(w) == told' = Append(told, [step |-> w.step])

\* update: the projector hears of a new step, and the compute step asks the
\* driver at once.
Update(w) ==
  /\ wizard' = w
  /\ IF w.step = wizard.step THEN UNCHANGED told ELSE Broadcast(w)

Operable == phase = "running" /\ Len(told) < MaxEvents

\* startControl: the corners of the last calibration, or none, are shown.
StartControl ==
  /\ phase = "loading" /\ Len(told) < MaxEvents
  /\ \E corners \in {<<>>} \cup [1..NCorners -> Points] : wizard' = InitialWizard(corners)
  /\ phase' = "running" /\ Broadcast(wizard')
  /\ UNCHANGED <<dragging, transform, asked, verdicts, projectorVars, driverVars, profile, failures>>

\* start: what stops the window from starting is reported as the result.
StartFails ==
  /\ phase = "loading" /\ Fails
  /\ phase' = "failed" /\ verdicts' = Append(verdicts, "error")
  /\ UNCHANGED <<wizard, dragging, transform, asked, told, projectorVars, driverVars, profile>>

\* next: Space, Enter or the button.
PressNext ==
  /\ Operable
  /\ LET w == Advance(wizard) IN
       /\ w # wizard
       /\ Update(w)
       /\ asked' = CASE w.saving -> Asked("save")
                     [] w.step = "compute" -> Asked("compute")
                     [] OTHER -> asked
  /\ UNCHANGED <<phase, dragging, transform, verdicts, projectorVars, driverVars, profile, failures>>

PressBack ==
  /\ Operable /\ GoBack(wizard) # wizard /\ Update(GoBack(wizard))
  /\ UNCHANGED <<phase, dragging, transform, asked, verdicts, projectorVars, driverVars,
                 profile, failures>>

\* cancel: also ends the flow.
PressCancel ==
  /\ Operable
  /\ LET w == CancelWizard(wizard) IN w # wizard /\ Update(w)
  /\ verdicts' = Append(verdicts, "cancelled")
  /\ UNCHANGED <<phase, dragging, transform, asked, projectorVars, driverVars, profile, failures>>

\* The mouse: takes a corner, adds one, moves the one that was taken, lets go.
PointerDown ==
  /\ Operable /\ wizard.step = "surface-corners"
  /\ \/ \E i \in DOMAIN wizard.corners : dragging' = i /\ UNCHANGED <<wizard, told>>
     \/ \E p \in Points : Update(AddCorner(wizard, p)) /\ UNCHANGED dragging
  /\ UNCHANGED <<phase, transform, asked, verdicts, projectorVars, driverVars, profile, failures>>

PointerMove ==
  /\ Operable /\ dragging > 0
  /\ \E p \in Points : Update(MoveCorner(wizard, dragging, p))
  /\ UNCHANGED <<phase, dragging, transform, asked, verdicts, projectorVars, driverVars,
                 profile, failures>>

PointerUp ==
  /\ phase = "running" /\ dragging > 0 /\ dragging' = 0
  /\ UNCHANGED <<wizard, phase, transform, asked, told, verdicts, projectorVars, driverVars,
                 profile, failures>>

PressReset ==
  /\ Operable /\ Update(ResetCorners(wizard))
  /\ UNCHANGED <<phase, dragging, transform, asked, verdicts, projectorVars, driverVars,
                 profile, failures>>

\* setTransform, by the arrow keys and the wheel.
SetTransform ==
  /\ Operable /\ wizard.step = "markers"
  /\ \E at \in Positions \ {transform} :
       transform' = at /\ told' = Append(told, [at |-> at])
  /\ UNCHANGED <<wizard, phase, dragging, asked, verdicts, projectorVars, driverVars,
                 profile, failures>>

\* compute: the driver's answer, or its failure, is applied.
ComputeReturns ==
  /\ asked.what = "compute" /\ asked.answer # None /\ Len(told) < MaxEvents
  /\ Update(IF asked.answer = "failed" THEN ComputeFailed(wizard)
            ELSE ComputeSucceeded(wizard, asked.result))
  /\ asked' = NoAnswer
  /\ UNCHANGED <<phase, dragging, transform, verdicts, projectorVars, driverVars, profile, failures>>

\* save: what it saves was the wizard's calibration when it began.
SaveReturns ==
  /\ asked.what = "save" /\ asked.answer # None /\ Len(told) < MaxEvents
  /\ IF asked.answer = "done"
     THEN Update(SaveSucceeded(wizard)) /\ verdicts' = Append(verdicts, "ok")
     ELSE Update(SaveFailed(wizard)) /\ UNCHANGED verdicts
  /\ asked' = NoAnswer
  /\ UNCHANGED <<phase, dragging, transform, projectorVars, driverVars, profile, failures>>

-----------------------------------------------------------------------------
(* The projector window (projector.ts)                                      *)

\* start: listens, shows the markers' step, and draws the markers, a call each.
StartProjector ==
  /\ projector.phase = "loading"
  /\ projector' = [projector EXCEPT !.phase = "drawing", !.at = Initial, !.shows = "markers"]
  /\ UNCHANGED <<controlVars, told, calls, driverVars, profile, failures>>

\* The markers are drawn: the driver is told where, as they were laid out.
MarkersDrawn ==
  /\ projector.phase = "drawing" /\ Len(calls) < MaxEvents
  /\ calls' = Append(calls, [at |-> Initial, own |-> TRUE])
  /\ projector' = [projector EXCEPT !.phase = "running", !.excused = (projector.at # Initial)]
  /\ UNCHANGED <<controlVars, told, driverVars, profile, failures>>

\* An event arrives before the window listens: nothing keeps it.
EventLost ==
  /\ told # <<>> /\ projector.phase \in {"loading", "failed"}
  /\ told' = Tail(told) /\ projector' = [projector EXCEPT !.missed = TRUE]
  /\ UNCHANGED <<controlVars, calls, driverVars, profile, failures>>

\* show
Show ==
  /\ told # <<>> /\ projector.phase \in {"drawing", "running"} /\ "step" \in DOMAIN Head(told)
  /\ projector' = [projector EXCEPT !.shows = Head(told).step, !.missed = FALSE]
  /\ told' = Tail(told)
  /\ UNCHANGED <<controlVars, calls, driverVars, profile, failures>>

\* applyTransform: moves the markers and tells the driver.
ApplyTransform ==
  /\ told # <<>> /\ projector.phase \in {"drawing", "running"} /\ "at" \in DOMAIN Head(told)
  /\ Len(calls) < MaxEvents
  /\ projector' = [projector EXCEPT !.at = Head(told).at, !.excused = FALSE]
  /\ calls' = Append(calls, [at |-> Head(told).at, own |-> FALSE])
  /\ told' = Tail(told)
  /\ UNCHANGED <<controlVars, driverVars, profile, failures>>

-----------------------------------------------------------------------------
(* The driver (drivers/calibration.py), one action at a time.               *)

\* Defect: what was detected under the old layout is kept.
SetMarkerLayout_KeepsDetections ==
  /\ calls # <<>>
  /\ driver' = [driver EXCEPT !.layout = Head(calls).at]
  /\ frame' = IF frame = NoFrame THEN NoFrame ELSE [frame EXCEPT !.old = TRUE]
  /\ calls' = Tail(calls)
  /\ UNCHANGED <<controlVars, told, projector, profile, failures>>

\* set_marker_layout: clears the detections.
SetMarkerLayout ==
  /\ calls # <<>>
  /\ driver' = [layout |-> Head(calls).at, seen |-> None, stale |-> FALSE]
  /\ frame' = IF frame = NoFrame THEN NoFrame ELSE [frame EXCEPT !.old = TRUE]
  /\ calls' = Tail(calls)
  /\ UNCHANGED <<controlVars, told, projector, profile, failures>>

\* A call that fails is only logged, but for the projector's own first one,
\* which is reported as the result of the flow.
LayoutFails ==
  /\ calls # <<>> /\ Fails
  /\ projector' = [projector EXCEPT !.phase = IF Head(calls).own THEN "failed" ELSE @,
                                    !.excused = TRUE]
  /\ calls' = Tail(calls)
  /\ UNCHANGED <<controlVars, told, driverVars, profile>>

\* The camera sees the markers when the projector shows them.
Capture ==
  /\ frame = NoFrame /\ projector.phase = "running" /\ projector.shows = "markers"
  /\ frame' = [at |-> projector.at, old |-> FALSE]
  /\ UNCHANGED <<controlVars, told, projectorVars, driver, profile, failures>>

\* on_data, on a worker of its own: the detections of the frame.
Detect ==
  /\ frame # NoFrame
  /\ driver' = [driver EXCEPT !.seen = frame.at, !.stale = frame.old]
  /\ frame' = NoFrame
  /\ UNCHANGED <<controlVars, told, projectorVars, profile, failures>>

\* compute, with the layout and the detections there are.
Compute ==
  /\ asked.what = "compute" /\ asked.answer = None
  /\ asked' = IF driver.seen = None \/ driver.layout = None
              THEN [asked EXCEPT !.answer = "failed"]
              ELSE [asked EXCEPT !.answer = "done",
                                 !.result = [corners |-> wizard.corners,
                                             layout |-> driver.layout, seen |-> driver.seen]]
  /\ UNCHANGED <<wizard, phase, dragging, transform, verdicts, told, projectorVars, driverVars,
                 profile, failures>>

\* The compute rejects: a call lost, a degenerate fit, a corner at infinity.
ComputeFails ==
  /\ asked.what = "compute" /\ asked.answer = None /\ Fails
  /\ asked' = [asked EXCEPT !.answer = "failed"]
  /\ UNCHANGED <<wizard, phase, dragging, transform, verdicts, told, projectorVars, driverVars,
                 profile>>

\* CalibrationStore.save replaces the profile.
Save ==
  /\ asked.what = "save" /\ asked.answer = None
  /\ profile' = wizard.calibration /\ asked' = [asked EXCEPT !.answer = "done"]
  /\ UNCHANGED <<wizard, phase, dragging, transform, verdicts, told, projectorVars, driverVars,
                 failures>>

\* The save is refused, or its call is lost before the server has it.
SaveFails ==
  /\ asked.what = "save" /\ asked.answer = None /\ Fails
  /\ asked' = [asked EXCEPT !.answer = "failed"]
  /\ UNCHANGED <<wizard, phase, dragging, transform, verdicts, told, projectorVars, driverVars,
                 profile>>

FlowNext ==
  \/ StartControl \/ StartFails \/ PressNext \/ PressBack \/ PressCancel \/ PressReset
  \/ PointerDown \/ PointerMove \/ PointerUp \/ SetTransform
  \/ ComputeReturns \/ SaveReturns
  \/ StartProjector \/ MarkersDrawn \/ EventLost \/ Show \/ ApplyTransform
  \/ SetMarkerLayout \/ LayoutFails \/ Capture \/ Detect \/ Compute \/ ComputeFails
  \/ Save \/ SaveFails

FlowSpec == FlowInit /\ [][FlowNext]_fVars

-----------------------------------------------------------------------------
\* The flow reports one result, and it is what happened: after "ok" the
\* profile is the calibration that was previewed, computed from the corners
\* the operator sees; after "cancelled" nothing of this flow was saved
\* (control.ts "Calibration cancelled. Nothing was saved."), whatever keys are
\* pressed while the driver computes or the server saves.
VerdictIsTrue ==
  /\ Len(verdicts) <= 1
  /\ verdicts = <<"ok">> => profile = wizard.calibration /\ wizard.step = "done"
  /\ verdicts = <<"cancelled">> => profile = NoCalibration /\ wizard.step = "cancelled"
  /\ wizard.step = "preview" => wizard.calibration # NoCalibration
                             /\ wizard.calibration.corners = wizard.corners

\* When the events and calls have arrived, the projector shows the wizard's
\* step, and the driver's layout and detections are those of the markers that
\* are projected: a homography computed from them is the right one.  Excused:
\* a step sent before the window listened, a call that failed, the window's
\* own layout sent over an earlier pan, a frame taken before the last layout.
DriverKnowsMarkers ==
  (told = <<>> /\ calls = <<>> /\ projector.phase = "running") =>
    /\ projector.missed \/ phase # "running" \/ projector.shows = wizard.step
    /\ ~projector.excused =>
         /\ driver.layout = projector.at
         /\ driver.seen # None /\ ~driver.stale => driver.seen = driver.layout

CalibrationIsSound == VerdictIsTrue /\ DriverKnowsMarkers

\* What the code does not keep: a profile whose markers were where the driver
\* thought they were.
ProfileFits == profile.layout = profile.seen

-----------------------------------------------------------------------------
(* The focus control (focus.ts)                                             *)

VARIABLES slider,    \* newest value of the control, and the values so far
          sending,   \* value at the camera driver, or "nothing"
          queued,    \* newest value waiting behind it, or "nothing"
          waiter,    \* released value whose save waits for the loop in progress
          device,    \* focus of the camera
          storing,   \* app:config:set requests in order
          stored,    \* camera.focus in the app's settings
          released,  \* newest released value
          errors     \* requests that failed

focusVars == <<slider, sending, queued, waiter, device, storing, stored, released, errors>>

Nothing == "nothing"
Waiting == Focuses \cup {Nothing}

FocusTypeOK ==
  /\ slider \in [value : Focuses, count : 0..MaxValues]
  /\ sending \in Waiting /\ queued \in Waiting /\ waiter \in Waiting
  /\ device \in Focuses /\ \A i \in DOMAIN storing : storing[i] \in Focuses
  /\ stored \in Focuses /\ released \in Focuses /\ errors \in 0..MaxErrors

FocusInit ==
  /\ slider = [value |-> FocusInitial, count |-> 0]
  /\ sending = Nothing /\ queued = Nothing /\ waiter = Nothing
  /\ device = FocusInitial /\ storing = <<>> /\ stored = FocusInitial /\ released = FocusInitial
  /\ errors = 0

\* Defect: a value that waits already is kept.
Apply_KeepsFirst(f) ==
  CASE sending = Nothing -> sending' = f /\ queued' = Nothing
    [] queued = Nothing -> queued' = f /\ UNCHANGED sending
    [] OTHER -> UNCHANGED <<sending, queued>>

\* apply: with a request in progress the value only waits, in the place of
\* the one that waited before; the loop of that request sends it.
Apply(f) ==
  IF sending = Nothing THEN sending' = f /\ queued' = Nothing
                       ELSE queued' = f /\ UNCHANGED sending

\* The slider moves, or the mode is selected.
Moved(f) ==
  /\ slider.count < MaxValues /\ slider' = [value |-> f, count |-> slider.count + 1]

Drag ==
  /\ \E f \in Focuses \ {slider.value} : Moved(f) /\ Apply(f)
  /\ UNCHANGED <<waiter, device, storing, stored, released, errors>>

\* save: apply resolves at once when another call's loop sends the value, so
\* that save stores it while the call that owns the loop still waits.
Release ==
  /\ \E f \in Focuses :
       /\ Moved(f) /\ Apply(f) /\ released' = f
       /\ IF sending = Nothing
          THEN waiter' = f /\ UNCHANGED storing
          ELSE storing' = Append(storing, f) /\ UNCHANGED waiter
  /\ UNCHANGED <<device, stored, errors>>

\* The loop is over: the save that began it goes on.
LoopEnds ==
  /\ storing' = IF waiter = Nothing THEN storing ELSE Append(storing, waiter)
  /\ waiter' = Nothing

\* set_focus answers; the loop goes on with the value that waits.
Answered ==
  /\ sending # Nothing
  /\ device' = sending /\ sending' = queued /\ queued' = Nothing
  /\ IF queued = Nothing THEN LoopEnds ELSE UNCHANGED <<waiter, storing>>
  /\ UNCHANGED <<slider, stored, released, errors>>

\* set_focus fails: the loop ends, and the value that waits stays queued.
Failed ==
  /\ sending # Nothing /\ errors < MaxErrors /\ errors' = errors + 1
  /\ sending' = Nothing /\ LoopEnds
  /\ UNCHANGED <<slider, queued, device, stored, released>>

\* app:config:set
Store ==
  /\ storing # <<>> /\ stored' = Head(storing) /\ storing' = Tail(storing)
  /\ UNCHANGED <<slider, sending, queued, waiter, device, released, errors>>

FocusNext == Drag \/ Release \/ Answered \/ Failed \/ Store
FocusSpec == FocusInit /\ [][FocusNext]_focusVars

\* At rest the camera has the newest value the operator chose, however fast
\* the values came, unless a request failed.
CameraHasNewest == sending = Nothing /\ errors = 0 => device = slider.value

\* focus.ts:7 "The released value is saved to the target app's camera
\* settings, so the app gets it back whenever it opens the camera."
ReleasedIsStored ==
  sending = Nothing /\ storing = <<>> /\ errors = 0 => stored = released
=============================================================================
