------------------------------ MODULE MCClients ------------------------------
(*****************************************************************************)
(* The clients of the server: the shared connection and what is built on it, *)
(* the SDK in an experience, the desktop main process, and the apps' own     *)
(* control loops.  One run checks them side by side, one at a time           *)
(* (component), as none of them touches the variables of another; the server *)
(* is, in each, what that client sees of it.                                 *)
(*****************************************************************************)
EXTENDS Naturals, Sequences, FiniteSets, TLC

CONSTANTS Events, Uses, Denied, MaxHolds, MaxShare, MaxConnections, MaxMessages,
          Values, MaxChanges, MaxLiveDrops, MaxRequests, Layers, Exclusive,
          Persistent, MaxRenderFailures, MaxJobs, FailingFrames,
          MaxRuntimeDrops, Exps, Own, MaxAttempts, MaxStarts, MaxMainDrops,
          Flow, Ids, MaxCloses, MaxCuts, Users, Cleaners, MaxDeaths, MaxAges,
          Points, NCorners, Positions, CalibInitial, MaxEvents, MaxFailures,
          Focuses, FocusInitial, MaxValues, MaxErrors, Urls, Refused, OldUrl,
          MaxBackoff, MaxUrlChanges, MaxBatches, MaxSockets, AutoStop,
          OpenFrames, CardFrames, ArrowFrames, Cooldown, ArmedFrames,
          CloseFrames, StopFrames, MaxOpenings

VARIABLES
  component,  \* the one that runs
  uses, status, closed, link, clientTimer, generation, listeners, holds,
  clientHolding, ops, pending, toServer, toClient, subscriptions, leases,
  handlers, lateLease,  \* ServerClient
  value, liveChanges, liveDrops, liveConn, toSrv, fromSrv, subscribed, missed,
  dialog, livePage,  \* LiveValues
  layers, suspended, stopAll,  \* LayerManager
  runtimePage, aborted, runtimeConn, stopping, initialized, runtimeHolding,
  tracked, runtimeFrame, badFrames, reports, lateMismatch, runtimeDrops,  \* ExperienceRuntime
  dMode, boot, warned, server, stopSent, held, exps, linked, attempts, starts,
  mainDrops, life, windows, following, quitting, exitCode, exited,  \* DesktopProcess
  srv, windowsConn, outbox, inbox, known, opening, windowsOpened, resolving,
  wins, ending, waiting, flow, windowsChanges, closes, cuts,  \* ExperienceWindows
  pc, alive, inUse, final, lockFile, lockOld, staging, trash, judged, moved,
  deaths, ages,  \* PythonRuntimes
  wizard, phase, dragging, transform, asked, told, projector, calls, driver,
  calibrationFrame, profile, verdicts, failures,  \* CalibrationFlow
  slider, sending, queued, waiter, device, storing, stored, released, errors,  \* CalibrationFlow, its focus control
  running, setting, legacy, target, seen, sockets, current, relayTimer, backoff,
  balls, relayOpened, urlChanges,  \* PoolRelay
  menu, fill, pause, away, scene, counts  \* PoolMenu

clientVars == <<uses, status, closed, link, clientTimer, generation, listeners,
                holds, clientHolding, ops, pending, toServer, toClient,
                subscriptions, leases, handlers, lateLease>>
liveVars == <<value, liveChanges, liveDrops, liveConn, toSrv, fromSrv,
              subscribed, missed, dialog, livePage>>
layersVars == <<layers, suspended, stopAll>>
runtimeVars == <<runtimePage, aborted, runtimeConn, stopping, initialized,
                 runtimeHolding, tracked, runtimeFrame, badFrames, reports,
                 lateMismatch, runtimeDrops>>
mainVars == <<dMode, boot, warned, server, stopSent, held, exps, linked,
              attempts, starts, mainDrops, life, windows, following, quitting,
              exitCode, exited>>
windowsVars == <<srv, windowsConn, outbox, inbox, known, opening, windowsOpened,
                 resolving, wins, ending, waiting, flow, windowsChanges, closes,
                 cuts>>
pythonVars == <<pc, alive, inUse, final, lockFile, lockOld, staging, trash,
                judged, moved, deaths, ages>>
calibrationVars == <<wizard, phase, dragging, transform, asked, told, projector,
                     calls, driver, calibrationFrame, profile, verdicts,
                     failures>>
focusVars == <<slider, sending, queued, waiter, device, storing, stored,
               released, errors>>
relayVars == <<running, setting, legacy, target, seen, sockets, current,
               relayTimer, backoff, balls, relayOpened, urlChanges>>
menuVars == <<menu, fill, pause, away, scene, counts>>

CONSTANTS s1, s2
MyItems == <<s1, s2>>

\* The game needs the head-up display.
MyRequired == [l \in Layers |-> IF l = "game" THEN <<"hud">> ELSE <<>>]
MyAllowed == [l \in Layers |-> {}]

Client == INSTANCE ServerClient WITH
    timer <- clientTimer, holding <- clientHolding
Live == INSTANCE LiveValues WITH
    MaxDrops <- MaxLiveDrops, changes <- liveChanges, drops <- liveDrops,
    conn <- liveConn, page <- livePage
LayerStack == INSTANCE LayerManager WITH
    Required <- MyRequired, Allowed <- MyAllowed
Runtime == INSTANCE ExperienceRuntime WITH
    MaxDrops <- MaxRuntimeDrops, page <- runtimePage, conn <- runtimeConn,
    holding <- runtimeHolding, frame <- runtimeFrame, drops <- runtimeDrops
Main == INSTANCE DesktopProcess WITH
    MaxDrops <- MaxMainDrops, drops <- mainDrops
Wins == INSTANCE ExperienceWindows WITH
    conn <- windowsConn, opened <- windowsOpened, changes <- windowsChanges
Python == INSTANCE PythonRuntimes
Calib == INSTANCE CalibrationFlow WITH
    Initial <- CalibInitial, frame <- calibrationFrame
Relay == INSTANCE PoolRelay WITH
    timer <- relayTimer, opened <- relayOpened
Pool == INSTANCE PoolMenu WITH
    Items <- MyItems

Components == {"client", "live", "layers", "runtime", "main", "windows",
               "python", "calibration", "focus", "relay", "menu"}

(* The step is one of component c.                                         *)
Only(c) ==
  /\ UNCHANGED component
  /\ c # "client" => UNCHANGED clientVars
  /\ c # "live" => UNCHANGED liveVars
  /\ c # "layers" => UNCHANGED layersVars
  /\ c # "runtime" => UNCHANGED runtimeVars
  /\ c # "main" => UNCHANGED mainVars
  /\ c # "windows" => UNCHANGED windowsVars
  /\ c # "python" => UNCHANGED pythonVars
  /\ c # "calibration" => UNCHANGED calibrationVars
  /\ c # "focus" => UNCHANGED focusVars
  /\ c # "relay" => UNCHANGED relayVars
  /\ c # "menu" => UNCHANGED menuVars

(* A component that does not run stays in one state.                       *)
Parked ==
  /\ component # "client" => uses = CHOOSE u \in Uses : TRUE
  /\ component # "live" => value = CHOOSE v \in Values : TRUE
  /\ component # "main" => dMode = "kiosk"
  /\ component # "python" => final = "none"
  /\ component # "relay" => setting = OldUrl /\ legacy.key

Init ==
  /\ component \in Components
  /\ Client!ClientInit /\ Live!LiveInit /\ LayerStack!LayersInit
  /\ Runtime!RuntimeInit /\ Main!ProcessInit /\ Wins!WindowsInit
  /\ Python!RuntimesInit /\ Calib!FlowInit /\ Calib!FocusInit
  /\ Relay!RelayInit /\ Pool!MenuInit
  /\ Parked

Next ==
  \/ component = "client" /\ Client!ClientNext /\ Only("client")
  \/ component = "live" /\ Live!LiveNext /\ Only("live")
  \/ component = "layers" /\ LayerStack!LayersNext /\ Only("layers")
  \/ component = "runtime" /\ Runtime!RuntimeNext /\ Only("runtime")
  \/ component = "main" /\ Main!ProcessNext /\ Only("main")
  \/ component = "windows" /\ Wins!WindowsNext /\ Only("windows")
  \/ component = "python" /\ Python!RuntimesNext /\ Only("python")
  \/ component = "calibration" /\ Calib!FlowNext /\ Only("calibration")
  \/ component = "focus" /\ Calib!FocusNext /\ Only("focus")
  \/ component = "relay" /\ Relay!RelayNext /\ Only("relay")
  \/ component = "menu" /\ Pool!MenuNext /\ Only("menu")

vars == <<component, clientVars, liveVars, layersVars, runtimeVars, mainVars,
        windowsVars, pythonVars, calibrationVars, focusVars, relayVars, menuVars>>

(* Each component under its own fairness.                                  *)
Fairness ==
  /\ \A l \in Layers : WF_LayerStack!layerVars(component = "layers" /\ LayerStack!Hook(l))
  /\ WF_LayerStack!layerVars(component = "layers" /\ LayerStack!StopAllReturns)
  /\ WF_Runtime!runtimeVars(component = "runtime" /\ Runtime!RuntimeProgress)
  /\ WF_Client!clientVars(component = "client" /\ Client!ClientProgress)
  /\ SF_Client!clientVars(component = "client" /\ Client!Welcomed(FALSE))
  /\ WF_Main!dVars(component = "main" /\ Main!ProcessProgress)
  /\ WF_Wins!wVars(component = "windows" /\ Wins!WindowsProgress)
  /\ WF_Python!rVars(component = "python" /\ Python!RuntimesProgress)

Spec == Init /\ [][Next]_vars /\ Fairness

-----------------------------------------------------------------------------
ClientsTypeOK ==
  CASE component = "client" -> Client!ClientTypeOK
    [] component = "live" -> Live!LiveTypeOK
    [] component = "layers" -> LayerStack!LayersTypeOK
    [] component = "runtime" -> Runtime!RuntimeTypeOK
    [] component = "main" -> Main!ProcessTypeOK
    [] component = "windows" -> Wins!WindowsTypeOK
    [] component = "python" -> Python!RuntimesTypeOK
    [] component = "calibration" -> Calib!FlowTypeOK
    [] component = "focus" -> Calib!FocusTypeOK
    [] component = "relay" -> Relay!RelayTypeOK
    [] component = "menu" -> Pool!MenuTypeOK

(* The connection and the experiences behind it.  Across reconnects the     *)
(* server knows what the client listens to and holds (ServerClient), views  *)
(* show the server's value once quiet (LiveValues), the hooks of layers     *)
(* take turns (LayerManager), a stopping page leaves nothing behind         *)
(* (ExperienceRuntime), one relay is open to the newest address (PoolRelay) *)
(* and the menu acts once per gesture (PoolMenu).                           *)
ConnectionsAreSound ==
  /\ component = "client" => Client!ServerKnowsClient
  /\ component = "live" => Live!ViewsAreCurrent
  /\ component = "layers" => LayerStack!LayersTakeTurns
  /\ component = "runtime" => Runtime!RuntimeCleansUp
  /\ component = "relay" => Relay!RelayIsSound
  /\ component = "menu" => Pool!MenuIsSound

(* The desktop app.  Its exit code tells what happened (DesktopProcess),    *)
(* windows match what runs (ExperienceWindows), processes that share the    *)
(* Python runtimes take none from each other (PythonRuntimes), a            *)
(* calibration computes from what was seen of its own layout                *)
(* and the camera has the newest focus (both CalibrationFlow).              *)
DesktopIsSound ==
  /\ component = "main" => Main!MainProcessIsSound
  /\ component = "windows" => Wins!WindowsAreRight
  /\ component = "python" => Python!RuntimesAreSafe
  /\ component = "calibration" => Calib!CalibrationIsSound
  /\ component = "focus" => Calib!CameraHasNewest

(* Holds settle, layers come to rest, a stopped page leaves the server, a   *)
(* quit ends and a kiosk does not stay blank, a calibration ends, and every *)
(* launch gets a Python runtime or an error.                                *)
ClientsSettle ==
  /\ LayerStack!LayersComeToRest
  /\ []<>CASE component = "client" -> Client!HoldSettled
           [] component = "layers" -> LayerStack!StopAllReturned
           [] component = "runtime" -> Runtime!GoneWhenAborted
           [] component = "main" -> Main!QuitEnded /\ Main!SomethingIsShown
           [] component = "windows" -> Wins!CalibrationHeard
           [] component = "python" -> Python!LaunchesEnded
           [] OTHER -> TRUE
=============================================================================
