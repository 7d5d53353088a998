--------------------------- MODULE DesktopProcess ---------------------------
(***************************************************************************)
(* The Electron main process of the desktop app and of a kiosk: boot,      *)
(* the server it runs as a child, a kiosk's own start with its retries,    *)
(* the rules by which a kiosk quits, and the quit itself (index.ts,        *)
(* boot.ts, server-runner.ts, kiosk.ts, kiosk-lifecycle.ts).               *)
(*                                                                         *)
(* The server's experiences appear as what main hears of them: one event   *)
(* per start, stop or crash, lost while main's connection is down.         *)
(***************************************************************************)
EXTENDS Naturals

CONSTANTS Exps,          \* experiences of the kiosk's app
          Own,           \* the one the kiosk starts
          MaxAttempts,   \* attempts of startExperienceWithRetry
          MaxStarts,     \* bound on the experiences the server starts
          MaxDrops       \* bound on lost connections

VARIABLES dMode,      \* "desktop" or "kiosk"
          boot,       \* how far whenReady().then() got
          warned,     \* the Python runtime could not be installed
          server,     \* the child process
          stopSent,   \* ServerRunner.stopping
          held,       \* index.ts serverRunner is set
          exps,       \* experience states on the server
          linked,     \* main's client is connected
          attempts,   \* start attempts made
          starts, drops,
          life,       \* the KioskLifecycle
          windows,    \* experiences with an app window
          following,  \* ExperienceWindows follows the server
          quitting,   \* progress of the before-quit handler
          exitCode,   \* index.ts exitCode
          exited      \* the process's exit

dVars == <<dMode, boot, warned, server, stopSent, held, exps, linked, attempts,
           starts, drops, life, windows, following, quitting, exitCode, exited>>

serverVars == <<server, stopSent, held>>
worldVars  == <<exps, linked, starts, drops>>
quitVars   == <<quitting, exitCode, exited>>

BootSteps == {"python", "starting", "stopping", "failed", "warnings",
              "connecting", "calibrating", "start", "answered", "retrying", "done"}
Codes == {"ok", "error"}

\* KioskLifecycle's fields; `exit` is what finish() decided.
NewLife == [made |-> FALSE, active |-> {}, lastStop |-> "none",
            starting |-> TRUE, timer |-> FALSE, exit |-> "none"]

ProcessTypeOK ==
  /\ dMode \in {"desktop", "kiosk"} /\ boot \in BootSteps /\ warned \in BOOLEAN
  /\ server \in {"none", "starting", "ready", "gone"}
  /\ stopSent \in BOOLEAN /\ held \in BOOLEAN /\ linked \in BOOLEAN
  /\ exps \in [Exps -> {"idle", "running"}]
  /\ attempts \in 0..MaxAttempts /\ starts \in 0..MaxStarts /\ drops \in 0..MaxDrops
  /\ life \in [made : BOOLEAN, active : SUBSET Exps,
               lastStop : {"none", "idle", "crashed"}, starting : BOOLEAN,
               timer : BOOLEAN, exit : {"none"} \cup Codes]
  /\ windows \in SUBSET Exps /\ following \in BOOLEAN
  /\ quitting \in {"no", "closing", "stopping"}
  /\ exitCode \in Codes /\ exited \in {"no"} \cup Codes

ProcessInit ==
  /\ dMode \in {"desktop", "kiosk"} /\ boot = "python" /\ warned = FALSE
  /\ server = "none" /\ stopSent = FALSE /\ held = FALSE
  /\ exps = [e \in Exps |-> "idle"] /\ linked = FALSE
  /\ attempts = 0 /\ starts = 0 /\ drops = 0
  /\ life = NewLife /\ windows = {} /\ following = FALSE
  /\ quitting = "no" /\ exitCode = "ok" /\ exited = "no"

Up == exited = "no"
Running == {e \in Exps : exps[e] = "running"}

(***************************************************************************)
(* KioskLifecycle                                                          *)
(***************************************************************************)
\* waitForStart: (re)starts the grace timer.
WaitForStart(l) == [l EXCEPT !.timer = TRUE]

\* Defect: an experience that starts leaves the grace timer running.
OnActive_KeepsTimer(l, e) ==
  IF l.made /\ l.exit = "none" THEN [l EXCEPT !.active = @ \cup {e}] ELSE l

\* onExperience for an experience that starts or runs.
OnActive(l, e) ==
  IF l.made /\ l.exit = "none"
  THEN [l EXCEPT !.active = @ \cup {e}, !.timer = FALSE]
  ELSE l

\* onExperience for one that stopped or crashed; unknown ones do not count.
OnStop(l, e, how) ==
  IF l.made /\ l.exit = "none" /\ e \in l.active
  THEN LET m == [l EXCEPT !.active = @ \ {e}, !.lastStop = how]
       IN IF m.active = {} /\ ~m.starting THEN WaitForStart(m) ELSE m
  ELSE l

\* finish: the first exit decides, and disposes of the timer.
Finish(l, code) ==
  IF l.exit = "none" THEN [l EXCEPT !.exit = code, !.timer = FALSE] ELSE l

\* Defect: a stop that came before the start settled is forgotten.
Started_Forgets(l) == [l EXCEPT !.starting = FALSE]

\* started(): stops count from now on, those that already happened included.
Started(l) ==
  LET m == [l EXCEPT !.starting = FALSE]
  IN IF l.starting /\ m.active = {} /\ m.lastStop # "none" /\ m.exit = "none"
     THEN WaitForStart(m) ELSE m

StartFailed(l) == Finish([l EXCEPT !.starting = FALSE], "error")

(***************************************************************************)
(* before-quit: once, closes the windows, then stops the server, then      *)
(* exits with exitCode.                                                    *)
(***************************************************************************)
BeforeQuit ==
  IF quitting = "no"
  THEN quitting' = "closing" /\ following' = FALSE
  ELSE UNCHANGED <<quitting, following>>

\* `quit` of RunKioskOptions.
Quit(code) == exitCode' = code /\ BeforeQuit

\* closeAllControlWindows and closeAllAppHosts are over; stop() of a running server.
WindowsClosed ==
  /\ Up /\ quitting = "closing"
  /\ windows' = {}
  /\ IF held /\ server \in {"starting", "ready"}
     THEN /\ quitting' = "stopping" /\ stopSent' = TRUE /\ UNCHANGED exited
     ELSE /\ exited' = exitCode /\ UNCHANGED <<quitting, stopSent>>
  /\ UNCHANGED <<dMode, boot, warned, server, held, worldVars, attempts, life,
                 following, exitCode>>

\* stop() saw the child exit, or killed it after its timeout.
ServerStopped ==
  /\ Up /\ quitting = "stopping"
  /\ server' = "gone" /\ exited' = exitCode
  /\ linked' = FALSE /\ exps' = [e \in Exps |-> "idle"]
  /\ UNCHANGED <<dMode, boot, warned, stopSent, held, starts, drops, attempts,
                 life, windows, following, quitting, exitCode>>

\* A signal, the dashboard's close, or the last window of a booted desktop.
UserQuits ==
  /\ Up /\ quitting = "no"
  /\ BeforeQuit
  /\ UNCHANGED <<dMode, boot, warned, serverVars, worldVars, attempts, life,
                 windows, exitCode, exited>>

\* The user closes an app window: its experience stops on the server, and a
\* kiosk quits with 0 (onAppWindowClosedByUser, quitWith).
UserClosesWindow ==
  /\ Up /\ quitting = "no"
  /\ \E e \in windows :
       /\ windows' = windows \ {e}
       /\ IF life.made /\ life.exit = "none"
          THEN /\ life' = Finish(life, "ok") /\ Quit("ok") /\ UNCHANGED exps
          ELSE /\ exps' = [exps EXCEPT ![e] = "idle"] /\ life' = OnStop(life, e, "idle")
               /\ UNCHANGED <<quitting, following, exitCode>>
  /\ UNCHANGED <<dMode, boot, warned, serverVars, linked, starts, drops, attempts, exited>>

(***************************************************************************)
(* Boot                                                                    *)
(***************************************************************************)
\* preparePython: a failure is only a warning. runner.start() may throw.
PreparePython ==
  /\ Up /\ boot = "python"
  /\ warned' \in BOOLEAN
  /\ \/ boot' = "starting" /\ server' = "starting"
     \/ boot' = "failed" /\ UNCHANGED server
  /\ UNCHANGED <<dMode, stopSent, held, worldVars, attempts, life, windows,
                 following, quitVars>>

\* The child printed GOSAI_READY; the caller's steps up to its next await.
ServerReady ==
  /\ Up /\ server = "starting"
  /\ server' = "ready"
  /\ IF boot = "starting"
     THEN IF dMode = "desktop"
          THEN boot' = "done" /\ held' = TRUE /\ following' = TRUE
          ELSE /\ boot' = (IF warned THEN "warnings" ELSE "connecting")
               /\ UNCHANGED <<held, following>>
     ELSE UNCHANGED <<boot, held, following>>
  /\ UNCHANGED <<dMode, warned, stopSent, worldVars, attempts, life, windows, quitVars>>

\* waitForReady timed out: bootRuntime stops the server before it throws.
ReadyTimesOut ==
  /\ Up /\ boot = "starting"
  /\ boot' = "stopping" /\ stopSent' = TRUE
  /\ UNCHANGED <<dMode, warned, server, held, worldVars, attempts, life, windows,
                 following, quitVars>>

\* runner.stop() of the failed boot.
BootStopped ==
  /\ Up /\ boot = "stopping"
  /\ boot' = "failed" /\ server' = "gone"
  /\ UNCHANGED <<dMode, warned, stopSent, held, worldVars, attempts, life, windows,
                 following, quitVars>>

\* showBootFailure, then app.exit(1).
FailureShown ==
  /\ Up /\ boot = "failed"
  /\ exited' = "error"
  /\ UNCHANGED <<dMode, boot, warned, serverVars, worldVars, attempts, life, windows,
                 following, quitting, exitCode>>

\* The child exits by itself. onUnexpectedExit is registered once the server
\* was ready: a kiosk exits with 1, a desktop shows a dialog.
ServerDies ==
  /\ Up /\ server \in {"starting", "ready"} /\ ~stopSent
  /\ server' = "gone" /\ linked' = FALSE
  /\ exps' = [e \in Exps |-> "idle"]
  /\ boot' = IF boot = "starting" THEN "failed" ELSE boot
  /\ exited' = IF server = "ready" /\ dMode = "kiosk" THEN "error" ELSE exited
  /\ UNCHANGED <<dMode, warned, stopSent, held, starts, drops, attempts, life, windows,
                 following, quitting, exitCode>>

\* After main's exit the server sees its stdin close.
ServerSeesExit ==
  /\ ~Up /\ server \in {"starting", "ready"}
  /\ server' = "gone" /\ exps' = [e \in Exps |-> "idle"] /\ linked' = FALSE
  /\ UNCHANGED <<dMode, boot, warned, stopSent, held, starts, drops, attempts, life,
                 windows, following, quitVars>>

\* render-process-gone in a kiosk.
RendererGone ==
  /\ Up /\ dMode = "kiosk" /\ windows # {}
  /\ exited' = "error"
  /\ UNCHANGED <<dMode, boot, warned, serverVars, worldVars, attempts, life, windows,
                 following, quitting, exitCode>>

(***************************************************************************)
(* A kiosk's start                                                         *)
(***************************************************************************)
WarningsShown ==
  /\ Up /\ boot = "warnings" /\ boot' = "connecting"
  /\ UNCHANGED <<dMode, warned, serverVars, worldVars, attempts, life, windows,
                 following, quitVars>>

\* server.ready(30_000), whose failure is only logged; the calibration, if due.
Connecting ==
  /\ Up /\ boot = "connecting" /\ boot' = "calibrating"
  /\ UNCHANGED <<dMode, warned, serverVars, worldVars, attempts, life, windows,
                 following, quitVars>>

\* maybeCalibrate is over, whatever its result: the lifecycle and the windows
\* follow the server, and the first attempt begins.
Calibrated ==
  /\ Up /\ boot = "calibrating"
  /\ boot' = "start" /\ attempts' = 1
  /\ life' = [life EXCEPT !.made = TRUE]
  /\ following' = TRUE
  /\ UNCHANGED <<dMode, warned, serverVars, worldVars, windows, quitVars>>

\* The server answers experience:start: the experience runs.
StartAnswered ==
  /\ Up /\ boot = "start" /\ linked /\ Own \in Running
  /\ boot' = "answered"
  /\ UNCHANGED <<dMode, warned, serverVars, worldVars, attempts, life, windows,
                 following, quitVars>>

\* Main acts on the answer; the experience may have stopped since.
StartSucceeds ==
  /\ Up /\ boot = "answered"
  /\ life' = Started(life) /\ boot' = "done" /\ held' = TRUE
  /\ UNCHANGED <<dMode, warned, server, stopSent, worldVars, attempts, windows,
                 following, quitVars>>

\* An attempt fails: not connected, refused, or no answer in time.
StartAttemptFails ==
  /\ Up
  /\ boot = "start" \/ (boot = "answered" /\ ~linked)
  /\ IF attempts < MaxAttempts
     THEN boot' = "retrying" /\ UNCHANGED <<life, held>>
     ELSE boot' = "done" /\ life' = StartFailed(life) /\ held' = TRUE
  /\ UNCHANGED <<dMode, warned, server, stopSent, worldVars, attempts, windows,
                 following, quitVars>>

Retry ==
  /\ Up /\ boot = "retrying"
  /\ boot' = "start" /\ attempts' = attempts + 1
  /\ UNCHANGED <<dMode, warned, serverVars, worldVars, life, windows, following, quitVars>>

\* The grace timer: nothing started after the last stop.
GraceEnds ==
  /\ Up /\ life.timer
  /\ LET code == IF life.lastStop = "crashed" THEN "error" ELSE "ok"
     IN /\ life' = Finish(life, code)
        /\ IF code = "ok" THEN Quit("ok") ELSE UNCHANGED <<exitCode, quitting, following>>
  /\ UNCHANGED <<dMode, boot, warned, serverVars, worldVars, attempts, windows, exited>>

\* quitWith has shown the error of an exit with 1.
ErrorShown ==
  /\ Up /\ life.exit = "error" /\ exitCode # "error"
  /\ Quit("error")
  /\ UNCHANGED <<dMode, boot, warned, serverVars, worldVars, attempts, life, windows, exited>>

(***************************************************************************)
(* The server's experiences and main's connection                          *)
(***************************************************************************)
Connect ==
  /\ Up /\ server = "ready" /\ ~linked
  /\ dMode = "desktop" \/ boot \notin {"python", "starting", "warnings"}
  /\ linked' = TRUE
  \* ExperienceWindows reconciles its windows; the lifecycle hears nothing.
  /\ windows' = IF following THEN Running ELSE windows
  /\ UNCHANGED <<dMode, boot, warned, serverVars, exps, starts, drops, attempts, life,
                 following, quitVars>>

Drop ==
  /\ Up /\ linked /\ drops < MaxDrops
  /\ linked' = FALSE /\ drops' = drops + 1
  /\ UNCHANGED <<dMode, boot, warned, serverVars, exps, starts, attempts, life, windows,
                 following, quitVars>>

\* In a kiosk by main's request or by a running app's switchTo; on the desktop
\* by any client.
ExperienceStarts(e) ==
  /\ Up /\ server = "ready" /\ exps[e] = "idle" /\ starts < MaxStarts
  /\ dMode = "kiosk" => ((linked /\ boot = "start") \/ Running # {})
  /\ exps' = [exps EXCEPT ![e] = "running"] /\ starts' = starts + 1
  /\ life' = IF linked THEN OnActive(life, e) ELSE life
  /\ windows' = IF linked /\ following THEN windows \cup {e} ELSE windows
  /\ UNCHANGED <<dMode, boot, warned, serverVars, linked, drops, attempts, following, quitVars>>

ExperienceEnds(e, how) ==
  /\ Up /\ server = "ready" /\ exps[e] = "running"
  /\ exps' = [exps EXCEPT ![e] = "idle"]
  /\ life' = IF linked THEN OnStop(life, e, how) ELSE life
  /\ windows' = IF linked /\ following THEN windows \ {e} ELSE windows
  /\ UNCHANGED <<dMode, boot, warned, serverVars, linked, starts, drops, attempts, following,
                 quitVars>>

ProcessDone == ~Up /\ server \in {"none", "gone"} /\ UNCHANGED dVars

\* Main's own steps, its timers and the child's answer to its signals.
ProcessProgress ==
  \/ PreparePython \/ ServerReady \/ ReadyTimesOut \/ BootStopped \/ FailureShown
  \/ ServerSeesExit \/ WarningsShown \/ Connecting \/ Calibrated
  \/ StartAnswered \/ StartSucceeds \/ StartAttemptFails \/ Retry \/ GraceEnds \/ ErrorShown
  \/ WindowsClosed \/ ServerStopped

ProcessNext ==
  \/ ProcessProgress
  \/ ServerDies \/ RendererGone \/ UserQuits \/ UserClosesWindow
  \/ Connect \/ Drop
  \/ \E e \in Exps : ExperienceStarts(e) \/ \E how \in {"idle", "crashed"} : ExperienceEnds(e, how)
  \/ ProcessDone

ProcessSpec == ProcessInit /\ [][ProcessNext]_dVars
ProcessFairSpec == ProcessSpec /\ WF_dVars(ProcessProgress)

(***************************************************************************)
(* Properties                                                              *)
(***************************************************************************)
\* What a supervisor with Restart=on-failure sees: the process ends with 1
\* only after a failed boot or start, a crash that nothing followed, or the
\* death of the server or a renderer; and with 0 only when someone quit it or
\* every experience had stopped without the last one crashing
\* (kiosk-lifecycle.ts:8-16).
ExitCodeTells ==
  /\ (life.exit = "ok" /\ ~life.starting) =>
       life.lastStop # "crashed" \/ life.active # {} \/ quitting # "no"
  /\ (life.exit = "error") => life.lastStop = "crashed" \/ attempts = MaxAttempts
  /\ (exited = "ok" /\ life.exit = "error") => quitting # "no"

\* An experience main knows to be active keeps the kiosk: the grace timer
\* runs only while none is, so switching never quits in between; nor does it
\* run before the kiosk's own start settled.
TimerOnlyWhenIdle ==
  life.timer => life.active = {} /\ ~life.starting /\ life.exit = "none"

\* Without a lost connection, the lifecycle's idea of what runs is the server's.
LifecycleIsCurrent ==
  (Up /\ drops = 0 /\ life.made /\ life.exit = "none" /\ linked) => life.active = Running

\* A server that was ready is not left running by a quit that had hold of it.
QuitStopsHeldServer == (exited = "ok" /\ held) => server = "gone"

MainProcessIsSound ==
  ExitCodeTells /\ TimerOnlyWhenIdle /\ LifecycleIsCurrent /\ QuitStopsHeldServer

\* Every quit ends, and with it the server; a kiosk on which nothing runs any
\* more either gets an experience or exits ("an unattended kiosk never stays
\* blank", kiosk.ts:170). Only while its connection holds: a stop that main
\* does not hear of leaves `active` non-empty for good.
QuitEnded == quitting # "no" => ~Up /\ server \in {"none", "gone"}
SomethingIsShown == life.made /\ Up /\ drops = 0 => Running # {}
KioskIsNeverBlank == []<>(QuitEnded /\ SomethingIsShown)

=============================================================================
