--------------------------- MODULE ExperienceRuntime ---------------------------
(***************************************************************************)
(* The page of an experience: packages/sdk/src/app-host-page.ts loads it,  *)
(* runtime.ts connects, calls its hooks, renders it and stops it.  The     *)
(* hooks are the app's asynchronous code; meanwhile the window may go      *)
(* away, and the connection be lost and come back with another server.     *)
(***************************************************************************)
EXTENDS Naturals

CONSTANTS
    FailingFrames,      \* maxRenderFailures
    MaxDrops            \* bound: times the connection is lost

VARIABLES
    page,           \* where bootAppHost is
    aborted,        \* the page is told to stop
    conn,           \* the page's ServerClient
    stopping,       \* where stop() is
    initialized,
    holding,        \* the start hook was called, and no stop hook returned since
    tracked,        \* subscriptions the runtime has to remove
    frame,          \* an animation frame is requested
    badFrames,
    reports,        \* crash reports on the socket
    lateMismatch,   \* a server with another protocol came while the page started
    drops

runtimeVars == <<page, aborted, conn, stopping, initialized, holding, tracked, frame,
                 badFrames, reports, lateMismatch, drops>>

RuntimeTypeOK ==
    /\ page \in {"loading", "connecting", "init", "start", "running", "unwinding",
                 "failed", "left"}
    /\ conn \in {"none", "connecting", "connected", "lost", "closed"}
    /\ stopping \in {"no", "hook", "audio", "done"}
    /\ tracked \in {"none", "open", "released"}
    /\ {aborted, initialized, holding, frame, lateMismatch} \subseteq BOOLEAN
    /\ badFrames \in 0..FailingFrames
    /\ reports \in 0..2
    /\ drops \in 0..MaxDrops

RuntimeInit ==
    /\ page = "loading" /\ conn = "none" /\ stopping = "no"
    /\ aborted = FALSE /\ initialized = FALSE /\ holding = FALSE
    /\ tracked = "none" /\ frame = FALSE /\ badFrames = 0
    /\ reports = 0 /\ lateMismatch = FALSE /\ drops = 0

-----------------------------------------------------------------------------
(* Stopping.                                                               *)

\* stop() up to its first await (the stop hook, when init returned); only the first call does anything.  What the
\* runtime tracks is released before the stop hook.
BeginStop_HookFirst(inited) ==
    IF stopping # "no" THEN UNCHANGED <<stopping, tracked, frame>>
    ELSE /\ stopping' = IF inited THEN "hook" ELSE "audio"
         /\ frame' = FALSE
         /\ UNCHANGED tracked

BeginStop(inited) ==
    IF stopping # "no" THEN UNCHANGED <<stopping, tracked, frame>>
    ELSE /\ stopping' = IF inited THEN "hook" ELSE "audio"
         /\ tracked' = "released"
         /\ frame' = FALSE

ReportCrash_Always == reports' = IF reports < 2 THEN reports + 1 ELSE reports

ReportCrash == reports' = IF stopping = "no" THEN reports + 1 ELSE reports

StopHookReturns ==
    /\ stopping = "hook"
    /\ stopping' = "audio"
    /\ holding' = FALSE
    /\ UNCHANGED <<page, aborted, conn, initialized, tracked, frame, badFrames,
                   reports, lateMismatch, drops>>

\* The audio context is closed, and then the connection.
StopDone ==
    /\ stopping = "audio"
    /\ stopping' = "done"
    /\ conn' = "closed"
    /\ UNCHANGED <<page, aborted, initialized, holding, tracked, frame, badFrames,
                   reports, lateMismatch, drops>>

-----------------------------------------------------------------------------
(* Starting: the manifest and the entry, the connection, the hooks.        *)

Loaded ==
    /\ page = "loading"
    /\ IF aborted THEN page' = "left" /\ UNCHANGED conn
       ELSE page' = "connecting" /\ conn' = "connecting"
    /\ UNCHANGED <<aborted, stopping, initialized, holding, tracked, frame, badFrames,
                   reports, lateMismatch, drops>>

LoadFails ==
    /\ page = "loading"
    /\ page' = IF aborted THEN "left" ELSE "failed"
    /\ UNCHANGED <<aborted, conn, stopping, initialized, holding, tracked, frame,
                   badFrames, reports, lateMismatch, drops>>

\* waitForConnection ends, and the runtime starts if the protocols match.
Connected(matches) ==
    /\ page = "connecting"
    /\ IF matches THEN page' = "init" /\ conn' = "connected"
       ELSE page' = "failed" /\ conn' = "closed"
    /\ UNCHANGED <<aborted, stopping, initialized, holding, tracked, frame, badFrames,
                   reports, lateMismatch, drops>>

ConnectFails_Open ==
    /\ page = "connecting"
    /\ page' = "failed"
    /\ UNCHANGED <<aborted, conn, stopping, initialized, holding, tracked, frame,
                   badFrames, reports, lateMismatch, drops>>

ConnectFails ==
    /\ page = "connecting"
    /\ page' = "failed" /\ conn' = "closed"
    /\ UNCHANGED <<aborted, stopping, initialized, holding, tracked, frame, badFrames,
                   reports, lateMismatch, drops>>

\* A hook failed, or the page was told to stop while it ran: stop, then throw.
Unwind(inited) == page' = "unwinding" /\ BeginStop(inited)

InitReturns ==
    /\ page = "init"
    /\ initialized' = TRUE
    /\ IF aborted THEN Unwind(TRUE) /\ UNCHANGED holding
       ELSE /\ page' = "start" /\ holding' = TRUE
            /\ UNCHANGED <<stopping, tracked, frame>>
    /\ UNCHANGED <<aborted, conn, badFrames, reports, lateMismatch, drops>>

StartReturns ==
    /\ page = "start"
    /\ IF aborted THEN Unwind(initialized)
       ELSE page' = "running" /\ frame' = TRUE /\ UNCHANGED <<stopping, tracked>>
    /\ UNCHANGED <<aborted, conn, initialized, holding, badFrames, reports,
                   lateMismatch, drops>>

HookThrows ==
    /\ page \in {"init", "start"}
    /\ UNCHANGED initialized
    /\ Unwind(initialized)
    /\ UNCHANGED <<aborted, conn, holding, badFrames, reports, lateMismatch, drops>>

Thrown ==
    /\ page = "unwinding" /\ stopping = "done"
    /\ page' = IF aborted THEN "left" ELSE "failed"
    /\ UNCHANGED <<aborted, conn, stopping, initialized, holding, tracked, frame,
                   badFrames, reports, lateMismatch, drops>>

\* gosaiHost.stop() or pagehide.  A connecting page gives up at once, a running
\* one stops; hooks cannot be interrupted.
Abort ==
    /\ ~aborted
    /\ aborted' = TRUE
    /\ UNCHANGED initialized
    /\ CASE page = "connecting" ->
              page' = "left" /\ conn' = "closed" /\ UNCHANGED <<stopping, tracked, frame>>
         [] page = "running" -> BeginStop(initialized) /\ UNCHANGED <<page, conn>>
         [] OTHER -> UNCHANGED <<page, conn, stopping, tracked, frame>>
    /\ UNCHANGED <<holding, badFrames, reports, lateMismatch, drops>>

-----------------------------------------------------------------------------
(* Running.                                                                *)

\* A hook or a listener of the app subscribes to something: after stop() began
\* that has no effect.
Subscribe ==
    /\ page \in {"init", "start", "running"} \/ stopping = "hook"
    /\ tracked = "none"
    /\ tracked' = "open"
    /\ UNCHANGED <<page, aborted, conn, stopping, initialized, holding, frame, badFrames,
                   reports, lateMismatch, drops>>

\* The loop of a runtime that stops returns without rendering.
Frame(ok) ==
    /\ frame /\ page = "running"
    /\ UNCHANGED initialized
    /\ CASE stopping # "no" ->
              frame' = FALSE /\ UNCHANGED <<stopping, tracked, badFrames, reports>>
         [] stopping = "no" /\ (ok \/ badFrames + 1 < FailingFrames) ->
              /\ badFrames' = IF ok THEN 0 ELSE badFrames + 1
              /\ UNCHANGED <<frame, stopping, tracked, reports>>
         [] OTHER ->
              /\ badFrames' = FailingFrames
              /\ ReportCrash
              /\ BeginStop(initialized)
    /\ UNCHANGED <<page, aborted, conn, holding, lateMismatch, drops>>

Disconnected ==
    /\ conn = "connected" /\ drops < MaxDrops
    /\ conn' = "lost"
    /\ drops' = drops + 1
    /\ UNCHANGED <<page, aborted, stopping, initialized, holding, tracked, frame,
                   badFrames, reports, lateMismatch>>

\* The server is back, or another one in its place: one that speaks another
\* protocol ends the experience.
Reconnected(matches) ==
    /\ conn = "lost"
    /\ conn' = "connected"
    /\ UNCHANGED initialized
    /\ IF matches THEN UNCHANGED <<stopping, tracked, frame, reports, lateMismatch>>
       ELSE /\ ReportCrash
            /\ BeginStop(initialized)
            /\ lateMismatch' = (lateMismatch \/ page \in {"init", "start"})
    /\ UNCHANGED <<page, aborted, holding, badFrames, drops>>

-----------------------------------------------------------------------------
Hooks == InitReturns \/ StartReturns \/ HookThrows \/ StopHookReturns

RuntimeProgress ==
    \/ Hooks \/ StopDone \/ Thrown \/ Loaded \/ LoadFails
    \/ ConnectFails \/ \E matches \in BOOLEAN : Connected(matches)

RuntimeNext ==
    \/ RuntimeProgress \/ Abort \/ Subscribe
    \/ Disconnected \/ \E matches \in BOOLEAN : Reconnected(matches)
    \/ \E ok \in BOOLEAN : Frame(ok)

RuntimeSpec == RuntimeInit /\ [][RuntimeNext]_runtimeVars

\* Loading and connecting have timeouts, and hooks return.
RuntimeFairSpec == RuntimeSpec /\ WF_runtimeVars(RuntimeProgress)

-----------------------------------------------------------------------------
(* Properties.                                                             *)

\* Nothing fires into an experience that stops, and nothing is left of one
\* that has stopped or never started: no subscription, no connection
\* (runtime.ts:111: "Rejects, with the connection closed").
NothingLeftBehind ==
    /\ stopping # "no" => tracked # "open"
    /\ stopping = "done" => conn = "closed"
    /\ page \in {"failed", "left"} => conn \in {"none", "closed"} /\ tracked # "open"

\* The experience is reported as crashed once at most, and never after it
\* was stopped on purpose.
CrashReportedOnce == reports <= 1

\* What a start hook acquires a stop hook releases, even if start threw: the
\* exception is a server with another protocol that replaces the one the page
\* is starting on, see StartIsStopped.
StartIsStoppedElsewhere == stopping = "done" /\ ~lateMismatch => ~holding

\* "Called when the experience stops.  Release what the runtime doesn't track"
\* (types.ts:258), without the exception.
StartIsStopped == stopping = "done" => ~holding

RuntimeCleansUp == NothingLeftBehind /\ CrashReportedOnce /\ StartIsStoppedElsewhere

\* A page that is told to stop is soon gone from the server.
GoneWhenAborted == aborted => conn \in {"none", "closed"} /\ page # "loading"
RuntimeStops == []<>GoneWhenAborted
=============================================================================
