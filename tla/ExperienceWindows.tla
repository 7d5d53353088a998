-------------------------- MODULE ExperienceWindows --------------------------
(***************************************************************************)
(* The windows main keeps open for running experiences, by following the   *)
(* server's events and, after each connection, its list (experience-       *)
(* windows.ts); the windows themselves and how they end (windows.ts); and   *)
(* one run of a calibration flow, which claims its experience and opens    *)
(* its own control and projector windows (calibration.ts).                 *)
(*                                                                         *)
(* Main and the server talk over one ordered connection: `outbox` holds    *)
(* main's requests, `inbox` the server's answers and events. A lost        *)
(* connection loses both.                                                  *)
(***************************************************************************)
EXTENDS Naturals, Sequences, FiniteSets, SequencesExt

CONSTANTS Exps,        \* experiences, all started by a request
          Flow,        \* the one the calibration flow runs
          Ids,         \* window ids
          MaxChanges,  \* bound on what other clients start and stop
          MaxCloses,   \* bound on windows the user closes
          MaxCuts      \* bound on lost connections

VARIABLES srv,        \* experiences running on the server
          conn, outbox, inbox,
          known,      \* ExperienceWindows.states = 'running'
          opening, opened,
          resolving,  \* open() calls waiting for a display, per experience
          wins,       \* windows, by id
          ending,     \* endingExperiences: [at |-> ..., ids |-> the windows awaited]
          waiting,    \* stops waiting in client.ready()
          flow,       \* the calibration run
          changes, closes, cuts

wVars == <<srv, conn, outbox, inbox, known, opening, opened, resolving, wins, ending,
           waiting, flow, changes, closes, cuts>>
followVars == <<known, opening, opened, resolving>>
boundVars  == <<changes, closes, cuts>>

NoWindow  == [exp |-> Flow, kind |-> "app", phase |-> "none", watched |-> FALSE]
NotEnding == [at |-> "none", ids |-> {}]

WindowsTypeOK ==
  /\ srv \in SUBSET Exps /\ conn \in BOOLEAN
  /\ known \in SUBSET Exps /\ opening \in SUBSET Exps /\ opened \in SUBSET Exps
  /\ resolving \in [Exps -> 0..3]
  /\ wins \in [Ids -> [exp : Exps, kind : {"app", "control"}, watched : BOOLEAN,
                       phase : {"none", "open", "closing", "ending"}]]
  /\ ending \in [Exps -> [at : {"none", "windows", "stop"}, ids : SUBSET Ids]]
  /\ waiting \in SUBSET Exps
  /\ flow \in {"idle", "starting", "open", "ending", "over"}
  /\ changes \in 0..MaxChanges /\ closes \in 0..MaxCloses /\ cuts \in 0..MaxCuts

WindowsInit ==
  /\ srv = {} /\ conn = FALSE /\ outbox = <<>> /\ inbox = <<>>
  /\ known = {} /\ opening = {} /\ opened = {} /\ resolving = [e \in Exps |-> 0]
  /\ wins = [i \in Ids |-> NoWindow]
  /\ ending = [e \in Exps |-> NotEnding] /\ waiting = {} /\ flow = "idle"
  /\ changes = 0 /\ closes = 0 /\ cuts = 0

\* appHosts and controlWindows: main drops a window's handle before it ends
\* the window itself.
Registered(e) == {i \in Ids : wins[i].exp = e /\ wins[i].phase \in {"open", "closing"}}
Controls(e) == {i \in Registered(e) : wins[i].kind = "control"}
Free == {i \in Ids : wins[i].phase = "none"}
FreeId == CHOOSE i \in Free : \A j \in Free : i <= j

Claimed == IF flow \in {"starting", "open", "ending"} THEN {Flow} ELSE {}

Window(e, kind, watched) == [exp |-> e, kind |-> kind, phase |-> "open", watched |-> watched]

\* closeExperienceWindowsNow: every window of the experience stops, then goes.
Closed(ws, e) == [i \in Ids |-> IF i \in Registered(e) THEN [ws[i] EXCEPT !.phase = "ending"]
                                ELSE ws[i]]

\* A request over a lost connection fails at once.
Send(m) == outbox' = IF conn THEN Append(outbox, m) ELSE outbox

\* endExperience joins one that is under way.
EndExperience(e) ==
  IF ending[e].at # "none" THEN UNCHANGED <<wins, ending>>
  ELSE /\ wins' = Closed(wins, e)
       /\ ending' = [ending EXCEPT ![e] = [at |-> "windows", ids |-> Registered(e)]]

(***************************************************************************)
(* The server                                                              *)
(***************************************************************************)
Event(e, state) == [type |-> state, exp |-> e]

\* Other clients, crashes and switches.
Change(e) ==
  /\ changes < MaxChanges /\ changes' = changes + 1
  /\ LET state == IF e \in srv THEN "idle" ELSE "running"
     IN /\ srv' = IF e \in srv THEN srv \ {e} ELSE srv \cup {e}
        /\ inbox' = IF conn THEN Append(inbox, Event(e, state)) ELSE inbox
  /\ UNCHANGED <<conn, outbox, followVars, wins, ending, waiting, flow, closes, cuts>>

Serve ==
  /\ conn /\ outbox # <<>>
  /\ outbox' = Tail(outbox)
  /\ LET m == Head(outbox)
     IN \/ /\ m.type = "list"
           /\ inbox' = Append(inbox, [type |-> "listed", exps |-> srv]) /\ UNCHANGED srv
        \/ /\ m.type = "display"
           /\ inbox' = Append(inbox, [type |-> "display", exp |-> m.exp]) /\ UNCHANGED srv
        \/ /\ m.type = "stop"
           /\ srv' = srv \ {m.exp}
           /\ inbox' = inbox \o (IF m.exp \in srv THEN <<Event(m.exp, "idle")>> ELSE <<>>)
                             \o <<[type |-> "stopped", exp |-> m.exp]>>
        \/ /\ m.type = "start"
           /\ srv' = srv \cup {m.exp}
           /\ inbox' = inbox \o (IF m.exp \in srv THEN <<>> ELSE <<Event(m.exp, "running")>>)
                             \o <<[type |-> "started", exp |-> m.exp]>>
  /\ UNCHANGED <<conn, followVars, wins, ending, waiting, flow, boundVars>>

(***************************************************************************)
(* Following the server                                                    *)
(***************************************************************************)
Got(type) == conn /\ inbox # <<>> /\ Head(inbox).type = type /\ inbox' = Tail(inbox)

\* open() up to its await, for each experience of a set.
Opens(S, ws, op, reg) == {e \in S : e \notin Claimed /\ e \notin op /\ reg[e] = {}}

\* apply() of 'idle' or 'crashed'.
HearStop ==
  /\ Got("idle")
  /\ LET e == Head(inbox).exp
     IN /\ known' = known \ {e} /\ opening' = opening \ {e} /\ opened' = opened \ {e}
        /\ wins' = Closed(wins, e)
  /\ UNCHANGED <<srv, conn, outbox, resolving, ending, waiting, flow, boundVars>>

\* apply() of 'running', and open() as far as its first request.
HearRunning ==
  /\ Got("running")
  /\ LET e == Head(inbox).exp
         o == Opens({e}, wins, opening, [x \in Exps |-> Registered(x)])
     IN /\ known' = known \cup {e}
        /\ opening' = opening \cup o
        /\ resolving' = [x \in Exps |-> resolving[x] + (IF x \in o THEN 1 ELSE 0)]
        /\ outbox' = IF o = {} THEN outbox ELSE Append(outbox, [type |-> "display", exp |-> e])
  /\ UNCHANGED <<srv, conn, opened, wins, ending, waiting, flow, boundVars>>

\* A list that only adds windows.
Stale_None(listed) == {}

\* The list's stale windows, of those this controller opened.
Stale(listed) == {e \in opened : Registered(e) # {} /\ e \notin listed /\ e \notin opening}

\* reconcile(): closes what no longer runs, then applies what does.
HearList ==
  /\ Got("listed")
  /\ LET listed == Head(inbox).exps
         stale  == Stale(listed)
         o == Opens(listed, wins, opening, [x \in Exps |-> Registered(x)])
     IN /\ known' = (known \ stale) \cup listed
        /\ opened' = opened \ stale
        /\ wins' = [i \in Ids |-> IF \E e \in stale : i \in Registered(e)
                                  THEN [wins[i] EXCEPT !.phase = "ending"] ELSE wins[i]]
        /\ opening' = opening \cup o
        /\ resolving' = [x \in Exps |-> resolving[x] + (IF x \in o THEN 1 ELSE 0)]
        /\ outbox' = outbox \o SetToSeq({[type |-> "display", exp |-> e] : e \in o})
  /\ UNCHANGED <<srv, conn, ending, waiting, flow, boundVars>>

\* Without the second look at what happened while the display resolved.
Opened_Unchecked(e) ==
  /\ resolving' = [resolving EXCEPT ![e] = @ - 1]
  /\ opening' = opening \ {e}
  /\ Free # {}
  /\ wins' = [wins EXCEPT ![FreeId] = Window(e, "app", FALSE)]
  /\ opened' = opened \cup {e}
  /\ UNCHANGED <<srv, conn, known, outbox, ending, waiting, flow, boundVars>>

\* open() after its await: the experience may have stopped, been claimed or
\* got a window meanwhile.
Opened(e) ==
  /\ resolving' = [resolving EXCEPT ![e] = @ - 1]
  /\ opening' = opening \ {e}
  /\ IF e \in opening /\ e \in known /\ e \notin Claimed /\ Registered(e) = {}
     THEN /\ Free # {}   \* a bound of the model
          /\ wins' = [wins EXCEPT ![FreeId] = Window(e, "app", FALSE)]
          /\ opened' = opened \cup {e}
     ELSE UNCHANGED <<wins, opened>>
  /\ UNCHANGED <<srv, conn, known, outbox, ending, waiting, flow, boundVars>>

DisplayResolved == Got("display") /\ Opened(Head(inbox).exp)

\* resolveAppDisplay falls back to the primary display when its requests fail.
DisplayFallsBack ==
  /\ ~conn
  /\ \E e \in Exps : resolving[e] > 0 /\ Opened(e)
  /\ UNCHANGED inbox

(***************************************************************************)
(* Ends of windows                                                         *)
(***************************************************************************)
\* The flow's finish(): once, and endExperience of its windows.
Finish == flow' = "ending" /\ EndExperience(Flow)

\* The user or the window manager closes an app window: its page stops its
\* experience first.
UserClosesApp(i) ==
  /\ wins[i].phase = "open" /\ wins[i].kind = "app"
  /\ closes < MaxCloses /\ closes' = closes + 1
  /\ wins' = [wins EXCEPT ![i].phase = "closing"]
  /\ UNCHANGED <<srv, conn, outbox, inbox, followVars, ending, waiting, flow, changes, cuts>>

\* A control window's close ends the whole experience.
UserClosesControl(i) ==
  /\ wins[i].phase = "open" /\ wins[i].kind = "control"
  /\ closes < MaxCloses /\ closes' = closes + 1
  /\ EndExperience(wins[i].exp)
  /\ UNCHANGED <<srv, conn, outbox, inbox, followVars, waiting, flow, changes, cuts>>

\* The window is one endExperience no longer waits for.
Awaited(i) == [e \in Exps |-> [ending[e] EXCEPT !.ids = @ \ {i}]]

\* 'closed' of a window main ended; a window the flow watches finishes its run.
WindowEnded(i) ==
  /\ wins[i].phase = "ending"
  /\ ~(wins[i].watched /\ flow = "open")
  /\ wins' = [wins EXCEPT ![i] = NoWindow] /\ ending' = Awaited(i)
  /\ UNCHANGED <<srv, conn, outbox, inbox, followVars, waiting, flow, boundVars>>

WatchedWindowEnded(i) ==
  /\ wins[i].phase = "ending" /\ wins[i].watched /\ flow = "open"
  /\ flow' = "ending"
  /\ IF ending[Flow].at # "none"
     THEN wins' = [wins EXCEPT ![i] = NoWindow] /\ ending' = Awaited(i)
     ELSE /\ wins' = [Closed(wins, Flow) EXCEPT ![i] = NoWindow]
          /\ ending' = [ending EXCEPT ![Flow] = [at |-> "windows", ids |-> Registered(Flow)]]
  /\ UNCHANGED <<srv, conn, outbox, inbox, followVars, waiting, boundVars>>

\* 'closed' of a window whose handle is still there: the user closed it. Its
\* experience stops on the server, unless a control window ends it.
UserClosedApp(i) ==
  /\ wins[i].phase = "closing"
  /\ LET e == wins[i].exp
         stops == Controls(e) = {}
         fin == wins[i].watched /\ flow = "open"
     IN /\ IF stops THEN Send([type |-> "stop", exp |-> e]) ELSE UNCHANGED outbox
        /\ waiting' = IF stops /\ ~conn THEN waiting \cup {e} ELSE waiting
        /\ IF fin /\ ending[Flow].at = "none"
           THEN /\ flow' = "ending"
                /\ wins' = [Closed(wins, Flow) EXCEPT ![i] = NoWindow]
                /\ ending' = [ending EXCEPT ![Flow] =
                                [at |-> "windows", ids |-> Registered(Flow) \ {i}]]
           ELSE /\ flow' = IF fin THEN "ending" ELSE flow
                /\ wins' = [wins EXCEPT ![i] = NoWindow] /\ ending' = Awaited(i)
  /\ UNCHANGED <<srv, conn, inbox, followVars, boundVars>>

\* endExperience: the windows are gone, so the server stops the experience.
EndedWindows(e) ==
  /\ ending[e].at = "windows" /\ ending[e].ids = {}
  /\ ending' = [ending EXCEPT ![e] = [at |-> "stop", ids |-> {}]]
  /\ Send([type |-> "stop", exp |-> e])
  /\ waiting' = IF conn THEN waiting ELSE waiting \cup {e}
  /\ UNCHANGED <<srv, conn, inbox, followVars, wins, flow, boundVars>>

\* endExperience resolves; a finished flow releases its claim and resolves.
EndOver(e) ==
  /\ ending' = [ending EXCEPT ![e] = IF @.at = "stop" THEN NotEnding ELSE @]
  /\ flow' = IF e = Flow /\ flow = "ending" /\ ending[e].at = "stop" THEN "over" ELSE flow

HearStopped ==
  /\ Got("stopped") /\ EndOver(Head(inbox).exp)
  /\ UNCHANGED <<srv, conn, outbox, followVars, wins, waiting, boundVars>>

\* client.ready(5_000) of a stop gives up; the failure is only logged.
StopGivesUp(e) ==
  /\ ~conn /\ e \in waiting
  /\ waiting' = waiting \ {e} /\ EndOver(e)
  /\ UNCHANGED <<srv, conn, outbox, inbox, followVars, wins, boundVars>>

(***************************************************************************)
(* The calibration flow                                                    *)
(***************************************************************************)
RunFlow ==
  /\ flow = "idle" /\ conn
  /\ flow' = "starting" /\ Send([type |-> "start", exp |-> Flow])
  /\ UNCHANGED <<srv, conn, inbox, followVars, wins, ending, waiting, boundVars>>

\* The start's answer: control window first, then the projector.
FlowStarted ==
  /\ Got("started")
  /\ IF flow = "starting"
     THEN /\ Cardinality(Free) >= 2
          /\ flow' = "open"
          /\ wins' = LET w == [wins EXCEPT ![FreeId] = Window(Flow, "control", TRUE)]
                         f == Free \ {FreeId}
                     IN [w EXCEPT ![CHOOSE i \in f : \A j \in f : i <= j]
                                    = Window(Flow, "app", TRUE)]
     ELSE UNCHANGED <<flow, wins>>
  /\ UNCHANGED <<srv, conn, outbox, followVars, ending, waiting, boundVars>>

\* The wizard's result, or a crashed window's renderer.
FlowFinishes ==
  /\ flow = "open" /\ Finish
  /\ UNCHANGED <<srv, conn, outbox, inbox, followVars, waiting, boundVars>>

(***************************************************************************)
(* The connection                                                          *)
(***************************************************************************)
\* Pending requests fail: of the stops, only those sent over it end.
Cut ==
  /\ conn /\ cuts < MaxCuts /\ cuts' = cuts + 1
  /\ conn' = FALSE /\ outbox' = <<>> /\ inbox' = <<>>
  /\ IF flow \in {"starting", "open"}
     THEN /\ flow' = "ending"
          /\ IF ending[Flow].at = "none"
             THEN EndExperience(Flow)
             ELSE UNCHANGED wins /\ ending' = ending
     ELSE /\ ending' = [e \in Exps |-> IF ending[e].at = "stop" THEN NotEnding ELSE ending[e]]
          /\ flow' = IF flow = "ending" /\ ending[Flow].at = "stop" THEN "over" ELSE flow
          /\ UNCHANGED wins
  /\ UNCHANGED <<srv, followVars, waiting, changes, closes>>

\* The reconcile's request, and the stops that waited for a connection.
Connect ==
  /\ ~conn /\ \A e \in Exps : resolving[e] = 0
  /\ conn' = TRUE
  /\ outbox' = SetToSeq({[type |-> "stop", exp |-> e] : e \in waiting}) \o <<[type |-> "list"]>>
  /\ waiting' = {}
  /\ UNCHANGED <<srv, inbox, followVars, wins, ending, flow, boundVars>>

\* The server answers, main handles what it hears, windows end within their
\* timeout, and the client reconnects.
WindowsProgress ==
  \/ Serve \/ HearStop \/ HearRunning \/ HearList \/ DisplayResolved \/ DisplayFallsBack
  \/ HearStopped \/ FlowStarted \/ Connect
  \/ \E i \in Ids : WindowEnded(i) \/ WatchedWindowEnded(i) \/ UserClosedApp(i)
  \/ \E e \in Exps : EndedWindows(e)

WindowsNext ==
  \/ WindowsProgress
  \/ \E e \in Exps : Change(e) \/ StopGivesUp(e)
  \/ \E i \in Ids : UserClosesApp(i) \/ UserClosesControl(i)
  \/ RunFlow \/ FlowFinishes \/ Cut

WindowsSpec == WindowsInit /\ [][WindowsNext]_wVars
WindowsFairSpec == WindowsSpec /\ WF_wVars(WindowsProgress)

(***************************************************************************)
(* Properties                                                              *)
(***************************************************************************)
Quiet ==
  /\ conn /\ outbox = <<>> /\ inbox = <<>> /\ waiting = {}
  /\ \A e \in Exps : resolving[e] = 0 /\ ending[e].at = "none"
  /\ \A i \in Ids : wins[i].phase \in {"none", "open"}
  /\ flow \in {"idle", "over"}

\* Once nothing is under way, an experience a client started has a window
\* exactly when it runs: nobody looks at the window of a stopped experience,
\* and none runs unseen (experience-windows.ts:5-17).
WindowsMatchServer ==
  Quiet => \A e \in Exps : (Registered(e) # {}) <=> (e \in srv)

\* main never opens two plain windows for one experience, whatever the
\* order of events, lists and displays.
OneWindowEach ==
  \A e \in Exps : Cardinality({i \in Registered(e) : ~wins[i].watched}) <= 1

WindowsAreRight == WindowsMatchServer /\ OneWindowEach

\* A calibration whose experience stopped, or that lost the server, ends: "the
\* caller never waits forever" (calibration.ts:12-13).
CalibrationHeard ==
  flow = "ending" \/ (flow = "open" /\ Flow \notin srv) => Flow \in srv
CalibrationEnds == []<>CalibrationHeard

\* When the run is over its flow is not left running ("Keep the claim until the
\* windows are gone and the server stopped the flow", calibration.ts:130).
FlowStopsWithRun ==
  [][flow' = "over" /\ flow # "over" => Flow \notin srv']_wVars

=============================================================================
