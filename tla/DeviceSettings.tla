--------------------------- MODULE DeviceSettings ---------------------------
(***************************************************************************)
(* Device settings and the drivers that run with them: the global camera   *)
(* settings and an app's own (config/), and how a command applies a change *)
(* to the instances that run (drivers/camera-config.ts).                   *)
(*                                                                         *)
(* A camera's settings are one value, the field-by-field merge of which is *)
(* Resolved; the microphone has a device and a sample rate.  A command     *)
(* stores at once, then waits for each driver it changes.                  *)
(***************************************************************************)
EXTENDS Integers, FiniteSets, Sequences

CONSTANTS Bindings,     \* a sequence: the bindings, in the order of their leases
          System,       \* the binding without settings of its own
          App,          \* the binding with them
          Cameras,      \* camera settings
          Mics,         \* microphone devices
          Rates,        \* sample rates
          Commands,     \* commands that may run at once
          MaxChanges,   \* bound on commands
          MaxStarts,    \* bound on drivers that start
          MaxRefusals   \* bound on settings a device refuses

VARIABLES
  global,    \* the global camera settings
  own,       \* the app's: [camera, mic, rate], each a value or None
  camera,    \* the camera of each binding: [state, mode]
  mic,       \* the app's microphone: [state, device, rate]
  command,   \* what each command still has to do
  waiting,   \* per driver instance, the requests sent to it
  missed,    \* instances that were starting when their settings changed
  refused,   \* instances that refused a change
  crossed,   \* instances whose settings changed again while a command was at them
  bounds

settingVars == <<global, own, camera, mic, command, waiting, missed, refused, crossed, bounds>>

None == "none"
Mic == "microphone"
Names == {Bindings[i] : i \in DOMAIN Bindings}
States == {"off", "starting", "running"}
Own == [camera : Cameras \cup {None}, mic : Mics \cup {None}, rate : Rates \cup {None}]
Idle == [at |-> "idle"]
Requests == [cmd : Commands, set : {"mode"}, to : Cameras]
              \cup [cmd : Commands, set : {"device"}, to : Mics \cup {None}]
              \cup [cmd : Commands, set : {"rate"}, to : Rates]

SettingsTypeOK ==
  /\ global \in Cameras /\ own \in Own
  /\ camera \in [Names -> [state : States, mode : Cameras]]
  /\ mic \in [state : States, device : Mics \cup {None}, rate : Rates \cup {None}]
  /\ command \in [Commands -> {Idle}
       \cup [at : {"global"}, previous : Cameras, left : SUBSET Names]
       \cup [at : {"camera", "device", "rate"}, previous : Own, next : Own]]
  /\ waiting \in [Names \cup {Mic} -> Seq(Requests)]
  /\ missed \subseteq Names \cup {Mic} /\ refused \subseteq Names \cup {Mic}
  /\ crossed \subseteq Names \cup {Mic}
  /\ bounds \in [changes : 0..MaxChanges, starts : 0..MaxStarts, refusals : 0..MaxRefusals]

\* resolveCameraSettings: the app's own value wins.
Merged(g, o) == IF o.camera # None THEN o.camera ELSE g
NoSettings == [camera |-> None, mic |-> None, rate |-> None]
\* appSettingsFor: `system` has none.
OwnOf(b, o) == IF b = System THEN NoSettings ELSE o
Resolved(b) == Merged(global, OwnOf(b, own))

SettingsInit ==
  /\ global \in Cameras /\ own = NoSettings
  /\ camera = [b \in Names |-> [state |-> "off", mode |-> global]]
  /\ mic = [state |-> "off", device |-> None, rate |-> None]
  /\ command = [c \in Commands |-> Idle] /\ waiting = [i \in Names \cup {Mic} |-> <<>>]
  /\ missed = {} /\ refused = {} /\ crossed = {}
  /\ bounds = [changes |-> 0, starts |-> 0, refusals |-> 0]

-----------------------------------------------------------------------------
(* The drivers                                                              *)

\* driverConfigFor: an instance starts with the settings of that moment.
StartCamera(b) ==
  /\ camera[b].state = "off" /\ bounds.starts < MaxStarts
  /\ camera' = [camera EXCEPT ![b] = [state |-> "starting", mode |-> Resolved(b)]]
  /\ missed' = missed \ {b} /\ refused' = refused \ {b} /\ UNCHANGED crossed
  /\ bounds' = [bounds EXCEPT !.starts = @ + 1]
  /\ UNCHANGED <<global, own, mic, command, waiting>>

StartMic ==
  /\ mic.state = "off" /\ bounds.starts < MaxStarts
  /\ mic' = [state |-> "starting", device |-> own.mic, rate |-> own.rate]
  /\ missed' = missed \ {Mic} /\ refused' = refused \ {Mic} /\ UNCHANGED crossed
  /\ bounds' = [bounds EXCEPT !.starts = @ + 1]
  /\ UNCHANGED <<global, own, camera, command, waiting>>

Runs ==
  /\ \/ \E b \in Names : /\ camera[b].state = "starting"
                         /\ camera' = [camera EXCEPT ![b].state = "running"]
                         /\ UNCHANGED mic
     \/ mic.state = "starting" /\ mic' = [mic EXCEPT !.state = "running"] /\ UNCHANGED camera
  /\ UNCHANGED <<global, own, command, waiting, missed, refused, crossed, bounds>>

Stops ==
  /\ \/ \E b \in Names : /\ camera[b].state = "running" /\ waiting[b] = <<>>
                         /\ camera' = [camera EXCEPT ![b].state = "off"]
                         /\ UNCHANGED mic
     \/ /\ mic.state = "running" /\ waiting[Mic] = <<>>
        /\ mic' = [mic EXCEPT !.state = "off"] /\ UNCHANGED camera
  /\ UNCHANGED <<global, own, command, waiting, missed, refused, crossed, bounds>>

-----------------------------------------------------------------------------
(* A command, between two waits.  A continuation is what it does next and   *)
(* the request it then waits for, if any: [then, to, request].              *)

Ends == [then |-> Idle, to |-> None]
Waits(then, i, c, set, to) == [then |-> then, to |-> i, request |-> [cmd |-> c, set |-> set, to |-> to]]

\* applyGlobalCameraSettings: each camera that ran when the command came, if
\* its settings changed, from the settings as they are by then.
NextCamera(c, previous, left, g) ==
  LET now(b) == Merged(g, OwnOf(b, own))
      changed == {i \in DOMAIN Bindings :
                    /\ Bindings[i] \in left /\ camera[Bindings[i]].state = "running"
                    /\ Merged(previous, OwnOf(Bindings[i], own)) # now(Bindings[i])}
      first == CHOOSE i \in changed : \A j \in changed : i <= j
      rest == [at |-> "global", previous |-> previous,
               left |-> left \ {Bindings[i] : i \in 1..first}]
  IN IF changed = {} THEN Ends ELSE Waits(rest, Bindings[first], c, "mode", now(Bindings[first]))

\* applyMicrophoneSettings: a rate that is removed is left alone.
SetRate(c, previous, next) ==
  IF next.rate \notin {None, previous.rate}
  THEN Waits([at |-> "rate", previous |-> previous, next |-> next], Mic, c, "rate", next.rate)
  ELSE Ends

\* applyAppDeviceSettings, once the camera has answered.
SetDevice(c, previous, next) ==
  IF mic.state # "running" THEN Ends
  ELSE IF next.mic # previous.mic
  THEN Waits([at |-> "device", previous |-> previous, next |-> next], Mic, c, "device", next.mic)
  ELSE SetRate(c, previous, next)

\* The stores change at once; only the file may fail to be written.
UpdateGlobal(v) == v # global /\ global' = v /\ UNCHANGED own
UpdateOwn(v) == v # own /\ own' = v /\ UNCHANGED global

Continue(c, k, w) ==
  /\ command' = [command EXCEPT ![c] = k.then]
  /\ waiting' = IF k.to = None THEN w ELSE [w EXCEPT ![k.to] = Append(@, k.request)]

\* config:set.
ChangeGlobal(c) ==
  /\ command[c] = Idle /\ bounds.changes < MaxChanges
  /\ bounds' = [bounds EXCEPT !.changes = @ + 1]
  /\ \E v \in Cameras : UpdateGlobal(v)
  /\ missed' = missed \cup {b \in Names : camera[b].state = "starting" /\ Resolved(b) # Resolved(b)'}
  /\ LET running == {b \in Names : camera[b].state = "running"}
     IN Continue(c, NextCamera(c, global, running, global'), waiting)
  /\ UNCHANGED <<camera, mic, refused, crossed>>

\* Defect: the microphone's new settings are taken for its old ones.
GoOn_Previous(c) ==
  IF command[c].at = "global" THEN NextCamera(c, command[c].previous, command[c].left, global)
  ELSE IF command[c].at = "camera" THEN SetDevice(c, command[c].next, command[c].previous)
  ELSE IF command[c].at = "device" THEN SetRate(c, command[c].previous, command[c].next)
  ELSE Ends
GoOn(c) ==
  IF command[c].at = "global" THEN NextCamera(c, command[c].previous, command[c].left, global)
  ELSE IF command[c].at = "camera" THEN SetDevice(c, command[c].previous, command[c].next)
  ELSE IF command[c].at = "device" THEN SetRate(c, command[c].previous, command[c].next)
  ELSE Ends

\* app:config:set.
ChangeOwn(c) ==
  /\ command[c] = Idle /\ bounds.changes < MaxChanges
  /\ bounds' = [bounds EXCEPT !.changes = @ + 1]
  /\ \E v \in Own : UpdateOwn(v)
  /\ missed' = missed
       \cup (IF camera[App].state = "starting" /\ Resolved(App) # Resolved(App)' THEN {App} ELSE {})
       \cup (IF mic.state = "starting" THEN {Mic} ELSE {})
  /\ crossed' = crossed
       \cup (IF \E d \in Commands : command[d].at \in {"camera", "device", "rate"} THEN {Mic} ELSE {})
       \cup (IF \E d \in Commands : command[d].at = "global" /\ App \in command[d].left
             THEN {App} ELSE {})
  /\ IF Resolved(App) # Resolved(App)' /\ camera[App].state = "running"
     THEN Continue(c, Waits([at |-> "camera", previous |-> own, next |-> own'],
                            App, c, "mode", Resolved(App)'), waiting)
     ELSE Continue(c, SetDevice(c, own, own'), waiting)
  /\ UNCHANGED <<camera, mic, refused>>

\* The driver carries out a request, or refuses it; either way the command
\* goes on, except that a microphone's refusal ends it.
Answer(i) ==
  /\ waiting[i] # <<>>
  /\ LET r == Head(waiting[i])
         w == [waiting EXCEPT ![i] = Tail(@)]
     IN \/ /\ IF i = Mic THEN /\ mic' = IF r.set = "device" THEN [mic EXCEPT !.device = r.to]
                                        ELSE [mic EXCEPT !.rate = r.to]
                              /\ UNCHANGED camera
              ELSE camera' = [camera EXCEPT ![i].mode = r.to] /\ UNCHANGED mic
           /\ refused' = IF i = Mic THEN refused ELSE refused \ {i}
           /\ Continue(r.cmd, GoOn(r.cmd), w)
           /\ UNCHANGED bounds
        \/ /\ bounds.refusals < MaxRefusals
           /\ bounds' = [bounds EXCEPT !.refusals = @ + 1]
           /\ refused' = refused \cup {i}
           /\ Continue(r.cmd, IF i = Mic THEN Ends ELSE GoOn(r.cmd), w)
           /\ UNCHANGED <<camera, mic>>
  /\ UNCHANGED <<global, own, missed, crossed>>

SettingsNext ==
  \/ StartMic \/ Runs \/ Stops
  \/ \E b \in Names : StartCamera(b)
  \/ \E c \in Commands : ChangeGlobal(c) \/ ChangeOwn(c)
  \/ \E i \in Names \cup {Mic} : Answer(i)

SettingsSpec == SettingsInit /\ [][SettingsNext]_settingVars

-----------------------------------------------------------------------------
Quiet == \A c \in Commands : command[c] = Idle

\* Once every command has answered, a running camera has the settings that
\* resolve for its binding and the microphone the app's device, unless they
\* changed while it was starting, it refused them, or the app's settings
\* changed while a command was still to get to it.
DriversFollowSettings ==
  LET sure == (Names \cup {Mic}) \ (missed \cup refused \cup crossed)
  IN Quiet =>
       /\ \A b \in Names \cap sure : camera[b].state = "running" => camera[b].mode = Resolved(b)
       /\ mic.state = "running" /\ Mic \in sure =>
            /\ mic.device = own.mic
            /\ own.rate # None => mic.rate = own.rate

\* camera-config.ts:97-98: "Hot-apply a global camera change to every running
\* camera whose resolved settings changed."
CameraFollows ==
  Quiet => \A b \in Names \ (refused \cup missed) :
             camera[b].state = "running" => camera[b].mode = Resolved(b)
\* camera-config.ts:115-116: "Hot-apply a binding's per-app device settings to
\* its running driver instances."
MicrophoneFollows ==
  Quiet /\ mic.state = "running" /\ Mic \notin missed \cup refused => mic.device = own.mic
=============================================================================
