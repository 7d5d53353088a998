----------------------------- MODULE ServerLife -----------------------------
(***************************************************************************)
(* One run of the server process (packages/server/src/index.ts and         *)
(* server.ts): it starts the drivers, listens, starts the experiences it   *)
(* was told to, serves clients, and stops once when it is signalled or     *)
(* when the desktop app's pipe to its stdin ends.  The experiences and the *)
(* clients go on while it stops, part by part: monitor and gateway at      *)
(* once, then the experiences of that moment, the drivers, the sockets and *)
(* the log.                                                                *)
(*                                                                         *)
(* The managers have modules of their own (AppManager, DriverManager);     *)
(* here a start is one subscription, and Bun's server is external: stop()  *)
(* refuses new connections and resolves once none is left.                 *)
(***************************************************************************)
EXTENDS Naturals, FiniteSets

CONSTANTS
  Shows,       \* experiences
  AutoShows,   \* those of config.autoStartApps
  Windows,     \* clients
  MaxJoins,    \* bound: connections
  MaxShowStarts\* bound: starts of experiences

VARIABLES
  life,        \* where the process is
  stdin,       \* "open", "ended", "noticed"
  hub,         \* the built-in drivers: "starting", "up", "retrying", "stopping", "stopped"
  monitor,     \* SystemMonitor.timer
  bus,         \* the gateway listens to the bus
  shows,       \* AppManager.running
  subscribing, \* starts that wait for their driver
  leased,      \* experiences with a lease on a driver
  releasing,   \* stopExperience calls that wait for the drivers
  due,         \* the experiences shutdown waits for
  auto,        \* what autoStart has not come to, and the one it waits for
  sockets,     \* open WebSockets
  registered,  \* WebSocketGateway.clients
  unflushed,   \* the logger has entries that are not on disk
  joins, showStarts

lifeVars == <<life, stdin, hub, monitor, bus, shows, subscribing, leased, releasing, due, auto,
              sockets, registered, unflushed, joins, showStarts>>

Stopping == {"stopping apps", "stopping drivers", "closing", "flushing"}
Gone == {"exited", "killed"}

LifeTypeOK ==
  /\ life \in {"booting", "serving"} \cup Stopping \cup Gone
  /\ stdin \in {"open", "ended", "noticed"}
  /\ hub \in {"starting", "up", "retrying", "stopping", "stopped"}
  /\ monitor \in BOOLEAN /\ bus \in BOOLEAN /\ unflushed \in BOOLEAN
  /\ shows \in [Shows -> {"none", "starting", "running", "stopping"}]
  /\ subscribing \subseteq Shows /\ leased \subseteq Shows
  /\ releasing \subseteq Shows /\ due \subseteq Shows
  /\ auto \in [left : SUBSET AutoShows, waits : Shows \cup {"none"}]
  /\ sockets \subseteq Windows /\ registered \subseteq Windows
  /\ joins \in 0..MaxJoins /\ showStarts \in 0..MaxShowStarts

LifeInit ==
  /\ life = "booting" /\ stdin = "open" /\ hub = "starting"
  /\ monitor = FALSE /\ bus = FALSE /\ unflushed = TRUE
  /\ shows = [e \in Shows |-> "none"]
  /\ subscribing = {} /\ leased = {} /\ releasing = {} /\ due = {}
  /\ auto = [left |-> {}, waits |-> "none"]
  /\ sockets = {} /\ registered = {} /\ joins = 0 /\ showStarts = 0

apps == <<shows, subscribing, leased, releasing>>
clients == <<sockets, registered, joins>>

-----------------------------------------------------------------------------
(* createServer waits for the drivers, which may fail and keep retrying;   *)
(* all that follows, up to the signal handlers, is one step.  A port in    *)
(* use ends the process.                                                   *)
Listen(drivers) ==
  /\ life = "booting" /\ drivers \in {"up", "retrying"}
  /\ hub' = drivers /\ monitor' = TRUE /\ bus' = TRUE
  /\ life' = "serving"
  /\ auto' = [left |-> AutoShows, waits |-> "none"]
  /\ unflushed' = TRUE
  /\ UNCHANGED <<stdin, apps, due, clients, showStarts>>

PortTaken ==
  /\ life = "booting" /\ life' = "killed"
  /\ UNCHANGED <<stdin, hub, monitor, bus, apps, due, auto, clients, unflushed, showStarts>>

\* The supervisor of the bridge brings it up at last.
HubComesUp ==
  /\ hub = "retrying" /\ hub' = "up" /\ life \notin Gone
  /\ UNCHANGED <<life, stdin, monitor, bus, apps, due, auto, clients, unflushed, showStarts>>

StopMonitor == monitor' = FALSE

CloseGateway ==
  /\ bus' = FALSE /\ registered' = {}
  /\ sockets' = sockets \ registered

\* Every experience of this moment is being stopped.
StopShows ==
  /\ due' = {e \in Shows : shows[e] # "none"}
  /\ shows' = [e \in Shows |-> IF shows[e] = "none" THEN "none" ELSE "stopping"]
  /\ releasing' = due'

(* stop, up to its first await.                                            *)
Shutdown ==
  /\ life' = "stopping apps" /\ unflushed' = TRUE
  /\ StopMonitor /\ CloseGateway /\ StopShows
  /\ UNCHANGED <<hub, subscribing, leased, auto, joins, showStarts>>

(* Without handlers, a signal ends the process; later ones are ignored.    *)
Signal ==
  \/ /\ life = "booting" /\ life' = "killed"
     /\ UNCHANGED <<hub, monitor, bus, apps, due, auto, clients, unflushed, showStarts, stdin>>
  \/ /\ life = "serving"
     /\ Shutdown /\ UNCHANGED stdin

StdinEnds ==
  /\ stdin = "open" /\ life \notin Gone /\ stdin' = "ended"
  /\ UNCHANGED <<life, hub, monitor, bus, apps, due, auto, clients, unflushed, showStarts>>

\* Defect: the end is read before anyone listens for it.
StdinNoticed_Early ==
  /\ stdin = "ended" /\ life \notin Gone
  /\ stdin' = "noticed"
  /\ IF life = "serving" THEN Shutdown
     ELSE UNCHANGED <<life, hub, monitor, bus, apps, due, auto, clients, unflushed, showStarts>>

\* The end of stdin is read once its handlers are there, also when it came before.
StdinNoticed ==
  /\ stdin = "ended" /\ life \notin Gone \cup {"booting"}
  /\ stdin' = "noticed"
  /\ IF life = "serving" THEN Shutdown
     ELSE UNCHANGED <<life, hub, monitor, bus, apps, due, auto, clients, unflushed, showStarts>>

\* Defect: the drivers are stopped at once.
AppsStopped_NotAwaited ==
  /\ life = "stopping apps"
  /\ life' = "stopping drivers" /\ hub' = "stopping"
  /\ UNCHANGED <<stdin, monitor, bus, apps, due, auto, clients, unflushed, showStarts>>

(* shutdown of the app manager is over; experiences that started since are *)
(* not its business.                                                       *)
AppsStopped ==
  /\ life = "stopping apps" /\ due = {}
  /\ life' = "stopping drivers" /\ hub' = "stopping"
  /\ UNCHANGED <<stdin, monitor, bus, apps, due, auto, clients, unflushed, showStarts>>

(* Every bridge is stopped and every lease gone; starts that waited fail.  *)
HubStopped ==
  /\ life = "stopping drivers" /\ hub' = "stopped"
  /\ life' = "closing"
  /\ leased' = {}
  /\ UNCHANGED <<stdin, monitor, bus, shows, subscribing, releasing, due, auto, clients,
                 unflushed, showStarts>>

SocketsClosed ==
  /\ life = "closing" /\ sockets = {}
  /\ life' = "flushing"
  /\ UNCHANGED <<stdin, hub, monitor, bus, apps, due, auto, clients, unflushed, showStarts>>

Exit ==
  /\ life = "flushing" /\ ~unflushed
  /\ life' = "exited"
  /\ UNCHANGED <<stdin, hub, monitor, bus, apps, due, auto, clients, unflushed, showStarts>>

\* The logger's drain (see LogFile) catches up.
LogWritten ==
  /\ unflushed /\ life \notin Gone
  /\ unflushed' = FALSE
  /\ UNCHANGED <<life, stdin, hub, monitor, bus, apps, due, auto, clients, showStarts>>

-----------------------------------------------------------------------------
Begin(e) ==
  /\ shows' = [shows EXCEPT ![e] = "starting"]
  /\ subscribing' = subscribing \cup {e}
  /\ showStarts' = showStarts + 1

CanBegin(e) == shows[e] = "none" /\ e \notin subscribing /\ showStarts < MaxShowStarts

(* autoStart takes one experience after the other, whatever the others'    *)
(* end; it knows nothing of a shutdown.                                    *)
AutoStart(e) ==
  /\ life \notin Gone /\ auto.waits = "none" /\ e \in auto.left
  /\ IF CanBegin(e)
     THEN Begin(e) /\ auto' = [left |-> auto.left \ {e}, waits |-> e]
     ELSE auto' = [auto EXCEPT !.left = @ \ {e}] /\ UNCHANGED <<shows, subscribing, showStarts>>
  /\ UNCHANGED <<life, stdin, hub, monitor, bus, leased, releasing, due, clients, unflushed>>

\* app:experience:start from a client; answered even if its socket closes.
ClientStarts(w, e) ==
  /\ life \notin Gone /\ w \in registered /\ CanBegin(e)
  /\ Begin(e)
  /\ UNCHANGED <<life, stdin, hub, monitor, bus, leased, releasing, due, auto, clients, unflushed>>

AutoGoesOn(e) == auto' = IF auto.waits = e THEN [auto EXCEPT !.waits = "none"] ELSE auto

(* The subscription resolves: the experience is running, also when it was  *)
(* stopped meanwhile.                                                      *)
Started(e) ==
  /\ life \notin Gone /\ e \in subscribing /\ hub = "up"
  /\ subscribing' = subscribing \ {e} /\ leased' = leased \cup {e}
  /\ shows' = [shows EXCEPT ![e] = "running"]
  /\ AutoGoesOn(e)
  /\ UNCHANGED <<life, stdin, hub, monitor, bus, releasing, due, clients, unflushed, showStarts>>

(* It fails, as all do once the drivers are stopped.                       *)
StartFails(e) ==
  /\ life \notin Gone /\ e \in subscribing
  /\ subscribing' = subscribing \ {e}
  /\ shows' = [shows EXCEPT ![e] = "none"]
  /\ AutoGoesOn(e)
  /\ unflushed' = TRUE
  /\ UNCHANGED <<life, stdin, hub, monitor, bus, leased, releasing, due, clients, showStarts>>

(* stopExperience has released the drivers.                                *)
ShowStopped(e) ==
  /\ life \notin Gone /\ e \in releasing
  /\ releasing' = releasing \ {e} /\ due' = due \ {e}
  /\ leased' = leased \ {e}
  /\ shows' = [shows EXCEPT ![e] = "none"]
  /\ unflushed' = TRUE
  /\ UNCHANGED <<life, stdin, hub, monitor, bus, subscribing, auto, clients, showStarts>>

-----------------------------------------------------------------------------
(* A client connects for as long as the port is open.                      *)
Join(w) ==
  /\ life \in {"serving", "stopping apps", "stopping drivers"} /\ w \notin sockets
  /\ joins < MaxJoins /\ joins' = joins + 1
  /\ sockets' = sockets \cup {w} /\ registered' = registered \cup {w}
  /\ unflushed' = TRUE
  /\ UNCHANGED <<life, stdin, hub, monitor, bus, apps, due, auto, showStarts>>

Leave(w) ==
  /\ life \notin Gone /\ w \in sockets
  /\ sockets' = sockets \ {w} /\ registered' = registered \ {w}
  /\ unflushed' = TRUE
  /\ UNCHANGED <<life, stdin, hub, monitor, bus, apps, due, auto, joins, showStarts>>

(* The server's own steps.  A subscription settles (DriverManager), the     *)
(* logger writes, and a client leaves a server that stops: the desktop app *)
(* closes its windows when it stops the server.                            *)
LifeProgress ==
  \/ \E d \in {"up", "retrying"} : Listen(d)
  \/ AppsStopped \/ HubStopped \/ SocketsClosed \/ Exit \/ LogWritten \/ StdinNoticed
  \/ \E e \in Shows : ShowStopped(e)
  \/ life \in Stopping /\ \E w \in Windows : Leave(w)

LifeNext ==
  \/ LifeProgress \/ PortTaken \/ HubComesUp \/ Signal \/ StdinEnds
  \/ \E e \in Shows : AutoStart(e) \/ Started(e) \/ StartFails(e)
  \/ \E w \in Windows : Join(w) \/ Leave(w) \/ \E e \in Shows : ClientStarts(w, e)

LifeSpec == LifeInit /\ [][LifeNext]_lifeVars
LifeFairSpec == LifeSpec /\ WF_lifeVars(LifeProgress)

-----------------------------------------------------------------------------
(* However the stop began and whatever was started during it, a server     *)
(* that exited stopped its drivers with no lease left, published nothing   *)
(* any more, closed its sockets and wrote its log; and no event reaches a  *)
(* client after the gateway closed.                                        *)
ExitsClean ==
  /\ life = "exited" => hub = "stopped" /\ leased = {} /\ ~monitor /\ sockets = {} /\ ~unflushed
  /\ life \in Stopping => ~bus /\ ~monitor
  /\ life = "serving" => registered = sockets
  /\ hub \in {"stopping", "stopped"} => due = {}

(* "so the server stops the Python bridge and exits instead of holding its *)
(* port" (index.ts:77-79): once stdin ends, the process ends.              *)
EndedWithParent == stdin # "open" => life \in Gone
EndsWithItsParent == []<>EndedWithParent
=============================================================================
