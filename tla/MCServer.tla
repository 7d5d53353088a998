------------------------------ MODULE MCServer -------------------------------
(*****************************************************************************)
(* The parts of the server that keep state of their own, each with its       *)
(* bounds: one run checks them side by side, one at a time (component), as   *)
(* none of them touches the variables of another.  Where they do interact, a *)
(* module composes them: DriverSystem, AppManager, ServerLife.               *)
(*****************************************************************************)
EXTENDS Naturals, Sequences, FiniteSets, TLC

CONSTANTS Calls, Users, OwnUsers, HasBuiltin, MaxRestarts, Sources, Installers,
          HasOriginal, MaxCrashes, MaxBases, MaxInstalls, LegacyKeys, Odd,
          Values, MaxWrites, MaxFailures, MaxBytes, MaxFiles, MaxBacklog,
          MaxLogs, MaxClock, MaxErrors, MaxDeaths, System, App, Cameras, Mics,
          Rates, SettingsCommands, MaxSettingsChanges, MaxStarts, MaxRefusals, Drivers,
          RoutingGraphs, RoutingBindings, Devices, Clients, MaxLeases,
          MaxRoutingChanges, Shows, AutoShows, Windows, MaxJoins, MaxShowStarts, Slugs, Builtins,
          Manifests, Conns, Batches, MaxCommands, MaxGatewayChanges

\* The names that stand for nothing are nobody's name, and a bound is a number.
ASSUME CatalogueAssumption == HasBuiltin \in BOOLEAN /\ MaxRestarts \in Nat

ASSUME InstallAssumption ==
  /\ {"none", "builtin"} \cap Sources = {} /\ {"none", "prepare"} \cap Installers = {}
  /\ HasOriginal \in BOOLEAN
  /\ MaxCrashes \in Nat /\ MaxBases \in Nat \ {0} /\ MaxInstalls \in Nat

\* What an app stores is no state of a file, and only its own keys had files.
ASSUME DataAssumption ==
  /\ LegacyKeys \cap {"profile", "settings", "device", "config", "none"} = {}
  /\ Values \cap {"absent", "half", "none"} = {}
  /\ MaxWrites \in Nat /\ MaxFailures \in Nat /\ MaxCrashes \in Nat

ASSUME LogAssumption ==
  /\ MaxFiles \in Nat /\ MaxBacklog \in Nat /\ MaxLogs \in Nat /\ MaxBytes \in Nat
  /\ MaxClock \in Nat \ {0} /\ MaxErrors \in Nat /\ MaxDeaths \in Nat

ASSUME SettingsAssumption ==
  /\ System # App /\ {"none", "microphone"} \cap {System, App} = {}
  /\ MaxSettingsChanges \in Nat /\ MaxStarts \in Nat /\ MaxRefusals \in Nat

\* A manifest depends on and shares drivers there are.
ASSUME RoutingAssumption ==
  /\ IsFiniteSet(Drivers) /\ MaxLeases \in Nat /\ MaxRoutingChanges \in Nat
  /\ \A g \in RoutingGraphs :
       g.deps \in [Drivers -> SUBSET Drivers] /\ g.shared \subseteq Drivers

ASSUME LifeAssumption ==
  /\ AutoShows \subseteq Shows /\ "none" \notin Shows
  /\ MaxJoins \in Nat /\ MaxShowStarts \in Nat

VARIABLES
  component,  \* the one that runs
  checkout, env, catalogueCatalogue, uninstalling, locked, calls, queue, change,
  synced, active, host, leaving, users, served, restarts,  \* AppCatalogue
  placed, venv, owners, record, listed, installs, busy, builder, prep, base,
  orphan, accepted, unrecorded, installCrashes, started,  \* AppInstall
  up, old, new, marked, moves, copying, failed, removing, memory, unsaved,
  writes, failures, dataCrashes,  \* AppData
  logged, backlog, queued, drain, lines, size, lastRotation, clock, logFile,
  rotated, unwritten, overwritten, flushing, cutBack, diskErrors, deaths,  \* LogFile
  global, own, camera, mic, command, waiting, missed, refused, crossed, bounds,  \* DeviceSettings
  routingCatalogue, device, leases, sharedCache, events, changes,  \* DriverRouting
  life, stdin, hub, monitor, bus, shows, subscribing, leased, releasing, due,
  auto, sockets, registered, unflushed, joins, showStarts,  \* ServerLife
  apps, approved, conns, commands, gatewayChanges  \* Gateway

catalogueVars == <<checkout, env, catalogueCatalogue, uninstalling, locked,
                   calls, queue, change, synced, active, host, leaving, users,
                   served, restarts>>
installVars == <<placed, venv, owners, record, listed, installs, busy, builder,
                 prep, base, orphan, accepted, unrecorded, installCrashes,
                 started>>
dataVars == <<up, old, new, marked, moves, copying, failed, removing, memory,
              unsaved, writes, failures, dataCrashes>>
logVars == <<logged, backlog, queued, drain, lines, size, lastRotation, clock,
             logFile, rotated, unwritten, overwritten, flushing, cutBack,
             diskErrors, deaths>>
settingsVars == <<global, own, camera, mic, command, waiting, missed, refused,
                  crossed, bounds>>
routingVars == <<routingCatalogue, device, leases, sharedCache, events, changes>>
lifeVars == <<life, stdin, hub, monitor, bus, shows, subscribing, leased,
              releasing, due, auto, sockets, registered, unflushed, joins,
              showStarts>>
gatewayVars == <<apps, approved, conns, commands, gatewayChanges>>

\* The system's settings come first, an app's override them.
MyBindings == <<System, App>>

CONSTANTS cam, pose, beat

Manifest(c, p, b, shared) == [deps |-> (cam :> c @@ pose :> p @@ beat :> b), shared |-> shared]

\* Catalogues in which sharing follows, contradicts and is stopped by the
\* drivers a driver depends on.
MyGraphs ==
  {Manifest({}, {cam}, {}, {pose, beat}), Manifest({}, {cam}, {pose, cam}, {cam, pose, beat}),
   Manifest({beat}, {cam}, {pose}, {cam, pose, beat}), Manifest({beat}, {cam}, {pose}, {cam, beat})}

\* What a window asks to hear: of the server and of everyone, of another app.
MyBatches ==
  {{<<"server", "log">>, <<"app", "settings-changed">>},
   {<<"app", "*">>, <<"app", "calib", "hit">>, <<"driver", "event", "calib">>}}

Catalogue == INSTANCE AppCatalogue WITH
    catalogue <- catalogueCatalogue
Install == INSTANCE AppInstall WITH
    crashes <- installCrashes
Data == INSTANCE AppData WITH
    crashes <- dataCrashes
Log == INSTANCE LogFile
Settings == INSTANCE DeviceSettings WITH
    Bindings <- MyBindings, Commands <- SettingsCommands,
    MaxChanges <- MaxSettingsChanges
Routing == INSTANCE DriverRouting WITH
    Graphs <- RoutingGraphs, Bindings <- RoutingBindings,
    MaxChanges <- MaxRoutingChanges, catalogue <- routingCatalogue
Life == INSTANCE ServerLife
Gate == INSTANCE Gateway WITH
    MaxChanges <- MaxGatewayChanges, changes <- gatewayChanges

\* No app has the slug of the dashboard's binding (slug.ts:23), and a manifest
\* requests what may be requested.
ASSUME GatewayAssumption ==
  /\ Gate!NoSystemApp
  /\ Manifests \subseteq SUBSET Gate!Requestable
  /\ MaxGatewayChanges \in Nat

Components == {"catalogue", "install", "data", "log", "settings", "routing",
               "life", "gateway"}

(* The step is one of component c.                                         *)
Only(c) ==
  /\ UNCHANGED component
  /\ c # "catalogue" => UNCHANGED catalogueVars
  /\ c # "install" => UNCHANGED installVars
  /\ c # "data" => UNCHANGED dataVars
  /\ c # "log" => UNCHANGED logVars
  /\ c # "settings" => UNCHANGED settingsVars
  /\ c # "routing" => UNCHANGED routingVars
  /\ c # "life" => UNCHANGED lifeVars
  /\ c # "gateway" => UNCHANGED gatewayVars

(* A component that does not run stays in one state.                       *)
Parked ==
  /\ component # "settings" => global = CHOOSE c \in Cameras : TRUE
  /\ component # "routing" => routingCatalogue = CHOOSE g \in RoutingGraphs : TRUE

Init ==
  /\ component \in Components
  /\ Catalogue!Init /\ Install!InstallInit /\ Data!DataInit /\ Log!LogInit
  /\ Settings!SettingsInit /\ Routing!RoutingInit /\ Life!LifeInit
  /\ Gate!GatewayInit
  /\ Parked

Next ==
  \/ component = "catalogue" /\ Catalogue!Next /\ Only("catalogue")
  \/ component = "install" /\ Install!InstallNext /\ Only("install")
  \/ component = "data" /\ Data!DataNext /\ Only("data")
  \/ component = "log" /\ Log!LogNext /\ Only("log")
  \/ component = "settings" /\ Settings!SettingsNext /\ Only("settings")
  \/ component = "routing" /\ Routing!RoutingNext /\ Only("routing")
  \/ component = "life" /\ Life!LifeNext /\ Only("life")
  \/ component = "gateway" /\ Gate!GatewayNext /\ Only("gateway")

vars == <<component, catalogueVars, installVars, dataVars, logVars,
        settingsVars, routingVars, lifeVars, gatewayVars>>

(* Each component under its own fairness.                                  *)
Fairness ==
  /\ WF_Catalogue!vars(component = "catalogue" /\ Catalogue!Progress)
  /\ WF_Life!lifeVars(component = "life" /\ Life!LifeProgress)

Spec == Init /\ [][Next]_vars /\ Fairness

-----------------------------------------------------------------------------
ServerTypeOK ==
  CASE component = "catalogue" -> Catalogue!TypeOK
    [] component = "install" -> Install!InstallTypeOK
    [] component = "data" -> Data!DataTypeOK
    [] component = "log" -> Log!LogTypeOK
    [] component = "settings" -> Settings!SettingsTypeOK
    [] component = "routing" -> Routing!RoutingTypeOK
    [] component = "life" -> Life!LifeTypeOK
    [] component = "gateway" -> Gate!GatewayTypeOK

(* Apps.  Files and environments in use stay, the bridges of apps follow    *)
(* the catalogue (AppCatalogue); an app that is listed has what it needs    *)
(* and nobody's data, and a crash at any step loses none of it              *)
(* (AppInstall); a server that exits left nothing behind, whatever was      *)
(* started while it stopped (ServerLife); and a window does and hears what  *)
(* its app, its binding and its target allow (Gateway).                     *)
AppsAreSafe ==
  /\ component = "catalogue" => Catalogue!FilesInUseStay /\ Catalogue!HostsFollowCatalogue
  /\ component = "install" => Install!InstallsAreSound
  /\ component = "life" => Life!ExitsClean
  /\ component = "gateway" => Gate!ConnectionsAreGranted

(* What is on disk.  Nothing an app stored is lost or taken from an older   *)
(* layout over a newer write (AppData), and the log loses entries only at   *)
(* its stated limits, in order (LogFile), through crashes and disk errors.  *)
StoresAreSafe ==
  /\ component = "data" => Data!DataIsSafe
  /\ component = "log" => Log!LogIsSound

(* Drivers.  Leases, instances and recipients agree on which instance an    *)
(* app uses when sharing and device settings change (DriverRouting), and a  *)
(* running camera or microphone gets the settings of its binding in order   *)
(* (DeviceSettings).                                                        *)
DriversAreRouted ==
  /\ component = "routing" => Routing!RoutingIsSound
  /\ component = "settings" => Settings!DriversFollowSettings

(* A value written under the new layout is never replaced by an old file    *)
(* that is moved later (data-migration.ts:94).                             *)
NewerStays == Data!NewerStays

(* Installs, builds and removals end once nobody asks for more, and the     *)
(* server ends when the desktop app that started it is gone.                *)
ServerSettles ==
  /\ component = "catalogue" => Catalogue!ChangesEnd
  /\ []<>(component = "life" => Life!EndedWithParent)
=============================================================================
