---------------------------- MODULE AppCatalogue ----------------------------
(***************************************************************************)
(* One app that ships drivers, bundled with GOSAI (built-in), installed    *)
(* from git, or both: the installed app then replaces the built-in one.    *)
(* AppManager (packages/server/src/apps/manager.ts) keeps the catalogue,   *)
(* DriverHub (drivers/hub.ts) the bridge of the app's drivers, and         *)
(* installer.ts and python-env.ts the files.  Changes to the driver hosts  *)
(* wait in a queue; everything else interleaves at its awaits.             *)
(***************************************************************************)
EXTENDS Naturals, FiniteSets, Sequences

CONSTANTS
    Calls,          \* installs and uninstalls that may be under way together
    Users,          \* experiences with a driver of this app in their `drivers`
    OwnUsers,       \* those that belong to this app
    HasBuiltin,     \* whether GOSAI bundles the app
    MaxRestarts     \* bound: crashes of the server, each followed by a restart

VARIABLES
    checkout,       \* disk: the installed app's directory
    env,            \* disk: the app's Python environments, one for each kind
    catalogue,      \* what the app manager lists under the app's name
    uninstalling,   \* the uninstall keeps the drivers released
    locked,         \* busySlugs of the installer holds the app
    calls,          \* where each install or uninstall is
    queue,          \* driver host changes, the first one being made
    change,         \* what that change is doing
    synced,         \* what the hosts were last told to run
    active,         \* the hub was not stopped
    host,           \* the hub's bridge for the app
    leaving,        \* one that was removed and is still stopping
    users,          \* where each experience is
    served,         \* the experiences with a lease on the hub's bridge
    restarts

vars == <<checkout, env, catalogue, uninstalling, locked, calls, queue, change,
          synced, active, host, leaving, users, served, restarts>>
disk == <<checkout, env>>
hosts == <<host, leaving, active>>
experiences == <<users, served>>

None == "none"
Kinds == {"installed", "builtin"}
NoHost == [phase |-> None]
Idle == [at |-> "idle"]
Bundled == IF HasBuiltin THEN "builtin" ELSE None

Host == [kind : Kinds, dropped : BOOLEAN,
         phase : {"unlaunched", "preparing", "building", "failed", "up", "ended"}]
Entry == [what : {"sync", "release"}, waiters : SUBSET Calls]

TypeOK ==
    /\ checkout \in {None, "valid", "invalid"}
    /\ env \in [Kinds -> {None, "partial", "ready", "stale"}]
    /\ catalogue \in Kinds \union {None}
    /\ synced \in Kinds \union {None}
    /\ {uninstalling, locked, active} \subseteq BOOLEAN
    /\ calls \in [Calls -> {"idle", "cloning", "building", "environment", "queued",
                            "stopping", "releasing", "removing"}]
    /\ queue \in Seq(Entry)
    /\ change = Idle \/ change \in [at : {"stop", "release"}, todo : SUBSET Users,
                                    wanted : Kinds \union {None}]
    /\ {host, leaving} \subseteq Host \union {NoHost}
    /\ users \in [Users -> {"idle", "starting", "waiting", "lost", "running"}]
    /\ served \subseteq Users
    /\ restarts \in 0..MaxRestarts

\* discover: an installed app replaces a built-in one of the same name, unless
\* its manifest is invalid for this GOSAI.
Discovered == IF checkout = "valid" THEN "installed" ELSE Bundled

\* A sync that has not begun yet will see whatever a later one would.
QueueSync(waiters) ==
    LET n == Len(queue)
        notBegun == n > 0 /\ queue[n].what = "sync" /\ (n > 1 \/ change = Idle)
    IN queue' = IF notBegun
                THEN [queue EXCEPT ![n].waiters = @ \union waiters]
                ELSE Append(queue, [what |-> "sync", waiters |-> waiters])

Init ==
    /\ checkout = None
    /\ env = [k \in Kinds |-> None]
    /\ catalogue = Discovered
    /\ uninstalling = FALSE /\ locked = FALSE /\ active = TRUE
    /\ calls = [c \in Calls |-> "idle"]
    /\ queue = <<[what |-> "sync", waiters |-> {}]>>
    /\ change = Idle
    /\ synced = None
    /\ host = NoHost /\ leaving = NoHost
    /\ users = [u \in Users |-> "idle"]
    /\ served = {}
    /\ restarts = 0

Moves(c, from, to) == calls[c] = from /\ calls' = [calls EXCEPT ![c] = to]

-----------------------------------------------------------------------------
(* Install (installApp, then installFromGit).                              *)

Install(c) ==
    /\ Moves(c, "idle", "cloning")
    /\ UNCHANGED <<disk, catalogue, uninstalling, locked, queue, change, synced,
                   hosts, experiences, restarts>>

\* Cloned, read and checked: the name is locked, and nothing is installed
\* under it.
Cloned(c) ==
    /\ ~locked /\ checkout = None
    /\ locked' = TRUE
    /\ Moves(c, "cloning", "building")
    /\ UNCHANGED <<disk, catalogue, uninstalling, queue, change, synced, hosts,
                   experiences, restarts>>

\* The clone failed, or the app is busy, installed or refused.
CloneFails(c) ==
    /\ Moves(c, "cloning", "idle")
    /\ UNCHANGED <<disk, catalogue, uninstalling, locked, queue, change, synced,
                   hosts, experiences, restarts>>

\* Dependencies and the build script worked; the environment is built from
\* scratch.
Built(c) ==
    /\ Moves(c, "building", "environment")
    /\ env' = [env EXCEPT !["installed"] = "partial"]
    /\ UNCHANGED <<checkout, catalogue, uninstalling, locked, queue, change,
                   synced, hosts, experiences, restarts>>

\* A step failed: the staging directory and the environment go.
BuildFails(c) ==
    /\ \/ Moves(c, "building", "idle") /\ UNCHANGED env
       \/ /\ Moves(c, "environment", "idle")
          /\ env' = [env EXCEPT !["installed"] = None]
    /\ locked' = FALSE
    /\ UNCHANGED <<checkout, catalogue, uninstalling, queue, change, synced, hosts,
                   experiences, restarts>>

\* Every step succeeded: the app moves into the apps directory, is listed, and
\* the call waits for the drivers to be replaced.
Installed(c) ==
    /\ Moves(c, "environment", "queued")
    /\ checkout = None
    /\ env' = [env EXCEPT !["installed"] = "ready"]
    /\ checkout' = "valid" /\ locked' = FALSE
    /\ catalogue' = "installed"
    /\ QueueSync({c})
    /\ UNCHANGED <<uninstalling, change, synced, hosts, experiences, restarts>>

-----------------------------------------------------------------------------
(* Uninstall.                                                              *)

Uninstall(c) ==
    /\ catalogue = "installed"
    /\ Moves(c, "idle", "stopping")
    /\ UNCHANGED <<disk, catalogue, uninstalling, locked, queue, change, synced,
                   hosts, experiences, restarts>>

\* stopAllExperiencesFor, then the release of the drivers is queued.
StopAll(c) ==
    /\ Moves(c, "stopping", "releasing")
    /\ users' = [u \in Users |-> IF u \in OwnUsers /\ users[u] = "running"
                                 THEN "idle" ELSE users[u]]
    /\ served' = served \ OwnUsers
    /\ uninstalling' = TRUE
    /\ queue' = Append(queue, [what |-> "release", waiters |-> {c}])
    /\ UNCHANGED <<disk, catalogue, locked, change, synced, hosts, restarts>>

RemoveApp_KeepsShadow(c) ==
    /\ ~locked /\ checkout # None
    /\ Moves(c, "removing", "idle")
    /\ checkout' = None
    /\ env' = [env EXCEPT !["installed"] = None]
    /\ catalogue' = None
    /\ uninstalling' = FALSE
    /\ QueueSync({})
    /\ UNCHANGED <<locked, change, synced, hosts, experiences, restarts>>

\* uninstallApp deletes the directory and the environment, and the app is
\* forgotten: a built-in one takes its place again.
RemoveApp(c) ==
    /\ ~locked /\ checkout # None
    /\ Moves(c, "removing", "idle")
    /\ checkout' = None
    /\ env' = [env EXCEPT !["installed"] = None]
    /\ catalogue' = Bundled
    /\ uninstalling' = FALSE
    /\ QueueSync({})
    /\ UNCHANGED <<locked, change, synced, hosts, experiences, restarts>>

\* Another uninstall was faster, or the app is being installed again.
RemoveFails(c) ==
    /\ locked \/ checkout = None
    /\ Moves(c, "removing", "idle")
    /\ uninstalling' = FALSE
    /\ QueueSync({})
    /\ UNCHANGED <<disk, catalogue, locked, change, synced, hosts, experiences,
                   restarts>>

\* A directory that did not load is deleted at once, next to a built-in app
\* or on its own.
UninstallInvalid(c) ==
    /\ calls[c] = "idle"
    /\ catalogue # "installed" /\ checkout = "invalid" /\ ~locked
    /\ checkout' = None
    /\ env' = [env EXCEPT !["installed"] = None]
    /\ catalogue' = Bundled
    /\ QueueSync({})
    /\ UNCHANGED <<uninstalling, locked, calls, change, synced, hosts, experiences,
                   restarts>>

-----------------------------------------------------------------------------
(* The queue of driver host changes (queueDriverChange, syncAppDrivers,    *)
(* releaseAppDrivers).                                                     *)

AppDriverSource == IF uninstalling /\ catalogue = "installed" THEN None ELSE catalogue

\* hosts.sync: the bridge of what is wanted, unless it is there already.
AddHost(kind) ==
    /\ host' = IF kind = None THEN NoHost
               ELSE [kind |-> kind, dropped |-> FALSE,
                     phase |-> IF active THEN "preparing" ELSE "unlaunched"]
    /\ synced' = kind

\* The first change in the queue is made; the calls that wait for it go on.
Finish ==
    /\ change' = Idle
    /\ queue' = Tail(queue)
    /\ calls' = [c \in Calls |->
            IF c \notin Head(queue).waiters THEN calls[c]
            ELSE IF calls[c] = "releasing" THEN "removing" ELSE "idle"]

\* The experiences in the map with a driver of the app.
UsersListed == {u \in Users : users[u] # "idle"}

\* The hub's release: the bridge leaves the map, its environment's build is
\* aborted, and its leases are dropped.
Release(wanted, us) ==
    /\ leaving' = IF host = NoHost THEN NoHost ELSE [host EXCEPT !.dropped = TRUE]
    /\ host' = NoHost
    /\ served' = {}
    /\ users' = [u \in Users |-> IF us[u] = "waiting" THEN "lost" ELSE us[u]]
    /\ change' = [at |-> "release", todo |-> {}, wanted |-> wanted]

ReleaseAppDrivers(wanted) ==
    IF UsersListed = {}
    THEN Release(wanted, users)
    ELSE /\ change' = [at |-> "stop", todo |-> UsersListed, wanted |-> wanted]
         /\ UNCHANGED <<host, leaving, experiences>>

BeginSync ==
    /\ change = Idle /\ queue # <<>> /\ Head(queue).what = "sync"
    /\ \/ /\ synced # None /\ synced # AppDriverSource
          /\ ReleaseAppDrivers(AppDriverSource)
          /\ UNCHANGED <<queue, calls, synced>>
       \/ /\ synced = AppDriverSource
          /\ Finish
          /\ UNCHANGED <<host, leaving, synced, experiences>>
       \/ /\ synced = None /\ AppDriverSource # None
          /\ AddHost(AppDriverSource)
          /\ Finish
          /\ UNCHANGED <<leaving, experiences>>
    /\ UNCHANGED <<disk, catalogue, uninstalling, locked, active, restarts>>

BeginRelease ==
    /\ change = Idle /\ queue # <<>> /\ Head(queue).what = "release"
    /\ ReleaseAppDrivers(None)
    /\ UNCHANGED <<disk, catalogue, uninstalling, locked, queue, calls, synced,
                   active, restarts>>

\* The experiences are stopped one after the other; the drivers are released
\* right after the last.  One that is starting goes on (see AppManager).
StopUser ==
    /\ change.at = "stop"
    /\ \E u \in change.todo :
          LET stopped == [users EXCEPT ![u] = IF @ = "running" THEN "idle" ELSE @]
          IN IF change.todo = {u}
             THEN Release(change.wanted, stopped)
             ELSE /\ users' = stopped
                  /\ served' = served \ {u}
                  /\ change' = [change EXCEPT !.todo = @ \ {u}]
                  /\ UNCHANGED <<host, leaving>>
    /\ UNCHANGED <<disk, catalogue, uninstalling, locked, queue, calls, synced,
                   active, restarts>>

Released_AtOnce ==
    /\ change.at = "release"
    /\ AddHost(change.wanted)
    /\ Finish
    /\ UNCHANGED <<disk, catalogue, uninstalling, locked, active, leaving,
                   experiences, restarts>>

\* The bridge has stopped, with the build of its environment.
Released ==
    /\ change.at = "release"
    /\ leaving.phase \in {None, "ended"}
    /\ leaving' = NoHost
    /\ AddHost(change.wanted)
    /\ Finish
    /\ UNCHANGED <<disk, catalogue, uninstalling, locked, active, experiences,
                   restarts>>

-----------------------------------------------------------------------------
(* The bridge of the app's drivers: launch, ensureAppPythonEnv and stop.   *)

Prepared_Unstamped(h) ==
    IF h.dropped THEN {<<"ended", env[h.kind]>>}
    ELSE {<<"failed", env[h.kind]>>}
         \union IF env[h.kind] = None THEN {<<"building", "partial">>}
                ELSE {<<"up", env[h.kind]>>}

\* What becomes of a bridge that is preparing, and of its environment: used as
\* it is when its stamp is right, built again when it is missing, half built
\* or built from something else.
Prepared(h) ==
    IF h.dropped THEN {<<"ended", env[h.kind]>>}
    ELSE {<<"failed", env[h.kind]>>}
         \union IF env[h.kind] = "ready" THEN {<<"up", "ready">>}
                ELSE {<<"building", "partial">>}

\* ... and of one whose environment is built.  Aborting kills the build.
BuildEnds(h) ==
    IF h.dropped THEN {<<"ended", None>>}
    ELSE {<<"up", "ready">>, <<"failed", None>>}

Outcomes(h) ==
    CASE h.phase = "preparing" -> Prepared(h)
      [] h.phase = "building" -> BuildEnds(h)
      [] h.phase \in {"up", "failed", "unlaunched"} /\ h.dropped ->
             {<<"ended", env[h.kind]>>}
      [] OTHER -> {}

HostStep ==
    /\ \/ /\ \E o \in Outcomes(host) :
                /\ host' = [host EXCEPT !.phase = o[1]]
                /\ env' = [env EXCEPT ![host.kind] = o[2]]
          /\ UNCHANGED leaving
       \/ /\ \E o \in Outcomes(leaving) :
                /\ leaving' = [leaving EXCEPT !.phase = o[1]]
                /\ env' = [env EXCEPT ![leaving.kind] = o[2]]
          /\ UNCHANGED host
    /\ UNCHANGED <<checkout, catalogue, uninstalling, locked, calls, queue, change,
                   synced, active, experiences, restarts>>

\* The hub stops with the server: every bridge, and the builds.
StopHub ==
    /\ active
    /\ active' = FALSE
    /\ host' = IF host = NoHost THEN host ELSE [host EXCEPT !.dropped = TRUE]
    /\ UNCHANGED <<disk, catalogue, uninstalling, locked, calls, queue, change,
                   synced, leaving, experiences, restarts>>

-----------------------------------------------------------------------------
(* Experiences that use the app's drivers (see AppManager for the rest).   *)

StartUser(u) ==
    /\ users[u] = "idle"
    /\ u \in OwnUsers => catalogue # None
    /\ users' = [users EXCEPT ![u] = "starting"]
    /\ UNCHANGED <<disk, catalogue, uninstalling, locked, calls, queue, change,
                   synced, hosts, served, restarts>>

\* DriverHub.subscribe: an unknown driver, or a wait for its environment,
\* which is prepared again when it failed.
Subscribe(u) ==
    /\ users[u] = "starting"
    /\ IF host = NoHost
       THEN /\ users' = [users EXCEPT ![u] = "idle"]
            /\ UNCHANGED host
       ELSE /\ users' = [users EXCEPT ![u] = "waiting"]
            /\ host' = IF active /\ host.phase = "failed"
                       THEN [host EXCEPT !.phase = "preparing"] ELSE host
    /\ UNCHANGED <<disk, catalogue, uninstalling, locked, calls, queue, change,
                   synced, leaving, active, served, restarts>>

Subscribed(u) ==
    /\ users[u] = "waiting"
    /\ host # NoHost /\ host.phase = "up" /\ ~host.dropped
    /\ users' = [users EXCEPT ![u] = "running"]
    /\ served' = served \union {u}
    /\ QueueSync({})
    /\ UNCHANGED <<disk, catalogue, uninstalling, locked, calls, change, synced,
                   hosts, restarts>>

\* The environment failed or takes too long, or the bridge was removed.
SubscribeFails(u) ==
    /\ users[u] \in {"waiting", "lost"}
    /\ users' = [users EXCEPT ![u] = "idle"]
    /\ QueueSync({})
    /\ UNCHANGED <<disk, catalogue, uninstalling, locked, calls, change, synced,
                   hosts, served, restarts>>

StopExperience(u) ==
    /\ users[u] = "running"
    /\ users' = [users EXCEPT ![u] = "idle"]
    /\ served' = served \ {u}
    /\ QueueSync({})
    /\ UNCHANGED <<disk, catalogue, uninstalling, locked, calls, change, synced,
                   hosts, restarts>>

-----------------------------------------------------------------------------
\* The server dies and starts again, possibly after an update: what is on disk
\* stays as it is, environments built from the earlier version no longer fit,
\* and the app's manifest may not either.
Restart ==
    /\ restarts < MaxRestarts
    /\ restarts' = restarts + 1
    /\ \E updated \in BOOLEAN :
          /\ env' = [k \in Kinds |-> IF updated /\ env[k] = "ready" THEN "stale"
                                     ELSE env[k]]
          /\ checkout' \in IF updated /\ checkout # None THEN {"valid", "invalid"}
                           ELSE {checkout}
    /\ catalogue' = Discovered'
    /\ uninstalling' = FALSE /\ locked' = FALSE /\ active' = TRUE
    /\ calls' = [c \in Calls |-> "idle"]
    /\ queue' = <<[what |-> "sync", waiters |-> {}]>>
    /\ change' = Idle
    /\ synced' = None
    /\ host' = NoHost /\ leaving' = NoHost
    /\ users' = [u \in Users |-> "idle"]
    /\ served' = {}

\* An uninstall whose release is done removes the app at once: no other promise
\* can have been waiting for the release longer.
Removing == \E c \in Calls : calls[c] = "removing"

\* A release that finds no bridge is over in the same turn of the event loop.
NothingToRelease == change.at = "release" /\ leaving = NoHost

Progress ==
    \/ \E c \in Calls : RemoveApp(c) \/ RemoveFails(c)
    \/ ~Removing /\ (BeginSync \/ BeginRelease \/ Released)
    \/ /\ ~Removing /\ ~NothingToRelease
       /\ \/ \E c \in Calls : Cloned(c) \/ CloneFails(c) \/ Built(c) \/ BuildFails(c)
                               \/ Installed(c) \/ StopAll(c)
          \/ StopUser \/ HostStep

Commands ==
    /\ ~Removing /\ ~NothingToRelease
    /\ \/ \E c \in Calls : Install(c) \/ Uninstall(c) \/ UninstallInvalid(c)
       \/ \E u \in Users : StartUser(u) \/ Subscribe(u) \/ Subscribed(u)
                           \/ SubscribeFails(u) \/ StopExperience(u)
       \/ StopHub

Next == Progress \/ Commands \/ Restart

Spec == Init /\ [][Next]_vars

\* Steps of installs, builds and stops come to an end, and waits time out.
FairSpec == Spec /\ WF_vars(Progress)

-----------------------------------------------------------------------------
(* Properties.                                                             *)

\* No bridge runs, and none is prepared, on files that are gone, half built or
\* built for something else: neither an uninstall, a replacement nor a crash
\* in the middle of a build gets there (hub.ts:77, installer.ts:6).
FilesInUseStay ==
    \A h \in {host, leaving} \ {NoHost} :
        /\ h.phase \in {"building", "up"} /\ h.kind = "installed" => checkout = "valid"
        /\ h.phase = "up" => env[h.kind] = "ready"

AtRest == queue = <<>> /\ \A c \in Calls : calls[c] = "idle"

\* With no call and no change under way the catalogue is what is on disk and
\* the hub runs the drivers of exactly what the catalogue lists.
HostsFollowCatalogue ==
    AtRest => /\ catalogue = Discovered
              /\ synced = catalogue
              /\ IF catalogue = None THEN host = NoHost
                 ELSE host # NoHost /\ host.kind = catalogue

\* Every install and uninstall returns, and every change to the hosts is made,
\* once nobody asks for more.
ChangesEnd ==
    <>[][~Commands]_vars => <>[]AtRest

\* "The app manager stops the experiences that use the app's drivers first, so
\* none keeps running without events" (hub.ts:19).
RunningUsersAreServed == \A u \in Users : users[u] = "running" => u \in served
=============================================================================
