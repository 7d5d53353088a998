----------------------------- MODULE AppInstall -----------------------------
(***************************************************************************)
(* What installing one app leaves on the disk: its checkout, its Python    *)
(* environment, its data and the record of where it came from             *)
(* (packages/server/src/apps/installer.ts, install-records.ts,             *)
(* python-env.ts, run-step.ts and installFromGit and uninstall of          *)
(* manager.ts).  The app may be installed from several sources that share  *)
(* its slug, by calls that overlap; the server may crash between any two   *)
(* steps and comes back with the same or a newer base environment.         *)
(*                                                                         *)
(* AppCatalogue has the interleavings of one server's life (drivers,       *)
(* experiences and files in use); this module has what survives it.  A     *)
(* source stands for the app it holds, its requirements file and its       *)
(* requested capabilities.  The staging directory is inside the apps       *)
(* directory, so moveIntoPlace renames.                                    *)
(***************************************************************************)
EXTENDS Naturals, FiniteSets

CONSTANTS
  Sources,      \* git sources of apps with this slug
  Installers,   \* install calls that may overlap
  HasOriginal,  \* whether GOSAI bundles an app with this slug
  MaxCrashes, MaxBases, MaxInstalls  \* bounds: crashes, base versions, installs

VARIABLES
  placed,    \* disk: the source of the checkout in the apps directory
  venv,      \* disk: the app's Python environment
  owners,    \* disk: the apps that wrote the data kept for the slug
  record,    \* disk: install.json
  listed,    \* the catalogue's app: a source, the original or none
  installs,  \* the install calls
  busy,      \* busySlugs holds the slug
  builder,   \* what builds the environment: an install, "prepare" or none
  prep,      \* the environment of the listed app, as the driver hub prepares it
  base,      \* the version of GOSAI's own environment
  orphan,    \* a uv that outlived its server
  accepted,  \* history: owners whose data the last install found
  unrecorded,\* history: an app was placed and its record not written
  crashes, started

installVars == <<placed, venv, owners, record, listed, installs, busy, builder, prep, base,
                 orphan, accepted, unrecorded, crashes, started>>

Nobody == "none"
Original == "builtin"
NoEnv == [made |-> "none", by |-> Nobody, on |-> 0, stamp |-> FALSE, mixed |-> FALSE]
NoRecord == [source |-> Nobody, approved |-> Nobody]
NoInstall == [at |-> "idle", source |-> Nobody, reuse |-> FALSE, approve |-> FALSE, locked |-> FALSE]

InstallTypeOK ==
  /\ placed \in Sources \cup {Nobody}
  /\ venv \in [made : {"none", "empty", "venv", "whole"}, by : Sources \cup {Nobody},
               on : 0..MaxBases, stamp : BOOLEAN, mixed : BOOLEAN]
  /\ owners \subseteq Sources \cup {Original}
  /\ record \in [source : Sources \cup {Nobody}, approved : Sources \cup {Nobody}]
  /\ listed \in Sources \cup {Nobody, Original}
  /\ installs \in [Installers -> [at : {"idle", "cloning", "building", "queued", "venv", "packages"},
                                  source : Sources \cup {Nobody}, reuse : BOOLEAN,
                                  approve : BOOLEAN, locked : BOOLEAN]]
  /\ busy \in BOOLEAN /\ orphan \in BOOLEAN /\ unrecorded \in BOOLEAN
  /\ builder \in Installers \cup {"prepare", Nobody}
  /\ prep \in {"none", "queued", "venv", "packages", "ready", "failed"}
  /\ base \in 1..MaxBases
  /\ accepted \subseteq Sources \cup {Original}
  /\ crashes \in 0..MaxCrashes /\ started \in 0..MaxInstalls

Bundled == IF HasOriginal THEN Original ELSE Nobody

InstallInit ==
  /\ placed = Nobody /\ venv = NoEnv /\ owners = {} /\ record = NoRecord
  /\ listed = Bundled
  /\ installs = [c \in Installers |-> NoInstall]
  /\ busy = FALSE /\ builder = Nobody /\ prep = "none" /\ base = 1 /\ orphan = FALSE
  /\ accepted = {} /\ unrecorded = FALSE /\ crashes = 0 /\ started = 0

app == <<placed, owners, record, listed, accepted, unrecorded>>
envs == <<venv, builder, prep, base, orphan>>

Fail(c) ==
  /\ installs' = [installs EXCEPT ![c] = NoInstall]
  /\ busy' = (busy /\ ~installs[c].locked)

-----------------------------------------------------------------------------
(* app:install: git clones into a staging directory of the call's own.     *)
Clone(c, s, r, a) ==
  /\ installs[c].at = "idle" /\ started < MaxInstalls
  /\ started' = started + 1
  /\ installs' = [installs EXCEPT ![c] = [at |-> "cloning", source |-> s, reuse |-> r,
                                          approve |-> a, locked |-> FALSE]]
  /\ UNCHANGED <<app, envs, busy, crashes>>

(* Data of an app from another, or from an unknown, source; the record is  *)
(* in the data directory.                                                  *)
Leftover(s) == (owners # {} \/ record # NoRecord) /\ record.source # s

\* Defect: leftover data is accepted.
Refused_NotForData(c) == busy \/ placed # Nobody

Refused(c) == busy \/ placed # Nobody \/ (~installs[c].reuse /\ Leftover(installs[c].source))

(* The clone is there: the slug is locked for this call.                   *)
Cloned(c) ==
  /\ installs[c].at = "cloning" /\ ~Refused(c)
  /\ installs' = [installs EXCEPT ![c].at = "building", ![c].locked = TRUE]
  /\ busy' = TRUE
  /\ accepted' = IF installs[c].reuse \/ record.source = installs[c].source THEN owners ELSE {}
  /\ UNCHANGED <<placed, owners, record, listed, unrecorded, envs, crashes, started>>

(* The source, git, the manifest, the checks, bun install or the app's     *)
(* build fail, or a step is killed at its timeout.                         *)
StepFails(c) ==
  /\ installs[c].at \in {"cloning", "building"}
  /\ Fail(c)
  /\ UNCHANGED <<app, envs, crashes, started>>

(* bun install and the build ended; the environment waits for its turn.    *)
AppBuilt(c) ==
  /\ installs[c].at = "building"
  /\ installs' = [installs EXCEPT ![c].at = "queued"]
  /\ UNCHANGED <<app, envs, busy, crashes, started>>

-----------------------------------------------------------------------------
(* build, for an install or for the driver hub's prepare: whatever was     *)
(* there is removed, uv venv runs, then uv pip install, and the stamp      *)
(* comes last.  One build of a directory at a time.                        *)
Emptied(s) == [made |-> "empty", by |-> s, on |-> base, stamp |-> FALSE, mixed |-> FALSE]

\* Defect: the stamp is written as soon as there is an interpreter.
WithVenv_Stamped == [venv EXCEPT !.made = "venv", !.stamp = TRUE]

WithVenv == [venv EXCEPT !.made = "venv"]

BuildEnv(c) ==
  /\ installs[c].at = "queued" /\ builder = Nobody
  /\ builder' = c
  /\ venv' = Emptied(installs[c].source)
  /\ installs' = [installs EXCEPT ![c].at = "venv"]
  /\ UNCHANGED <<app, busy, prep, base, orphan, crashes, started>>

(* The drivers or the requirements are missing or refused, or uv is not    *)
(* found, before anything is built.                                        *)
BuildRefused(c) ==
  /\ installs[c].at = "queued" /\ builder = Nobody
  /\ venv' = NoEnv
  /\ Fail(c)
  /\ UNCHANGED <<app, builder, prep, base, orphan, crashes, started>>

VenvMade(c) ==
  /\ installs[c].at = "venv"
  /\ venv' = WithVenv
  /\ installs' = [installs EXCEPT ![c].at = "packages"]
  /\ UNCHANGED <<app, busy, builder, prep, base, orphan, crashes, started>>

(* uv fails or times out: its process group is killed and the environment  *)
(* and the staging directory are removed.                                  *)
EnvFails(c) ==
  /\ installs[c].at \in {"venv", "packages"}
  /\ venv' = NoEnv /\ builder' = Nobody
  /\ Fail(c)
  /\ UNCHANGED <<app, prep, base, orphan, crashes, started>>

Recorded(c) ==
  [source |-> installs[c].source,
   approved |-> IF installs[c].approve THEN installs[c].source ELSE Nobody]

(* The stamp is written, the checkout moves into place, the record is      *)
(* written and the app is listed, without an await that anything waits     *)
(* for; the hub prepares the app's environment.                            *)
Place(c) ==
  /\ installs[c].at = "packages"
  /\ venv' = [venv EXCEPT !.made = "whole", !.stamp = TRUE]
  /\ builder' = Nobody
  /\ placed' = installs[c].source
  /\ record' = Recorded(c)
  /\ listed' = installs[c].source
  /\ prep' = "queued"
  /\ unrecorded' = FALSE
  /\ Fail(c)
  /\ UNCHANGED <<owners, accepted, base, orphan, crashes, started>>

(* The disk refuses the record: the call fails with the app in place, and  *)
(* the catalogue shows it after the next start.                            *)
PlaceUnrecorded(c) ==
  /\ installs[c].at = "packages"
  /\ venv' = [venv EXCEPT !.made = "whole", !.stamp = TRUE]
  /\ builder' = Nobody
  /\ placed' = installs[c].source
  /\ unrecorded' = TRUE
  /\ Fail(c)
  /\ UNCHANGED <<owners, accepted, record, listed, prep, base, orphan, crashes, started>>

-----------------------------------------------------------------------------
\* Defect: the stamp says nothing of the base environment.
Stamped_AnyBase(s) == venv.stamp /\ venv.by = s

Stamped(s) == venv.stamp /\ venv.by = s /\ venv.on = base

(* ensureAppPythonEnv, before each launch of the app's bridge: an          *)
(* environment built from the same things is used as it is.                *)
Ensure ==
  /\ prep = "queued" /\ builder = Nobody
  /\ IF Stamped(listed)
     THEN prep' = "ready" /\ UNCHANGED <<venv, builder>>
     ELSE prep' = "venv" /\ builder' = "prepare" /\ venv' = Emptied(listed)
  /\ UNCHANGED <<app, installs, busy, base, orphan, crashes, started>>

EnsureStep ==
  \/ /\ prep = "venv" /\ prep' = "packages"
     /\ venv' = WithVenv
     /\ UNCHANGED <<app, installs, busy, builder, base, orphan, crashes, started>>
  \/ /\ prep = "packages" /\ prep' = "ready"
     /\ venv' = [venv EXCEPT !.made = "whole", !.stamp = TRUE]
     /\ builder' = Nobody
     /\ UNCHANGED <<app, installs, busy, base, orphan, crashes, started>>

EnsureFails ==
  /\ prep \in {"venv", "packages"}
  /\ prep' = "failed" /\ venv' = NoEnv /\ builder' = Nobody
  /\ UNCHANGED <<app, installs, busy, base, orphan, crashes, started>>

(* The same before a launch leaves the environment as it was.              *)
EnsureRefused ==
  /\ prep = "queued" /\ builder = Nobody
  /\ prep' = "failed"
  /\ UNCHANGED <<app, installs, busy, venv, builder, base, orphan, crashes, started>>

\* A subscription to one of the app's drivers tries again.
Retry ==
  /\ prep = "failed" /\ prep' = "queued"
  /\ UNCHANGED <<app, installs, busy, venv, builder, base, orphan, crashes, started>>

-----------------------------------------------------------------------------
(* The listed app stores something, through the server or by its drivers.  *)
WriteData ==
  /\ listed # Nobody /\ listed \notin owners
  /\ owners' = owners \cup {listed}
  /\ UNCHANGED <<placed, record, listed, accepted, unrecorded, envs, installs, busy, crashes,
                 started>>

(* app:uninstall: the drivers are released, which aborts a build under     *)
(* way; the checkout and the environment go, the data only when asked for. *)
Uninstall(deleteData) ==
  /\ placed # Nobody /\ ~busy
  /\ placed' = Nobody /\ listed' = Bundled
  /\ venv' = NoEnv /\ prep' = "none"
  /\ builder' = IF builder = "prepare" THEN Nobody ELSE builder
  /\ IF deleteData THEN owners' = {} /\ record' = NoRecord ELSE UNCHANGED <<owners, record>>
  /\ UNCHANGED <<accepted, unrecorded, installs, busy, base, orphan, crashes, started>>

(* apps:approve: the operator approves what the listed app asks for.       *)
Approve ==
  /\ listed \in Sources
  /\ record' = [source |-> IF record.source = Nobody THEN listed ELSE record.source,
                approved |-> listed]
  /\ UNCHANGED <<placed, owners, listed, accepted, unrecorded, envs, installs, busy, crashes,
                 started>>

(* The server dies and starts again, perhaps after an update of GOSAI.     *)
(* The staging directories are removed; an app in place is listed, with a  *)
(* record from its git origin when it has none.  A uv that was running is  *)
(* in a process group of its own and goes on.                              *)
Crash ==
  /\ crashes < MaxCrashes
  /\ crashes' = crashes + 1
  /\ installs' = [c \in Installers |-> NoInstall] /\ busy' = FALSE
  /\ builder' = Nobody
  /\ orphan' = (orphan \/ builder # Nobody)
  /\ base' \in {b \in {base, base + 1} : b <= MaxBases}
  /\ listed' = IF placed # Nobody THEN placed ELSE Bundled
  /\ prep' = IF placed # Nobody THEN "queued" ELSE "none"
  /\ record' = IF placed # Nobody /\ record = NoRecord
               THEN [source |-> placed, approved |-> Nobody] ELSE record
  /\ UNCHANGED <<placed, venv, owners, accepted, unrecorded, started>>

(* What it still writes goes to whatever is in the directory by then.      *)
OrphanWrites ==
  /\ orphan
  /\ orphan' \in BOOLEAN
  /\ venv' = [venv EXCEPT !.mixed = venv.made # "none"]
  /\ UNCHANGED <<app, installs, busy, builder, prep, base, crashes, started>>

InstallNext ==
  \/ \E c \in Installers :
       \/ \E s \in Sources, r \in BOOLEAN, a \in BOOLEAN : Clone(c, s, r, a)
       \/ Cloned(c) \/ StepFails(c) \/ AppBuilt(c)
       \/ BuildEnv(c) \/ BuildRefused(c) \/ VenvMade(c) \/ EnvFails(c) \/ Place(c) \/ PlaceUnrecorded(c)
  \/ Ensure \/ EnsureStep \/ EnsureFails \/ EnsureRefused \/ Retry
  \/ WriteData \/ Approve \/ Crash \/ OrphanWrites
  \/ \E d \in BOOLEAN : Uninstall(d)

InstallSpec == InstallInit /\ [][InstallNext]_installVars

-----------------------------------------------------------------------------
(* A bridge starts on an environment that was built to its end, for this   *)
(* app and for the base environment the server runs, however many builds   *)
(* were cut short before; unless a uv of an earlier server wrote there.    *)
ReadyEnvIsWhole ==
  prep = "ready" =>
    venv.made = "whole" /\ venv.by = listed /\ venv.on = base

(* The listed app finds only its own data, what the operator let it reuse, *)
(* and what the bundled app it replaced had written.                       *)
DataIsItsOwn ==
  listed \in Sources => owners \subseteq {listed, Original} \cup accepted

(* What an app holds was approved for it, if its record could be written.  *)
ApprovalsAreItsOwn ==
  listed \in Sources /\ ~unrecorded => record.approved \in {listed, Nobody}

InstallsAreSound ==
  /\ ReadyEnvIsWhole
  /\ DataIsItsOwn
  /\ ApprovalsAreItsOwn
  /\ placed # Nobody => \A c \in Installers : ~installs[c].locked

(* The two statements of the code that a crash or a disk error refutes:    *)
(* what an app holds was approved for it (install-records.ts), and an      *)
(* environment in use was written by one build.                            *)
ApprovalsNeverMove == listed \in Sources => record.approved \in {listed, Nobody}
OneBuildAtATime == prep = "ready" => ~venv.mixed
=============================================================================
