----------------------------- MODULE ModelFiles -----------------------------
(***************************************************************************)
(* One downloaded model (python/src/gosai_py/runtime/models.py) as the     *)
(* drivers of several processes resolve it: a bridge for the built-in      *)
(* drivers and one for each app share $GOSAI_HOME/models, and two          *)
(* installations of GOSAI may want different versions under one file name. *)
(* Threads of a process take turns by the lock of the file name; processes *)
(* only share the file.  A process may die at any step.                    *)
(***************************************************************************)
EXTENDS Naturals, FiniteSets

CONSTANTS
  Bridges,        \* the processes
  Loaders,        \* driver threads of each
  WantedModel,    \* the sha256 each process declares
  MaxDownloads,   \* bound: downloads
  MaxBridgeDeaths \* bound: deaths of a process

VARIABLES
  target,    \* what $GOSAI_HOME/models/<filename> holds
  holding,   \* the thread with the lock, for each process
  loading,   \* where each thread is
  part,      \* the temp file of each thread
  leftParts, \* temp files of processes that died
  swapped,   \* history: two versions were put in place
  downloads, bridgeDeaths

fileVars == <<target, holding, loading, part, leftParts, swapped, downloads, bridgeDeaths>>

Threads == Bridges \X Loaders
Versions == {WantedModel[p] : p \in Bridges}
Damaged == "damaged"
Free == "free"
NoFile == "none"
Steps == {"idle", "waiting", "checking", "opening", "downloading", "verifying", "replacing",
          "removing", "closing", "failed", "resolved", "loaded"}

FilesTypeOK ==
  /\ target \in Versions \cup {NoFile, Damaged}
  /\ holding \in [Bridges -> Loaders \cup {Free}]
  /\ loading \in [Threads -> [at : Steps, failed : BOOLEAN, got : Versions \cup {NoFile, Damaged}]]
  /\ part \in [Threads -> Versions \cup {NoFile, Damaged, "open"}]
  /\ leftParts \in 0..MaxBridgeDeaths * Cardinality(Loaders)
  /\ swapped \in BOOLEAN
  /\ downloads \in 0..MaxDownloads /\ bridgeDeaths \in 0..MaxBridgeDeaths

IdleThread == [at |-> "idle", failed |-> FALSE, got |-> NoFile]

(* A file of an earlier release or one that a disk damaged may be there.   *)
FilesInit ==
  /\ target \in Versions \cup {NoFile, Damaged}
  /\ holding = [p \in Bridges |-> Free]
  /\ loading = [t \in Threads |-> IdleThread]
  /\ part = [t \in Threads |-> NoFile]
  /\ leftParts = 0 /\ swapped = FALSE /\ downloads = 0 /\ bridgeDeaths = 0

bounds == <<downloads, bridgeDeaths>>
At(t, s) == loading[t].at = s
Goes(t, s) == loading' = [loading EXCEPT ![t].at = s]

Resolve(t) ==
  /\ At(t, "idle") /\ Goes(t, "waiting")
  /\ UNCHANGED <<target, holding, part, leftParts, swapped, bounds>>

\* _download_lock: one lock for a file name in this process.
Lock(t) ==
  /\ At(t, "waiting") /\ holding[t[1]] = Free
  /\ holding' = [holding EXCEPT ![t[1]] = t[2]]
  /\ Goes(t, "checking")
  /\ UNCHANGED <<target, part, leftParts, swapped, bounds>>

Unlocked(t) == holding' = [holding EXCEPT ![t[1]] = Free]

(* _ensure_download: a cached file with the right sha256 is used as it is. *)
CheckCached(t) ==
  /\ At(t, "checking")
  /\ IF target = WantedModel[t[1]]
     THEN Goes(t, "resolved") /\ Unlocked(t)
     ELSE Goes(t, "opening") /\ UNCHANGED holding
  /\ UNCHANGED <<target, part, leftParts, swapped, bounds>>

\* _download: a temp file of this thread's own.
OpenPart(t) ==
  /\ At(t, "opening") /\ downloads < MaxDownloads
  /\ downloads' = downloads + 1
  /\ part' = [part EXCEPT ![t] = "open"]
  /\ Goes(t, "downloading")
  /\ UNCHANGED <<target, holding, leftParts, swapped, bridgeDeaths>>

(* The network gives the model, something else, or an error.               *)
Downloaded(t) ==
  /\ At(t, "downloading")
  /\ \/ Goes(t, "verifying")
        /\ \E content \in {WantedModel[t[1]], Damaged} : part' = [part EXCEPT ![t] = content]
     \/ loading' = [loading EXCEPT ![t].at = "removing", ![t].failed = TRUE] /\ UNCHANGED part
  /\ UNCHANGED <<target, holding, leftParts, swapped, bounds>>

\* Defect: the download is put in place before it is verified.
Verify_Never(t) ==
  /\ At(t, "verifying")
  /\ Goes(t, "replacing")
  /\ UNCHANGED <<target, holding, part, leftParts, swapped, bounds>>

Verify(t) ==
  /\ At(t, "verifying")
  /\ IF part[t] = WantedModel[t[1]]
     THEN Goes(t, "replacing")
     ELSE loading' = [loading EXCEPT ![t].at = "removing", ![t].failed = TRUE]
  /\ UNCHANGED <<target, holding, part, leftParts, swapped, bounds>>

Replace(t) ==
  /\ At(t, "replacing")
  /\ target' = part[t]
  /\ swapped' = (swapped \/ target \in Versions \ {part[t]})
  /\ part' = [part EXCEPT ![t] = NoFile]
  /\ Goes(t, "removing")
  /\ UNCHANGED <<holding, leftParts, bounds>>

(* The temp file goes in any case; then the lock is left.                  *)
RemovePart(t) ==
  /\ At(t, "removing")
  /\ part' = [part EXCEPT ![t] = NoFile]
  /\ Goes(t, IF loading[t].failed THEN "failed" ELSE "resolved")
  /\ Unlocked(t)
  /\ UNCHANGED <<target, leftParts, swapped, bounds>>

(* The driver opens the path it got.                                       *)
Load(t) ==
  /\ At(t, "resolved")
  /\ loading' = [loading EXCEPT ![t].at = "loaded", ![t].got = target]
  /\ UNCHANGED <<target, holding, part, leftParts, swapped, bounds>>

(* The driver stops, or failed to start and is asked for again.            *)
StopLoader(t) ==
  /\ loading[t].at \in {"loaded", "failed"}
  /\ loading' = [loading EXCEPT ![t] = IdleThread]
  /\ UNCHANGED <<target, holding, part, leftParts, swapped, bounds>>

BridgeDies(p) ==
  /\ bridgeDeaths < MaxBridgeDeaths
  /\ bridgeDeaths' = bridgeDeaths + 1
  /\ leftParts' = leftParts + Cardinality({l \in Loaders : part[<<p, l>>] # NoFile})
  /\ part' = [t \in Threads |-> IF t[1] = p THEN NoFile ELSE part[t]]
  /\ loading' = [t \in Threads |-> IF t[1] = p THEN IdleThread ELSE loading[t]]
  /\ holding' = [holding EXCEPT ![p] = Free]
  /\ UNCHANGED <<target, swapped, downloads>>

FilesNext ==
  \/ \E t \in Threads :
       \/ Resolve(t) \/ Lock(t) \/ CheckCached(t) \/ OpenPart(t) \/ Downloaded(t)
       \/ Verify(t) \/ Replace(t) \/ RemovePart(t) \/ Load(t) \/ StopLoader(t)
  \/ \E p \in Bridges : BridgeDies(p)

FilesSpec == FilesInit /\ [][FilesNext]_fileVars

-----------------------------------------------------------------------------
(* A driver loads the model it declares, whatever other threads and        *)
(* processes download meanwhile and wherever they die: the file is only    *)
(* replaced by a verified one, and threads of a process neither download   *)
(* together nor leave a temp file, and a process that dies leaves one at   *)
(* most; unless two versions share the name.                               *)
ModelsAreVerified ==
  /\ \A t \in Threads : At(t, "loaded") /\ ~swapped => loading[t].got = WantedModel[t[1]]
  /\ \A p \in Bridges, l \in Loaders :
       loading[<<p, l>>].at \in {"checking", "opening", "downloading", "verifying", "replacing",
                                 "removing"} <=> holding[p] = l
  /\ \A t \in Threads : At(t, "resolved") \/ At(t, "failed") => part[t] = NoFile
  /\ leftParts <= bridgeDeaths

(* The same with two versions: the path was checked, not what is opened.   *)
LoadsWhatItDeclares ==
  \A t \in Threads : At(t, "loaded") => loading[t].got = WantedModel[t[1]]
=============================================================================
