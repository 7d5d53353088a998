----------------------------- MODULE LayerManager -----------------------------
(***************************************************************************)
(* The layers of one experience (packages/sdk/src/layers.ts).  start and   *)
(* stop return at once; their hooks run one after the other for each layer *)
(* (`settled`), and an activation that was overtaken by a stop or another  *)
(* start sees that its token is old.                                       *)
(***************************************************************************)
EXTENDS Naturals, Sequences, SequencesExt

CONSTANTS
    Layers,
    Required,           \* `required` of a layer, in order
    Exclusive,
    Allowed,
    Persistent,
    MaxRenderFailures,
    MaxJobs             \* bound: activations and stops one layer has pending

VARIABLES
    layers,             \* the entries of the manager
    suspended,
    stopAll             \* a stopAll that waits, and what it still waits for

layerVars == <<layers, suspended, stopAll>>

\* What `settled` still has to do; `current` is whether an activation's token
\* is the entry's.
Job == [what : {"activate", "stop"}, current : BOOLEAN]

Entry ==
    [running : BOOLEAN, ready : BOOLEAN, preloaded : BOOLEAN,
     jobs : Seq(Job),
     at : {"idle", "preload", "start", "stop"},     \* the hook of the first job
     held : 0..2,       \* start hooks called whose stop hook has not returned
     hidden : BOOLEAN,  \* the last of its suspend and resume hooks was suspend
     failures : 0..MaxRenderFailures]

NoStopAll == [waits |-> FALSE]
StopAll == [waits : {TRUE}, left : [Layers -> Nat], undisturbed : BOOLEAN]

LayersTypeOK ==
    /\ layers \in [Layers -> Entry]
    /\ \A l \in Layers : Len(layers[l].jobs) <= MaxJobs + 1
    /\ suspended \in BOOLEAN
    /\ stopAll \in StopAll \union {NoStopAll}

LayersInit ==
    /\ layers = [l \in Layers |->
            [running |-> FALSE, ready |-> FALSE, preloaded |-> FALSE, jobs |-> <<>>,
             at |-> "idle", held |-> 0, hidden |-> FALSE, failures |-> 0]]
    /\ suspended = FALSE
    /\ stopAll = NoStopAll

-----------------------------------------------------------------------------
Stale(jobs) == [i \in DOMAIN jobs |-> [jobs[i] EXCEPT !.current = FALSE]]

StopEntry_StopsTwice(entry) ==
    IF ~entry.running THEN entry
    ELSE [entry EXCEPT
            !.running = FALSE, !.ready = FALSE,
            !.jobs = Append(Stale(@), [what |-> "stop", current |-> FALSE])]

\* A layer that is not ready stops itself once its start hook returns.
StopEntry(entry) ==
    IF ~entry.running THEN entry
    ELSE [entry EXCEPT
            !.running = FALSE, !.ready = FALSE,
            !.jobs = IF entry.ready
                     THEN Append(Stale(@), [what |-> "stop", current |-> FALSE])
                     ELSE Stale(@)]

StartEntry(entry) ==
    IF entry.running THEN entry
    ELSE [entry EXCEPT !.running = TRUE, !.ready = FALSE,
                       !.jobs = Append(Stale(@), [what |-> "activate", current |-> TRUE])]

Keep(l) == {l} \union Allowed[l] \union ToSet(Required[l])

\* What starting l first stops.
MakeRoom(l, ls) ==
    IF l \notin Exclusive THEN ls
    ELSE [o \in Layers |-> IF o \in Persistent \union Keep(l) THEN ls[o]
                           ELSE StopEntry(ls[o])]

\* Start l and, before it, the layers it requires.
RECURSIVE Started(_, _)
Started(l, ls) ==
    LET others == FoldLeft(LAMBDA s, r : IF r = l \/ s[r].running THEN s ELSE Started(r, s),
                           MakeRoom(l, ls), Required[l])
    IN [others EXCEPT ![l] = StartEntry(@)]

Start(l) ==
    /\ \A o \in Layers : Len(layers[o].jobs) < MaxJobs
    /\ layers' = Started(l, layers)
    /\ stopAll' = IF stopAll = NoStopAll THEN stopAll
                  ELSE [stopAll EXCEPT !.undisturbed = FALSE]
    /\ UNCHANGED suspended

Stop(l, force) ==
    /\ layers[l].running
    /\ l \in Persistent => force
    /\ layers' = [layers EXCEPT ![l] = StopEntry(@)]
    /\ UNCHANGED <<suspended, stopAll>>

StopAllLayers ==
    /\ stopAll = NoStopAll
    /\ layers' = [l \in Layers |-> StopEntry(layers[l])]
    /\ stopAll' = [waits |-> TRUE, undisturbed |-> TRUE,
                   left |-> [l \in Layers |-> Len(layers'[l].jobs)]]
    /\ UNCHANGED suspended

StopAllReturns ==
    /\ stopAll # NoStopAll
    /\ \A l \in Layers : stopAll.left[l] = 0
    /\ stopAll' = NoStopAll
    /\ UNCHANGED <<layers, suspended>>

\* suspend and resume tell the layers that render.
Suspend(on) ==
    /\ suspended # on
    /\ suspended' = on
    /\ layers' = [l \in Layers |-> IF layers[l].ready THEN [layers[l] EXCEPT !.hidden = on]
                                   ELSE layers[l]]
    /\ UNCHANGED stopAll

-----------------------------------------------------------------------------
\* One frame, seen by one layer.  Too many failures in a row stop it.
Render(l, ok) ==
    /\ ~suspended /\ layers[l].ready
    /\ LET failures == IF ok THEN 0 ELSE layers[l].failures + 1
           entry == [layers[l] EXCEPT !.failures = failures]
       IN layers' = [layers EXCEPT ![l] = IF ~ok /\ failures >= MaxRenderFailures
                                          THEN StopEntry(entry) ELSE entry]
    /\ UNCHANGED <<suspended, stopAll>>

Job1(l) == layers[l].jobs[1]
HookIs(l, hook) == layers[l].jobs # <<>> /\ layers[l].at = hook

Update(l, entry) ==
    /\ layers' = [layers EXCEPT ![l] = entry]
    /\ UNCHANGED <<suspended, stopAll>>

\* The first job is over, which settles one more of the promises stopAll waits
\* for.
Settle(l, entry) ==
    /\ layers' = [layers EXCEPT ![l] = [entry EXCEPT !.jobs = Tail(@), !.at = "idle"]]
    /\ stopAll' = IF stopAll = NoStopAll THEN stopAll
                  ELSE [stopAll EXCEPT !.left[l] = IF @ = 0 THEN 0 ELSE @ - 1]
    /\ UNCHANGED suspended

CallStart(entry) == [entry EXCEPT !.at = "start", !.held = @ + 1]

\* An activation that failed and is still current ends the run.
Abandon(entry) ==
    IF entry.jobs[1].current
    THEN [entry EXCEPT !.running = FALSE, !.jobs = Stale(@)]
    ELSE entry

\* What came before has settled.
Activate(l) ==
    /\ HookIs(l, "idle") /\ Job1(l).what = "activate"
    /\ IF ~Job1(l).current THEN Settle(l, layers[l])
       ELSE \/ Settle(l, Abandon(layers[l]))        \* create threw
            \/ Update(l, IF layers[l].preloaded THEN CallStart(layers[l])
                         ELSE [layers[l] EXCEPT !.at = "preload"])

Preloaded(l) ==
    /\ HookIs(l, "preload")
    /\ LET entry == [layers[l] EXCEPT !.preloaded = TRUE]
       IN IF Job1(l).current THEN Update(l, CallStart(entry)) ELSE Settle(l, entry)

PreloadFails(l) ==
    /\ HookIs(l, "preload")
    /\ Settle(l, Abandon(layers[l]))

StartReturns_Anyway(l) ==
    /\ HookIs(l, "start")
    /\ Settle(l, [layers[l] EXCEPT !.ready = TRUE, !.failures = 0, !.hidden = suspended])

StartReturns(l) ==
    /\ HookIs(l, "start")
    /\ IF Job1(l).current
       THEN Settle(l, [layers[l] EXCEPT !.ready = TRUE, !.failures = 0, !.hidden = suspended])
       ELSE Update(l, [layers[l] EXCEPT !.at = "stop"])

\* A start that threw may have acquired something: its stop hook runs too.
StartThrows(l) ==
    /\ HookIs(l, "start")
    /\ Update(l, [Abandon(layers[l]) EXCEPT !.at = "stop"])

RunStop(l) ==
    /\ HookIs(l, "idle") /\ Job1(l).what = "stop"
    /\ Update(l, [layers[l] EXCEPT !.at = "stop"])

StopReturns(l) ==
    /\ HookIs(l, "stop")
    /\ Settle(l, [layers[l] EXCEPT !.held = @ - 1])

Hook(l) == \/ Activate(l) \/ Preloaded(l) \/ PreloadFails(l)
           \/ StartReturns(l) \/ StartThrows(l) \/ RunStop(l) \/ StopReturns(l)

LayerCommands ==
    \/ \E l \in Layers : Start(l) \/ \E force \in BOOLEAN : Stop(l, force)
    \/ StopAllLayers

LayersNext ==
    \/ LayerCommands
    \/ \E on \in BOOLEAN : Suspend(on)
    \/ \E l \in Layers, ok \in BOOLEAN : Render(l, ok)
    \/ \E l \in Layers : Hook(l)
    \/ StopAllReturns

LayersSpec == LayersInit /\ [][LayersNext]_layerVars

\* Hooks return; nothing is assumed of who starts and stops layers.
LayersFairSpec ==
    /\ LayersSpec
    /\ \A l \in Layers : WF_layerVars(Hook(l))
    /\ WF_layerVars(StopAllReturns)

-----------------------------------------------------------------------------
(* Properties.                                                             *)

\* However starts and stops overlap, the hooks of a layer take turns: a start
\* hook runs only when every earlier one has been stopped, and a layer that
\* renders holds what one start hook acquired ("`stop` is still called so the
\* layer can release what it acquired", layers.ts:13).
HooksTakeTurns ==
    \A l \in Layers :
        /\ layers[l].held <= 1
        /\ layers[l].ready => layers[l].running /\ layers[l].held = 1 /\ layers[l].jobs = <<>>
        /\ layers[l].jobs = <<>> /\ ~layers[l].ready =>
               ~layers[l].running /\ layers[l].held = 0

\* A layer that renders was last told the truth about the suspension.
RenderingKnowsSuspension ==
    \A l \in Layers : layers[l].ready => layers[l].hidden = suspended

\* stopAll waits for every hook under way: when it returns nothing is held,
\* unless a layer was started meanwhile.
StopAllStopsAll ==
    stopAll # NoStopAll /\ stopAll.undisturbed /\ (\A l \in Layers : stopAll.left[l] = 0)
        => \A l \in Layers : layers[l].held = 0 /\ ~layers[l].running

\* The hooks of every layer take turns, whoever starts and stops it.
LayersTakeTurns == HooksTakeTurns /\ RenderingKnowsSuspension /\ StopAllStopsAll

\* Once nobody starts and stops layers any more, each comes to rest with its
\* last start or stop done; and stopAll returns, whatever is started meanwhile.
LayersComeToRest ==
    <>[][~LayerCommands]_layerVars =>
        <>[](\A l \in Layers : layers[l].jobs = <<>> /\ layers[l].running = layers[l].ready)
StopAllReturned == ~stopAll.waits
LayersSettle == LayersComeToRest /\ []<>StopAllReturned
=============================================================================
