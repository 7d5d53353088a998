------------------------------ MODULE LiveValues ------------------------------
(***************************************************************************)
(* A value of the server (the settings of an app, server/apps/settings.ts) *)
(* and the two caches that follow it with a load and with events: the      *)
(* dashboard's dialog (renderer/lib/server-resource.ts), and the onChange  *)
(* listeners of the app's page (sdk/settings.ts).  Each has its connection *)
(* (shared/client.ts), which breaks and comes back.  The server answers    *)
(* messages in order, and does not echo a change to the client that made   *)
(* it.                                                                     *)
(***************************************************************************)
EXTENDS Naturals, Sequences, SequencesExt

CONSTANTS
    Values,             \* what the settings can be
    MaxChanges,         \* bound: changes of the value
    MaxDrops,           \* bound: broken connections
    MaxRequests         \* bound: requests on their way when a view comes or goes

VARIABLES
    value,              \* the stored settings, merged with the defaults
    changes, drops,
    conn,               \* the clients' connections: up, lost (unnoticed), down
    toSrv, fromSrv,     \* messages on each connection
    subscribed,         \* connections the server sends changes to
    missed,             \* see StaysCurrent
    dialog,             \* ServerResource
    page                \* serverSettingsBackend

liveVars == <<value, changes, drops, conn, toSrv, fromSrv, subscribed, missed, dialog, page>>
netVars == <<value, changes, drops, conn, fromSrv, subscribed, missed>>

Views == {"dialog", "page"}
None == "none"

\* A pending load is dropped when the version it started from is not current
\* any more; `current` says that for each, in the order they were requested.
\* The page's loads also say whether they announce.  Not in the code: ownSet,
\* the page knows of a set of its own that is newer than what it heard.
Closed == [open |-> FALSE, data |-> None, loading |-> FALSE, queued |-> <<>>,
           loads |-> <<>>, saves |-> <<>>]
Released == [open |-> FALSE, last |-> None, heard |-> None, ownSet |-> FALSE, loads |-> <<>>]

LiveTypeOK ==
    /\ value \in Values /\ changes \in 0..MaxChanges /\ drops \in 0..MaxDrops
    /\ conn \in [Views -> {"up", "lost", "down"}]
    /\ subscribed \subseteq Views /\ missed \subseteq Views
    /\ dialog.data \in Values \cup {None} /\ dialog.queued \in Seq(Values)
    /\ dialog.loads \in Seq(BOOLEAN) /\ dialog.saves \in Seq(BOOLEAN)
    /\ {dialog.open, dialog.loading, page.open, page.ownSet} \subseteq BOOLEAN
    /\ {page.last, page.heard} \subseteq Values \cup {None}
    /\ page.loads \in Seq([current : BOOLEAN, announce : BOOLEAN])

LiveInit ==
    /\ value \in Values /\ changes = 0 /\ drops = 0
    /\ conn = [c \in Views |-> "up"]
    /\ toSrv = [c \in Views |-> <<>>] /\ fromSrv = [c \in Views |-> <<>>]
    /\ subscribed = {} /\ missed = {}
    /\ dialog = Closed /\ page = Released

-----------------------------------------------------------------------------
(* Messages.                                                               *)

Msg(type) == [type |-> type, value |-> None]

Request(c, messages) ==
    toSrv' = IF conn[c] = "up" THEN [toSrv EXCEPT ![c] = @ \o messages] ELSE toSrv

\* Room for another view to come or go.
Calm(c) == Len(toSrv[c]) < MaxRequests /\ Len(fromSrv[c]) < MaxRequests

\* Bound: a view reopens after what was sent before it closed has arrived.  (An
\* event of before that comes after the load was requested counts as newer than
\* what the load finds.)
Arrived(c) ==
    \/ conn[c] = "down"
    \/ conn[c] = "up" /\ toSrv[c] = <<>> /\ fromSrv[c] = <<>>

-----------------------------------------------------------------------------
(* The dialog's ServerResource.                                            *)

Dropped(loads) == [i \in DOMAIN loads |-> FALSE]

\* reload(): a new version, and a load of it.
Reload(d) == [d EXCEPT !.loading = TRUE, !.loads = Append(Dropped(@), TRUE)]

\* replayQueued: every event carries the whole value.
Replayed(d, loaded) == IF d.queued = <<>> THEN loaded ELSE Last(d.queued)

DialogLoaded(d, v) ==
    IF Head(d.loads)
    THEN [d EXCEPT !.data = Replayed(d, v), !.queued = <<>>, !.loading = FALSE,
                   !.loads = Tail(@)]
    ELSE [d EXCEPT !.loads = Tail(@)]

\* set(): what a save returned replaces the value and everything older.
DialogSaved(d, v) ==
    IF Head(d.saves)
    THEN [d EXCEPT !.data = v, !.queued = <<>>, !.loading = FALSE,
                   !.loads = Dropped(@), !.saves = Tail(@)]
    ELSE [d EXCEPT !.saves = Tail(@)]

DialogEvent_Dropped(d, v) ==
    IF ~d.open THEN d
    ELSE [d EXCEPT !.data = v, !.loads = Dropped(@)]

DialogEvent(d, v) ==
    CASE ~d.open -> d
      [] d.open /\ d.loading -> [d EXCEPT !.queued = Append(@, v)]
      [] OTHER -> [d EXCEPT !.data = v, !.loads = Dropped(@)]

\* The connection ended: the pending requests reject.
DialogLost(d) ==
    IF TRUE \in ToSet(d.loads)
    THEN [d EXCEPT !.data = Replayed(d, @), !.queued = <<>>, !.loading = FALSE,
                   !.loads = <<>>, !.saves = <<>>]
    ELSE [d EXCEPT !.loads = <<>>, !.saves = <<>>]

\* Opening the dialog makes a new resource; what the old one waits for is its
\* own business.
OpenDialog ==
    /\ ~dialog.open /\ Arrived("dialog")
    /\ Request("dialog", <<Msg("subscribe"), Msg("load")>>)
    /\ LET d == [dialog EXCEPT !.open = TRUE] IN
       dialog' = IF conn["dialog"] = "down" THEN d ELSE Reload(d)
    /\ UNCHANGED <<netVars, page>>

CloseDialog ==
    /\ dialog.open /\ Calm("dialog")
    /\ Request("dialog", <<Msg("unsubscribe")>>)
    /\ dialog' = [Closed EXCEPT !.loads = Dropped(dialog.loads), !.saves = Dropped(dialog.saves)]
    /\ UNCHANGED <<netVars, page>>

\* The save button, which waits for the save before.
Save(v) ==
    /\ dialog.open /\ dialog.data # None /\ dialog.saves = <<>>
    /\ conn["dialog"] # "down" /\ Calm("dialog") /\ changes < MaxChanges
    /\ Request("dialog", <<[type |-> "set", value |-> v]>>)
    /\ dialog' = [dialog EXCEPT !.saves = <<TRUE>>]
    /\ UNCHANGED <<netVars, page>>

-----------------------------------------------------------------------------
(* The page's settings backend.                                            *)

Load(announce) == [current |-> TRUE, announce |-> announce]
Outdated(loads) == [i \in DOMAIN loads |-> [loads[i] EXCEPT !.current = FALSE]]

\* publish(): listeners are told unless they saw these settings last.
Publish(p, v) ==
    LET q == [p EXCEPT !.loads = Outdated(@)] IN
    IF v = p.last THEN q ELSE [q EXCEPT !.last = v, !.heard = v, !.ownSet = FALSE]

PageLoaded(p, v) ==
    LET l == Head(p.loads)
        q == [p EXCEPT !.loads = Tail(@)] IN
    CASE ~l.current -> q
      [] l.current /\ l.announce -> Publish(q, v)
      [] OTHER -> IF q.last = None THEN [q EXCEPT !.last = v] ELSE q

PageEvent(p, v) == IF p.open THEN Publish(p, v) ELSE p

\* start(): onStatus calls back at once when the client is connected.
OnChange ==
    /\ ~page.open /\ Arrived("page")
    /\ Request("page", <<Msg("subscribe"), Msg("load"), Msg("load")>>)
    /\ page' = [page EXCEPT !.open = TRUE,
                            !.loads = IF conn["page"] = "down" THEN @
                                      ELSE @ \o <<Load(TRUE), Load(FALSE)>>]
    /\ UNCHANGED <<netVars, dialog>>

OffChange ==
    /\ page.open /\ Calm("page")
    /\ Request("page", <<Msg("unsubscribe")>>)
    /\ page' = [Released EXCEPT !.loads = Outdated(page.loads)]
    /\ UNCHANGED <<netVars, dialog>>

Update(v) ==
    /\ conn["page"] # "down" /\ Calm("page") /\ changes < MaxChanges
    /\ Request("page", <<[type |-> "set", value |-> v]>>)
    /\ UNCHANGED <<netVars, dialog, page>>

-----------------------------------------------------------------------------
(* The server and the connections.                                         *)

\* A client that loads before it subscribes can miss what happens in between.
Unseen(c) == {d \in Views \ ({c} \cup subscribed) :
                conn[d] = "up" /\ \E i \in DOMAIN toSrv[d] : toSrv[d][i].type = "subscribe"}

\* The event is emitted before the reply is sent.
Serve(c) ==
    /\ conn[c] = "up" /\ toSrv[c] # <<>>
    /\ toSrv' = [toSrv EXCEPT ![c] = Tail(@)]
    /\ LET m == Head(toSrv[c]) IN
       CASE m.type = "load" ->
              /\ fromSrv' = [fromSrv EXCEPT ![c] =
                               Append(@, [type |-> "loaded", value |-> value])]
              /\ UNCHANGED <<value, changes, subscribed, missed>>
         [] m.type = "subscribe" ->
              /\ subscribed' = subscribed \cup {c}
              /\ UNCHANGED <<value, changes, fromSrv, missed>>
         [] m.type = "unsubscribe" ->
              /\ subscribed' = subscribed \ {c}
              /\ UNCHANGED <<value, changes, fromSrv, missed>>
         [] m.type = "set" /\ changes = MaxChanges ->
              /\ fromSrv' = [fromSrv EXCEPT ![c] =
                               Append(@, [type |-> "saved", value |-> value])]
              /\ UNCHANGED <<value, changes, subscribed, missed>>
         [] OTHER ->
              /\ value' = m.value
              /\ changes' = changes + 1
              /\ fromSrv' = [d \in Views |->
                   CASE d = c -> Append(fromSrv[d], [type |-> "saved", value |-> m.value])
                     [] d \in subscribed \ {c} ->
                          Append(fromSrv[d], [type |-> "event", value |-> m.value])
                     [] OTHER -> fromSrv[d]]
              /\ missed' = missed \cup Unseen(c)
              /\ UNCHANGED subscribed
    /\ UNCHANGED <<drops, conn, dialog, page>>

Receive(c) ==
    /\ conn[c] # "down" /\ fromSrv[c] # <<>>
    /\ fromSrv' = [fromSrv EXCEPT ![c] = Tail(@)]
    /\ LET m == Head(fromSrv[c]) IN
       IF c = "dialog"
       THEN /\ dialog' = CASE m.type = "loaded" -> DialogLoaded(dialog, m.value)
                           [] m.type = "saved" -> DialogSaved(dialog, m.value)
                           [] m.type = "event" -> DialogEvent(dialog, m.value)
            /\ UNCHANGED page
       ELSE /\ page' = CASE m.type = "loaded" -> PageLoaded(page, m.value)
                         [] m.type = "saved" -> [page EXCEPT !.ownSet = page.open]
                         [] m.type = "event" -> PageEvent(page, m.value)
            /\ UNCHANGED dialog
    /\ UNCHANGED <<value, changes, drops, conn, toSrv, subscribed, missed>>

Break(c) ==
    /\ conn[c] = "up" /\ drops < MaxDrops
    /\ conn' = [conn EXCEPT ![c] = "lost"]
    /\ drops' = drops + 1
    /\ toSrv' = [toSrv EXCEPT ![c] = <<>>]
    /\ subscribed' = subscribed \ {c}
    /\ missed' = missed \ {c}
    /\ UNCHANGED <<value, changes, fromSrv, dialog, page>>

Notice(c) ==
    /\ conn[c] = "lost"
    /\ conn' = [conn EXCEPT ![c] = "down"]
    /\ fromSrv' = [fromSrv EXCEPT ![c] = <<>>]
    /\ IF c = "dialog" THEN dialog' = DialogLost(dialog) /\ UNCHANGED page
       ELSE page' = [page EXCEPT !.loads = <<>>] /\ UNCHANGED dialog
    /\ UNCHANGED <<value, changes, drops, toSrv, subscribed, missed>>

\* handleWelcome: the status listeners send their loads before the client
\* subscribes to the events again.
Welcome(c) ==
    /\ conn[c] = "down"
    /\ conn' = [conn EXCEPT ![c] = "up"]
    /\ LET again == <<Msg("load"), Msg("subscribe")>> IN
       IF c = "dialog"
       THEN /\ dialog' = IF dialog.open THEN Reload(dialog) ELSE dialog
            /\ toSrv' = IF dialog.open THEN [toSrv EXCEPT ![c] = again] ELSE toSrv
            /\ UNCHANGED page
       ELSE /\ page' = IF page.open THEN [page EXCEPT !.loads = Append(@, Load(TRUE))] ELSE page
            /\ toSrv' = IF page.open THEN [toSrv EXCEPT ![c] = again] ELSE toSrv
            /\ UNCHANGED dialog
    /\ UNCHANGED <<value, changes, drops, fromSrv, subscribed, missed>>

LiveNext ==
    \/ OpenDialog \/ CloseDialog \/ OnChange \/ OffChange
    \/ \E v \in Values : Save(v) \/ Update(v)
    \/ \E c \in Views : Serve(c) \/ Receive(c) \/ Break(c) \/ Notice(c) \/ Welcome(c)

LiveSpec == LiveInit /\ [][LiveNext]_liveVars

-----------------------------------------------------------------------------
(* Properties.                                                             *)

Quiet(c) == conn[c] = "up" /\ toSrv[c] = <<>> /\ fromSrv[c] = <<>>

\* Once everything in flight has arrived, an open dialog shows what the server
\* has, whatever loads, saves, events and reconnects crossed.
DialogIsCurrent ==
    Quiet("dialog") /\ dialog.open =>
        /\ ~dialog.loading /\ dialog.queued = <<>> /\ dialog.saves = <<>>
        /\ "dialog" \notin missed => dialog.data = value

\* The listeners of the page heard of the current settings, unless the page
\* itself set them.
PageIsCurrent ==
    Quiet("page") /\ page.open =>
        /\ page.loads = <<>>
        /\ "page" \notin missed /\ ~page.ownSet => page.last = value /\ page.heard = value

ViewsAreCurrent == DialogIsCurrent /\ PageIsCurrent

\* "Server data the dashboard shows: loaded with a command, reloaded on every
\* connection, and kept current by server events" (server-resource.ts:2),
\* without the exception.
StaysCurrent ==
    Quiet("dialog") /\ dialog.open => dialog.data = value

\* "Called with the settings, shaped like `get` returns them, each time they
\* change" (sdk/types.ts:203): the listener knows what the page set itself,
\* and must hear of the next change, back to what it heard last.
PageHears ==
    Quiet("page") /\ page.open /\ "page" \notin missed => page.heard = value \/ page.ownSet
=============================================================================
