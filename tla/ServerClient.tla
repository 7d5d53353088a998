----------------------------- MODULE ServerClient -----------------------------
(***************************************************************************)
(* The WebSocket client every other process uses (shared/client.ts) and    *)
(* the gateway it talks to (server/ipc/gateway.ts), for one client: the    *)
(* connection with its reconnects, the event subscriptions, and one        *)
(* retained resource (a driver subscription of the SDK), whose acquires    *)
(* and releases are queued and belong to one connection each.              *)
(*                                                                         *)
(* Callbacks of a socket the client gave up are ignored by the code        *)
(* (`socket === this.socket`); a connection is therefore one place, not a  *)
(* set of sockets.  What the server still does for a connection that is    *)
(* gone is in DriverSystem.                                                *)
(***************************************************************************)
EXTENDS Naturals, Sequences

CONSTANTS
    Events,             \* event names a client may listen to
    Uses,               \* bound: what a client uses in one behaviour, sets of
                        \* "events" and "resource", which share only the connection
    Denied,             \* the events its token may not subscribe to
    MaxHolds,           \* bound: Holding objects created for the key
    MaxShare,           \* bound: holders that share a Holding
    MaxConnections,     \* bound: connections the server welcomes
    MaxMessages         \* bound: messages on their way when a listener comes or goes

VARIABLES
    uses,           \* a member of Uses
    status,         \* currentStatus
    closed,         \* close() was called
    link,           \* the socket: none, unwelcomed, up, or lost without the client knowing
    timer,          \* reconnectTimer is set
    generation,
    listeners,      \* event names with a listener
    holds,          \* the Holding objects, in the order they were created
    holding,        \* the one in this.holdings, 0 for none
    ops,            \* retainQueues: queued acquires and releases
    pending,        \* the first of them waits for the reply to its request
    toServer, toClient,
    subscriptions,  \* the server's subscriptions of this connection
    leases,         \* the server's leases of this connection: the acquires that took them
    handlers,       \* the server's commands in progress
    lateLease       \* a lease was taken for a request that had timed out

clientVars == <<uses, status, closed, link, timer, generation, listeners, holds, holding, ops,
                pending, toServer, toClient, subscriptions, leases, handlers, lateLease>>
connVars == <<uses, status, closed, link, timer, generation>>
holdVars == <<holds, holding, ops, pending>>
serverVars == <<subscriptions, leases, handlers, lateLease>>

Ops == [op : {"acquire", "release"}, hold : 1..MaxHolds, gen : 1..MaxConnections]

ClientTypeOK ==
    /\ uses \in Uses
    /\ status \in {"disconnected", "connecting", "connected"}
    /\ link \in {"none", "new", "up", "lost"}
    /\ {closed, timer, pending, lateLease} \subseteq BOOLEAN
    /\ generation \in 0..MaxConnections
    /\ listeners \subseteq Events /\ subscriptions \subseteq Events \ Denied
    /\ holds \in Seq([count : 0..MaxShare, acquiredIn : 0..MaxConnections,
                      tried : 0..MaxConnections, granted : 0..MaxConnections,
                      ready : {"open", "resolved", "rejected"}])
    /\ Len(holds) <= MaxHolds /\ holding \in 0..Len(holds)
    /\ ops \in Seq(Ops)
    /\ leases \subseteq Ops
    /\ handlers \subseteq [cmd : Ops, at : {"waiting", "leased", "done"}]

ClientInit ==
    /\ uses \in Uses
    /\ status = "disconnected" /\ closed = TRUE /\ link = "none" /\ timer = FALSE
    /\ generation = 0 /\ listeners = {} /\ holds = <<>> /\ holding = 0
    /\ ops = <<>> /\ pending = FALSE /\ toServer = <<>> /\ toClient = <<>>
    /\ subscriptions = {} /\ leases = {} /\ handlers = {} /\ lateLease = FALSE

-----------------------------------------------------------------------------
(* What a request and an operation on the queue are.                       *)

Connected == status = "connected"

\* request() writes to the socket; what is written to a lost one is lost.
Sent(messages) == IF link = "up" THEN toServer \o messages ELSE toServer

SendSubscription(type, events) ==
    toServer' = IF Connected THEN Sent(<<[type |-> type, events |-> events]>>) ELSE toServer

Acquire(h, gen) == [op |-> "acquire", hold |-> h, gen |-> gen]

\* acquire() and release() look again when their turn comes.
Due_AnyConnection(o) ==
    IF o.op = "acquire"
    THEN holding = o.hold /\ holds[o.hold].acquiredIn # o.gen
    ELSE holds[o.hold].acquiredIn = o.gen

Due(o) ==
    /\ generation = o.gen
    /\ IF o.op = "acquire"
       THEN holding = o.hold /\ holds[o.hold].acquiredIn # o.gen
       ELSE holds[o.hold].acquiredIn = o.gen

Settled(h, how) == IF h.ready = "open" THEN [h EXCEPT !.ready = how] ELSE h

-----------------------------------------------------------------------------
(* Holding a resource.                                                     *)

\* Not in the code: the connections it was last tried and granted on.
NewHold == [count |-> 1, acquiredIn |-> 0, tried |-> 0, granted |-> 0,
            ready |-> "open"]

Retain ==
    \/ /\ holding # 0 /\ holds[holding].count < MaxShare
       /\ holds' = [holds EXCEPT ![holding].count = @ + 1]
       /\ UNCHANGED <<holding, ops>>
    \/ /\ holding = 0 /\ Len(holds) < MaxHolds
       /\ holds' = Append(holds, NewHold)
       /\ holding' = Len(holds')
       /\ ops' = IF Connected THEN Append(ops, Acquire(Len(holds'), generation)) ELSE ops

RetainResource ==
    /\ "resource" \in uses
    /\ Retain
    /\ UNCHANGED <<connVars, listeners, pending, toServer, toClient, serverVars>>

\* RetainedResource.release: the last holder to leave releases the resource.
Release ==
    /\ holding # 0
    /\ holds' = [holds EXCEPT ![holding].count = @ - 1]
    /\ IF holds[holding].count > 1 THEN UNCHANGED <<holding, ops>>
       ELSE /\ holding' = 0
            /\ ops' = IF Connected
                      THEN Append(ops, [Acquire(holding, generation) EXCEPT !.op = "release"])
                      ELSE ops
    /\ UNCHANGED <<connVars, listeners, pending, toServer, toClient, serverVars>>

\* The next operation on the queue runs: skipped, sent, or refused by
\* request() because the client is not connected.
RunOp ==
    /\ ops # <<>> /\ ~pending
    /\ LET o == Head(ops) IN
       IF Due(o) /\ Connected
       THEN /\ pending' = TRUE
            /\ toServer' = Sent(<<[type |-> "command", cmd |-> o]>>)
            /\ holds' = IF o.op = "acquire"
                        THEN [holds EXCEPT ![o.hold].tried = o.gen] ELSE holds
            /\ UNCHANGED ops
       ELSE /\ ops' = Tail(ops)
            /\ UNCHANGED <<pending, toServer, holds>>
    /\ UNCHANGED <<connVars, listeners, holding, toClient, serverVars>>

\* The end of the operation that waits: the reply, its timeout, or the end of
\* the connection, which another connection makes up for.
Finish_ForgetsTimeout(how) ==
    LET o == Head(ops) IN
    /\ pending' = FALSE
    /\ ops' = Tail(ops)
    /\ holds' =
         CASE o.op = "release" \/ how = "closed" -> holds
           [] o.op = "acquire" /\ how = "ok" ->
                [holds EXCEPT ![o.hold] =
                    [Settled(@, "resolved") EXCEPT !.acquiredIn = o.gen, !.granted = o.gen]]
           [] OTHER -> [holds EXCEPT ![o.hold] = Settled(@, "rejected")]

Finish(how) ==
    LET o == Head(ops) IN
    /\ pending' = FALSE
    /\ ops' = Tail(ops)
    /\ holds' =
         CASE o.op = "release" \/ how = "closed" -> holds
           [] o.op = "acquire" /\ how = "ok" ->
                [holds EXCEPT ![o.hold] =
                    [Settled(@, "resolved") EXCEPT !.acquiredIn = o.gen, !.granted = o.gen]]
           [] o.op = "acquire" /\ how = "timeout" ->
                [holds EXCEPT ![o.hold] = [Settled(@, "rejected") EXCEPT !.acquiredIn = o.gen]]
           [] OTHER -> [holds EXCEPT ![o.hold] = Settled(@, "rejected")]

RequestTimesOut ==
    /\ pending
    /\ Finish("timeout")
    /\ UNCHANGED <<connVars, listeners, holding, toServer, toClient, serverVars>>

-----------------------------------------------------------------------------
(* Listening to events.                                                    *)

Listen(e) ==
    /\ "events" \in uses
    /\ e \notin listeners /\ Len(toServer) < MaxMessages
    /\ listeners' = listeners \cup {e}
    /\ SendSubscription("subscribe", {e})
    /\ UNCHANGED <<connVars, holdVars, toClient, serverVars>>

Unlisten(e) ==
    /\ e \in listeners /\ Len(toServer) < MaxMessages
    /\ listeners' = listeners \ {e}
    /\ SendSubscription("unsubscribe", {e})
    /\ UNCHANGED <<connVars, holdVars, toClient, serverVars>>

-----------------------------------------------------------------------------
(* The connection.                                                         *)

\* The server's onClose: subscriptions and leases of the connection go.
ServerForgets ==
    /\ toServer' = <<>>
    /\ subscriptions' = {} /\ leases' = {} /\ handlers' = {}
    /\ UNCHANGED lateLease

Connect ==
    /\ closed
    /\ closed' = FALSE
    /\ IF link # "none" \/ timer THEN UNCHANGED <<status, link>>
       ELSE status' = "connecting" /\ link' = "new"
    /\ UNCHANGED <<uses, timer, generation, listeners, holdVars, toServer, toClient, serverVars>>

\* close(): pending requests reject.
Close ==
    /\ ~closed
    /\ closed' = TRUE
    /\ timer' = FALSE
    /\ link' = "none"
    /\ status' = "disconnected"
    /\ toClient' = <<>>
    /\ ServerForgets
    /\ IF pending THEN Finish("closed") ELSE UNCHANGED <<holds, ops, pending>>
    /\ UNCHANGED <<uses, generation, listeners, holding>>

ReconnectTimer ==
    /\ timer
    /\ timer' = FALSE
    /\ status' = "connecting" /\ link' = "new"
    /\ UNCHANGED <<uses, closed, generation, listeners, holdVars, toServer, toClient, serverVars>>

\* handleWelcome: the status listeners run before the holdings are acquired
\* again, and one of them may retain the resource itself.
Welcomed(retains) ==
    /\ link = "new" /\ generation < MaxConnections
    /\ link' = "up" /\ status' = "connected"
    /\ generation' = generation + 1
    /\ toServer' = IF listeners = {} THEN <<>>
                   ELSE <<[type |-> "subscribe", events |-> listeners]>>
    /\ IF retains
       THEN /\ "resource" \in uses
            /\ holding = 0 /\ Len(holds) < MaxHolds
            /\ holds' = Append(holds, NewHold)
            /\ holding' = Len(holds')
            /\ ops' = ops \o <<Acquire(holding', generation'), Acquire(holding', generation')>>
       ELSE /\ ops' = IF holding = 0 THEN ops ELSE Append(ops, Acquire(holding, generation'))
            /\ UNCHANGED <<holds, holding>>
    /\ UNCHANGED <<uses, closed, timer, listeners, pending, toClient, serverVars>>

\* The connection breaks; the client may go on using it until it notices.
ConnectionLost ==
    /\ link \in {"new", "up"}
    /\ link' = "lost"
    /\ ServerForgets
    /\ UNCHANGED <<uses, status, closed, timer, generation, listeners, holdVars, toClient>>

\* handleClose and scheduleReconnect.
HandleClose ==
    /\ link = "lost"
    /\ link' = "none" /\ status' = "disconnected" /\ timer' = TRUE
    /\ toClient' = <<>>
    /\ IF pending THEN Finish("closed") ELSE UNCHANGED <<holds, ops, pending>>
    /\ UNCHANGED <<uses, closed, generation, listeners, holding, toServer, serverVars>>

\* handleResponse: only the request that still waits is answered.
HandleResponse ==
    /\ toClient # <<>>
    /\ toClient' = Tail(toClient)
    /\ IF pending /\ Head(toClient).cmd = Head(ops)
       THEN Finish(Head(toClient).how) ELSE UNCHANGED <<holds, ops, pending>>
    /\ UNCHANGED <<connVars, listeners, holding, toServer, serverVars>>

-----------------------------------------------------------------------------
(* The server.                                                             *)

\* handleSubscription: the allowed events of a batch apply, even when others
\* are denied.
Subscribed_AllOrNone(events) ==
    IF events \cap Denied = {} THEN subscriptions \cup events ELSE subscriptions

Subscribed(events) == subscriptions \cup (events \ Denied)

\* onMessage up to the handler's first await.
OnMessage ==
    /\ link = "up" /\ toServer # <<>>
    /\ toServer' = Tail(toServer)
    /\ LET m == Head(toServer) IN
       CASE m.type = "subscribe" ->
              subscriptions' = Subscribed(m.events) /\ UNCHANGED <<leases, handlers>>
         [] m.type = "unsubscribe" ->
              subscriptions' = subscriptions \ m.events /\ UNCHANGED <<leases, handlers>>
         [] m.type = "command" /\ m.cmd.op = "acquire" ->
              /\ handlers' = handlers \cup {[cmd |-> m.cmd, at |-> "waiting"]}
              /\ UNCHANGED <<subscriptions, leases>>
         [] OTHER ->
              /\ handlers' = handlers \cup {[cmd |-> m.cmd, at |-> "done"]}
              /\ leases' = IF leases = {} THEN {} ELSE leases \ {CHOOSE l \in leases : TRUE}
              /\ UNCHANGED subscriptions
    /\ UNCHANGED <<connVars, listeners, holdVars, toClient, lateLease>>

\* DriverHub.subscribe waits for the app's environment and the bridge before
\* the manager takes the lease; unsubscribe waits for nothing.
TakeLease(h) ==
    /\ h.at = "waiting"
    /\ handlers' = (handlers \ {h}) \cup {[h EXCEPT !.at = "leased"]}
    /\ leases' = leases \cup {h.cmd}
    /\ lateLease' = (lateLease \/ ~(pending /\ Head(ops) = h.cmd))
    /\ UNCHANGED <<connVars, listeners, holdVars, toServer, toClient, subscriptions>>

Answer(h, how) ==
    /\ handlers' = handlers \ {h}
    /\ toClient' = Append(toClient, [cmd |-> h.cmd, how |-> how])
    /\ UNCHANGED <<connVars, listeners, holdVars, toServer, subscriptions, lateLease>>

CommandDone(h) ==
    /\ h.at # "waiting"
    /\ Answer(h, "ok")
    /\ UNCHANGED leases

\* The token may not, the driver does not start: no lease stays.
CommandFails(h) ==
    /\ h.cmd.op = "acquire"
    /\ Answer(h, "error")
    /\ leases' = leases \ {h.cmd}

-----------------------------------------------------------------------------
ServerSteps ==
    \/ OnMessage
    \/ \E h \in handlers : TakeLease(h) \/ CommandDone(h) \/ CommandFails(h)

ClientProgress == RunOp \/ RequestTimesOut \/ HandleResponse \/ HandleClose \/ ReconnectTimer
                  \/ OnMessage

ClientNext ==
    \/ RetainResource \/ Release
    \/ \E e \in Events : Listen(e) \/ Unlisten(e)
    \/ Connect \/ Close \/ ConnectionLost
    \/ \E retains \in BOOLEAN : Welcomed(retains)
    \/ \E h \in handlers : TakeLease(h) \/ CommandDone(h) \/ CommandFails(h)
    \/ ClientProgress

ClientSpec == ClientInit /\ [][ClientNext]_clientVars

\* Timers fire, a lost connection is noticed, queued work runs, and a client
\* that tries again and again reaches the server.
ClientFairSpec == ClientSpec /\ WF_clientVars(ClientProgress) /\ SF_clientVars(Welcomed(FALSE))

-----------------------------------------------------------------------------
(* Properties.                                                             *)

AtRest ==
    /\ Connected /\ link = "up"
    /\ ops = <<>> /\ toServer = <<>> /\ handlers = {}

\* Whatever connections were lost and whatever was held and released in the
\* meantime: when nothing is on its way, the server subscribes this connection
\* to exactly the allowed events that have a listener, ...
SubscriptionsFollowListeners == AtRest => subscriptions = listeners \ Denied

\* ... every hold was acquired, or tried, on this very connection, and what
\* the server granted it still holds, once.
HoldsAreLeased ==
    AtRest /\ holding # 0 =>
        /\ holds[holding].tried = generation
        /\ holds[holding].granted = generation => leases # {}

\* A lease without a holder is one that the server took after the client had
\* stopped waiting for it, see NoLeaseWithoutHolder.
NoLeaseWithoutHolderElsewhere ==
    AtRest /\ ~lateLease => \A l \in leases : leases = {l} /\ holding # 0

\* "The server may still have finished it, so a release must still undo it"
\* (client.ts:376).
NoLeaseWithoutHolder == AtRest /\ holding = 0 => leases = {}

ServerKnowsClient ==
    SubscriptionsFollowListeners /\ HoldsAreLeased /\ NoLeaseWithoutHolderElsewhere

\* `ready` settles with the first attempt, unless the hold is released first
\* or the client closed.
HoldSettled ==
    \/ holding = 0 \/ closed
    \/ holds[holding].ready # "open"
    \/ ~Connected /\ generation = MaxConnections
HoldsSettle == []<>HoldSettled
=============================================================================
