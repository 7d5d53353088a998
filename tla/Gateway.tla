------------------------------- MODULE Gateway -------------------------------
(***************************************************************************)
(* Who may ask what of the server over a WebSocket, and who hears what:    *)
(* tokens (shared/auth.ts), what an app holds (apps/manager.ts), the grant *)
(* a connection gets when it is opened (access/capabilities.ts, server.ts) *)
(* and the gateway that checks commands and forwards the bus's events      *)
(* (ipc/gateway.ts, ipc/bus.ts, shared/events.ts, shared/commands.ts).     *)
(*                                                                         *)
(* Apps are installed, approved and removed while connections are open and *)
(* commands run.  Capabilities every app has are one, "default".  A name   *)
(* is its parts: app:pool:hit is <<"app", "pool", "hit">>.  Of commands    *)
(* and fixed events there is one for each way of being checked.            *)
(*                                                                         *)
(* The properties are proved at the end of the module.                     *)
(***************************************************************************)
EXTENDS Naturals, Sequences, FiniteSets, TLAPS

CONSTANTS
    Slugs,          \* of apps
    Builtins,       \* those that come with GOSAI
    Manifests,      \* the capabilities a manifest may request
    Conns,          \* connections, each opened once
    Batches,        \* the events of one subscribe or unsubscribe command
    MaxCommands,    \* bound: commands that run at once
    MaxChanges      \* bound: changes to the apps

VARIABLES
    apps,       \* AppManager.catalogue: what each manifest requests
    approved,   \* AppManager.records: approvedCapabilities
    conns,      \* WebSocketGateway.clients, and what each asked to hear
    commands,   \* handlers under way
    changes

gatewayVars == <<apps, approved, conns, commands, changes>>

Nobody == "none"
SystemBinding == "system"
Names == Slugs \union {SystemBinding}

-----------------------------------------------------------------------------
(* Capabilities and tokens.                                                *)

Requestable == {"logs:read", "app-config:write", "calibration:write"}
DashboardOnly == {"apps:manage", "events:wildcard"}
AllCapabilities == {"default"} \union Requestable \union DashboardOnly

Dashboard == [kind |-> "dashboard"]
AppScope == [kind : {"app"}, app : Slugs, binding : Slugs \union {Nobody},
             target : Slugs \union {Nobody}]

\* Tokens are signed with the dashboard token of one launch.
Tokens == [launch : {"this", "other"}, names : AppScope \union {Dashboard}]

MintAppToken(launch, scope) == [launch |-> launch, names |-> scope]

\* The scope of a token, none for one of another launch.
VerifyToken(token) == IF token.launch = "this" THEN {token.names} ELSE {}

Removed == [removed |-> TRUE]
Builtin(s) == [builtin |-> TRUE, requests |-> Requestable]

GrantedCapabilities(s) ==
    IF apps[s] = Removed THEN {}
    ELSE IF apps[s].builtin THEN apps[s].requests
    ELSE apps[s].requests \intersect approved[s]

GrantFor(scope) ==
    [scope |-> scope,
     caps |-> IF scope = Dashboard THEN AllCapabilities
              ELSE {"default"} \union (GrantedCapabilities(scope.app) \ DashboardOnly)]

CanAccessApp(grant, slug) ==
    grant.scope = Dashboard \/ (slug # SystemBinding /\ grant.scope.app = slug)

CanUseBinding(grant, binding) ==
    \/ grant.scope = Dashboard
    \/ binding # SystemBinding /\ binding \in {grant.scope.app, grant.scope.binding}

\* A page on an app's origin may use that app's tokens only.
OriginDenied(origin, scope) ==
    origin # Nobody /\ ~(scope # Dashboard /\ scope.app = origin)

-----------------------------------------------------------------------------
(* Commands.                                                               *)

Command(cap, hasApp, hasBinding, target) ==
    [cap |-> cap, app |-> hasApp, binding |-> hasBinding, target |-> target]

COMMANDS ==
    [list |-> Command("default", FALSE, FALSE, Nobody),
     install |-> Command("apps:manage", FALSE, FALSE, Nobody),
     history |-> Command("logs:read", FALSE, FALSE, Nobody),
     storage |-> Command("default", TRUE, FALSE, Nobody),
     config |-> Command("app-config:write", TRUE, FALSE, "calibration:write"),
     calibration |-> Command("default", TRUE, FALSE, "calibration:write"),
     start |-> Command("default", TRUE, TRUE, Nobody),
     execute |-> Command("default", FALSE, TRUE, Nobody)]

\* What a command touches; a driver command without a binding means "system".
Payloads(name) ==
    [app : IF COMMANDS[name].app THEN Names ELSE {Nobody},
     binding : IF name = "start" THEN Names \union {Nobody}
               ELSE IF COMMANDS[name].binding THEN Names ELSE {Nobody}]

Has(grant, cap) == cap \in grant.caps

ReachesTarget(grant, name, slug) ==
    /\ COMMANDS[name].target # Nobody
    /\ grant.scope # Dashboard /\ grant.scope.target = slug /\ slug # SystemBinding
    /\ Has(grant, COMMANDS[name].target)

CommandDenied_Target(grant, name, payload) ==
    \/ ~Has(grant, COMMANDS[name].cap)
    \/ /\ payload.app # Nobody
       /\ ~CanAccessApp(grant, payload.app)
       /\ ~(COMMANDS[name].target # Nobody /\ grant.scope.target = payload.app)
    \/ payload.binding # Nobody /\ ~CanUseBinding(grant, payload.binding)

CommandDenied(grant, name, payload) ==
    \/ ~Has(grant, COMMANDS[name].cap)
    \/ /\ payload.app # Nobody
       /\ ~CanAccessApp(grant, payload.app)
       /\ ~ReachesTarget(grant, name, payload.app)
    \/ payload.binding # Nobody /\ ~CanUseBinding(grant, payload.binding)

-----------------------------------------------------------------------------
(* Events and subscriptions.                                               *)

EVENTS == [x \in {<<"server", "log">>, <<"system", "stats">>, <<"app", "installed">>,
                  <<"app", "settings-changed">>} |->
            IF x = <<"server", "log">> THEN "logs:read" ELSE "default"]
AboutApp == {<<"app", "settings-changed">>}

DriverEvents == {<<"driver", "event", b>> : b \in Names}
AppEvents == {<<"app", s, "hit">> : s \in Slugs}
Events == DOMAIN EVENTS \union DriverEvents \union AppEvents
Wildcards == {<<"*">>} \union {<<ns, "*">> : ns \in {"app", "driver", "server", "system"}}

IsWildcardEvent(name) == Len(name) <= 2 /\ name[Len(name)] = "*"

\* parseEventName: a fixed name, a driver event of a binding, or an app event.
ParseEventName(name) ==
    IF name \in DOMAIN EVENTS THEN [kind |-> "fixed"]
    ELSE IF name \in DriverEvents THEN [kind |-> "driver", binding |-> name[3]]
    ELSE IF name \in AppEvents THEN [kind |-> "app", slug |-> name[2]]
    ELSE [kind |-> "unknown"]

SubscriptionDenied(grant, name) ==
    IF IsWildcardEvent(name) THEN ~Has(grant, "events:wildcard")
    ELSE LET parsed == ParseEventName(name)
         IN CASE parsed.kind = "fixed" -> ~Has(grant, EVENTS[name])
              [] parsed.kind = "driver" ->
                    ~Has(grant, "default") \/ ~CanUseBinding(grant, parsed.binding)
              [] parsed.kind = "app" ->
                    ~Has(grant, "default") \/ ~CanAccessApp(grant, parsed.slug)
              [] OTHER -> TRUE

\* Three places decide whether a pattern covers an event: the gateway, ...
IsSubscribed_Prefix(subs, event) ==
    event \in subs \/ <<"*">> \in subs \/ \E s \in subs : s[1] = event[1]

IsSubscribed(subs, event) == subs \intersect {event, <<"*">>, <<event[1], "*">>} # {}

\* ... the clients (eventMatches), ...
EventMatches(pattern, event) ==
    \/ pattern \in {<<"*">>, event}
    \/ Len(pattern) = 2 /\ pattern[2] = "*" /\ pattern[1] = event[1]

\* ... and the bus, which looks for the listeners of three patterns.
BusPatterns(event) == <<event, <<event[1], "*">>, <<"*">>>>

\* payloadApps are the apps that a fixed event is about.
CanReceive(grant, event, payloadApps) ==
    \/ grant.scope = Dashboard
    \/ /\ ~SubscriptionDenied(grant, event)
       /\ event \in DOMAIN EVENTS => \A s \in payloadApps : CanAccessApp(grant, s)

-----------------------------------------------------------------------------
(* Connections.                                                            *)

New == [state |-> "new"]
Gone == [state |-> "gone"]

GatewayTypeOK ==
    /\ apps \in [Slugs -> [builtin : BOOLEAN, requests : SUBSET Requestable] \union {Removed}]
    /\ approved \in [Slugs -> SUBSET Requestable]
    /\ \A c \in Conns : conns[c] \in {New, Gone} \/
          /\ conns[c].state = "open"
          /\ conns[c].grant.scope \in AppScope \union {Dashboard}
          /\ conns[c].grant.caps \subseteq AllCapabilities
          /\ conns[c].subs \subseteq conns[c].asked
    /\ changes \in 0..MaxChanges

GatewayInit ==
    /\ apps = [s \in Slugs |-> IF s \in Builtins THEN Builtin(s) ELSE Removed]
    /\ approved = [s \in Slugs |-> {}]
    /\ conns = [c \in Conns |-> New]
    /\ commands = {}
    /\ changes = 0

Open(c) == conns[c].state = "open"

\* The upgrade: the grant is what the app holds now.
Upgrade(c, token, origin) ==
    /\ conns[c] = New
    /\ \E scope \in VerifyToken(token) :
          /\ ~OriginDenied(origin, scope)
          /\ conns' = [conns EXCEPT ![c] =
                [state |-> "open", grant |-> GrantFor(scope), origin |-> origin,
                 subs |-> {}, asked |-> {}]]
    /\ UNCHANGED <<apps, approved, commands, changes>>

\* A refused command, like a malformed one, changes nothing.
RunCommand(c, name, payload) ==
    /\ Open(c)
    /\ ~CommandDenied(conns[c].grant, name, payload)
    /\ Cardinality(commands) < MaxCommands
    /\ commands' = commands \union {[conn |-> c, grant |-> conns[c].grant, name |-> name,
                                     payload |-> payload]}
    /\ UNCHANGED <<apps, approved, conns, changes>>

\* The answer of a connection that is gone goes nowhere.
Respond ==
    /\ \E command \in commands : commands' = commands \ {command}
    /\ UNCHANGED <<apps, approved, conns, changes>>

\* `asked` is what the client wants to hear.
Subscribe_AllOrNothing(c, batch) ==
    /\ Open(c)
    /\ conns' = [conns EXCEPT
          ![c].subs = IF \E e \in batch : SubscriptionDenied(conns[c].grant, e) THEN @
                      ELSE @ \union batch,
          ![c].asked = @ \union batch]
    /\ UNCHANGED <<apps, approved, commands, changes>>

\* The allowed events of a batch are taken even if others are denied.
Subscribe(c, batch) ==
    /\ Open(c)
    /\ conns' = [conns EXCEPT
          ![c].subs = @ \union {e \in batch : ~SubscriptionDenied(conns[c].grant, e)},
          ![c].asked = @ \union batch]
    /\ UNCHANGED <<apps, approved, commands, changes>>

Unsubscribe(c, batch) ==
    /\ Open(c)
    /\ conns' = [conns EXCEPT ![c].subs = @ \ batch, ![c].asked = @ \ batch]
    /\ UNCHANGED <<apps, approved, commands, changes>>

Close(c) ==
    /\ Open(c)
    /\ conns' = [conns EXCEPT ![c] = Gone]
    /\ UNCHANGED <<apps, approved, commands, changes>>

\* deliver: who gets an event of the bus, with the connection whose command
\* caused it.
Deliver(event, about, from) ==
    {c \in Conns : /\ Open(c) /\ c # from
                   /\ IsSubscribed(conns[c].subs, event)
                   /\ CanReceive(conns[c].grant, event, about)}

-----------------------------------------------------------------------------
(* Apps, which the dashboard installs, approves and removes meanwhile.     *)

Installed(s) == apps[s] # Removed /\ ~apps[s].builtin

Change == changes < MaxChanges /\ changes' = changes + 1

InstallFromGit(s, requests, capabilities) ==
    /\ Change
    /\ ~Installed(s)
    /\ apps' = [apps EXCEPT ![s] = [builtin |-> FALSE, requests |-> requests]]
    /\ approved' = [approved EXCEPT ![s] = requests \intersect capabilities]
    /\ UNCHANGED <<conns, commands>>

ApproveCapabilities(s, capabilities) ==
    /\ Change
    /\ Installed(s)
    /\ approved' = [approved EXCEPT ![s] = apps[s].requests \intersect capabilities]
    /\ UNCHANGED <<apps, conns, commands>>

\* The built-in app with the slug is listed again; the record stays.
Uninstall(s) ==
    /\ Change
    /\ Installed(s)
    /\ apps' = [apps EXCEPT ![s] = IF s \in Builtins THEN Builtin(s) ELSE Removed]
    /\ UNCHANGED <<approved, conns, commands>>

GatewayNext ==
    \/ \E c \in Conns, scope \in AppScope \union {Dashboard},
          launch \in {"this", "other"}, origin \in Slugs \union {Nobody} :
          Upgrade(c, MintAppToken(launch, scope), origin)
    \/ \E c \in Conns, name \in DOMAIN COMMANDS : \E payload \in Payloads(name) :
          RunCommand(c, name, payload)
    \/ Respond
    \/ \E c \in Conns, batch \in Batches : Subscribe(c, batch) \/ Unsubscribe(c, batch)
    \/ \E c \in Conns : Close(c)
    \/ \E s \in Slugs, requests \in Manifests, caps \in Manifests :
          InstallFromGit(s, requests, caps)
    \/ \E s \in Slugs, caps \in Manifests : ApproveCapabilities(s, caps)
    \/ \E s \in Slugs : Uninstall(s)

GatewaySpec == GatewayInit /\ [][GatewayNext]_gatewayVars

-----------------------------------------------------------------------------
(* Properties.                                                             *)

\* The gateway, the clients and the bus agree on what a pattern covers.
MatchersAgree ==
    \A p \in Events \union Wildcards, e \in Events :
        /\ IsSubscribed({p}, e) <=> EventMatches(p, e)
        /\ EventMatches(p, e) <=> \E i \in 1..3 : BusPatterns(e)[i] = p

\* Whatever was asked in which batches, a connection holds the subscriptions
\* it asked for and may have: "Allowed events in the same batch still apply"
\* (gateway.ts:210-213).
AllowedPartApplies ==
    \A c \in Conns : Open(c) =>
        conns[c].subs = {e \in conns[c].asked : ~SubscriptionDenied(conns[c].grant, e)}

Own(c) == conns[c].grant.scope.app

\* What happens now would reach an app's window if it asked for it, another
\* caused it and it concerns its own app, the driver binding it was opened
\* with or everyone, and only then.
HearsWhatConcernsIt ==
    \A c \in Conns, event \in Events, from \in Conns \union {Nobody},
       about \in {{}} \union {{s} : s \in Slugs} :
        /\ Open(c) /\ conns[c].grant.scope # Dashboard
        /\ (event \in AboutApp <=> about # {})
        => (c \in Deliver(event, about, from) <=>
              /\ event \in conns[c].asked /\ c # from
              /\ about \subseteq {Own(c)}
              /\ event \in AppEvents => event[2] = Own(c)
              /\ event \in DriverEvents =>
                    event[3] \in {Own(c), conns[c].grant.scope.binding}
              /\ event = <<"server", "log">> => "logs:read" \in conns[c].grant.caps)

\* While a command of an app runs, it touches the app's own things and the
\* binding its window was opened with; and of the app the window was opened
\* for only what calibration writes, if the app held that when it connected.
CommandsStayInReach ==
    \A command \in commands :
        LET scope == command.grant.scope
            touched == {command.payload.app} \ {Nobody}
        IN scope # Dashboard =>
            /\ command.name # "install"
            /\ command.payload.binding \in {Nobody, scope.app, scope.binding}
            /\ touched \subseteq {scope.app, scope.target} \ {Nobody}
            /\ touched # {scope.app} /\ touched # {} =>
                  /\ command.name \in {"config", "calibration"}
                  /\ "calibration:write" \in command.grant.caps

\* A page of an app's origin acts for that app.
PagesActForTheirApp ==
    \A c \in Conns : Open(c) /\ conns[c].origin # Nobody =>
        conns[c].grant.scope # Dashboard /\ Own(c) = conns[c].origin

ConnectionsAreGranted ==
    /\ MatchersAgree
    /\ AllowedPartApplies
    /\ HearsWhatConcernsIt
    /\ CommandsStayInReach
    /\ PagesActForTheirApp

\* What an open connection of an app holds, its app holds.  It fails: the grant
\* of a connection is the one of its upgrade.
RevokedIsRevoked ==
    \A c \in Conns : Open(c) /\ conns[c].grant.scope # Dashboard =>
        conns[c].grant.caps \ {"default"} \subseteq GrantedCapabilities(Own(c))
-----------------------------------------------------------------------------
(* Proofs, for any apps, manifests, connections, batches and bounds.  What *)
(* has to be known of a connection besides its properties is that its      *)
(* grant has what every app has and nothing of the dashboard's, and of a   *)
(* command that it was checked against the grant it runs with.             *)

\* A grant is the dashboard's, or an app's with what no app may lack or have.
GrantOK(grant) ==
    /\ grant.scope \in AppScope \union {Dashboard}
    /\ grant.scope # Dashboard =>
          "default" \in grant.caps /\ grant.caps \intersect DashboardOnly = {}

Connection(grant, origin, subs, asked) ==
    [state |-> "open", grant |-> grant, origin |-> origin, subs |-> subs, asked |-> asked]

ConnOK(conn) ==
    /\ conn = Connection(conn.grant, conn.origin, conn.subs, conn.asked)
    /\ GrantOK(conn.grant)
    /\ conn.subs = {e \in conn.asked : ~SubscriptionDenied(conn.grant, e)}
    /\ conn.origin # Nobody =>
          conn.grant.scope # Dashboard /\ conn.grant.scope.app = conn.origin

CommandOK(command) ==
    /\ GrantOK(command.grant)
    /\ command.name \in DOMAIN COMMANDS
    /\ command.payload \in Payloads(command.name)
    /\ ~CommandDenied(command.grant, command.name, command.payload)

GatewayInv ==
    /\ conns = [c \in Conns |-> conns[c]]
    /\ \A c \in Conns : Open(c) => ConnOK(conns[c])
    /\ \A command \in commands : CommandOK(command)

\* The grant of an upgrade is a grant as above.
LEMMA GrantForOK ==
    ASSUME NEW scope \in AppScope \union {Dashboard}
    PROVE  GrantOK(GrantFor(scope)) /\ GrantFor(scope).scope = scope
<1>1. GrantFor(scope).scope = scope
  BY DEF GrantFor
<1>2. ASSUME scope # Dashboard
      PROVE  "default" \in GrantFor(scope).caps
             /\ GrantFor(scope).caps \intersect DashboardOnly = {}
  <2>1. GrantFor(scope).caps
          = {"default"} \union (GrantedCapabilities(scope.app) \ DashboardOnly)
    BY <1>2 DEF GrantFor
  <2>2. "default" \notin DashboardOnly
    BY DEF DashboardOnly
  <2> QED
    BY <2>1, <2>2
<1> QED
  BY <1>1, <1>2 DEF GrantOK

\* A subscription, or its end, leaves a connection with the same grant that
\* holds what it asked for and may have.
LEMMA SubscriptionStep ==
    ASSUME GatewayInv, NEW c \in Conns, NEW batch,
           Subscribe(c, batch) \/ Unsubscribe(c, batch)
    PROVE  \E new : /\ conns' = [conns EXCEPT ![c] = new]
                    /\ ConnOK(new) /\ new.state = "open" /\ new.grant = conns[c].grant
<1> DEFINE now == conns[c]
<1>1. ConnOK(now) /\ conns = [d \in Conns |-> conns[d]]
  BY DEF GatewayInv, Subscribe, Unsubscribe
<1>2. PICK subs, asked :
         /\ conns' = [conns EXCEPT ![c].subs = subs, ![c].asked = asked]
         /\ subs = {e \in asked : ~SubscriptionDenied(now.grant, e)}
  <2>1. CASE Subscribe(c, batch)
    <3> WITNESS now.subs \union {e \in batch : ~SubscriptionDenied(now.grant, e)},
                now.asked \union batch
    <3> QED
      BY <1>1, <2>1 DEF Subscribe, ConnOK
  <2>2. CASE Unsubscribe(c, batch)
    <3> WITNESS now.subs \ batch, now.asked \ batch
    <3> QED
      BY <1>1, <2>2 DEF Unsubscribe, ConnOK
  <2> QED
    BY <2>1, <2>2
<1>3. PICK new : new = Connection(now.grant, now.origin, subs, asked)
  OBVIOUS
<1>4. now = Connection(now.grant, now.origin, now.subs, now.asked)
  BY <1>1 DEF ConnOK
\* One field after the other.
<1>5. conns' = [conns EXCEPT ![c] = new]
  <2> DEFINE one == Connection(now.grant, now.origin, subs, now.asked)
  <2>1. [conns[c] EXCEPT !.subs = subs] = one
    BY <1>4, SMT DEF Connection
  <2>2. PICK f : f = [conns EXCEPT ![c].subs = subs]
    OBVIOUS
  <2>3. f = [conns EXCEPT ![c] = [conns[c] EXCEPT !.subs = subs]]
    BY <1>1, <2>2
  <2>4. f[c] = one /\ f = [d \in Conns |-> f[d]]
    <3> HIDE DEF one
    <3> QED
      BY <1>1, <2>1, <2>3
  <2>5. [f[c] EXCEPT !.asked = asked] = new
    BY <1>3, <2>4, SMT DEF Connection
  <2>6. [f EXCEPT ![c].asked = asked] = [f EXCEPT ![c] = [f[c] EXCEPT !.asked = asked]]
    BY <2>4
  <2>7. [conns EXCEPT ![c].subs = subs, ![c].asked = asked] = [f EXCEPT ![c].asked = asked]
    BY <1>1, <2>2
  <2> HIDE DEF one
  <2> QED
    BY <1>1, <1>2, <2>1, <2>3, <2>5, <2>6, <2>7
<1>6. ConnOK(new) /\ new.state = "open" /\ new.grant = now.grant
  BY <1>1, <1>2, <1>3 DEF ConnOK, Connection
<1> QED
  BY <1>5, <1>6

\* The inductive invariant.
LEMMA InvHolds == GatewaySpec => []GatewayInv
<1>1. GatewayInit => GatewayInv
  BY DEF GatewayInit, GatewayInv, Open, New
<1>2. GatewayInv /\ [GatewayNext]_gatewayVars => GatewayInv'
  <2> SUFFICES ASSUME GatewayInv, [GatewayNext]_gatewayVars
               PROVE  GatewayInv'
    OBVIOUS
  <2> USE DEF GatewayInv
  \* A step that changes no connection and only ends commands.
  <2>1. ASSUME UNCHANGED conns, commands' \subseteq commands
        PROVE  GatewayInv'
    BY <2>1 DEF Open
  \* One that puts a sound connection in the place of c's.
  <2>2. ASSUME NEW c \in Conns, NEW new, conns' = [conns EXCEPT ![c] = new],
               new.state = "open" => ConnOK(new), UNCHANGED commands
        PROVE  GatewayInv'
    <3>1. ASSUME NEW d \in Conns, Open(d)' PROVE ConnOK(conns'[d])
      <4>1. CASE d = c
        <5>1. conns'[d] = new
          BY <2>2, <4>1
        <5> QED
          BY <2>2, <3>1, <5>1 DEF Open
      <4>2. CASE d # c
        <5>1. conns'[d] = conns[d]
          BY <2>2, <4>2
        <5> QED
          BY <3>1, <5>1 DEF Open
      <4> QED
        BY <4>1, <4>2
    <3>3. conns' = [d \in Conns |-> conns'[d]]
      BY <2>2
    <3> QED
      BY <2>2, <3>1, <3>3 
  <2>3. ASSUME NEW c \in Conns, NEW scope \in AppScope \union {Dashboard},
               NEW launch \in {"this", "other"}, NEW origin \in Slugs \union {Nobody},
               Upgrade(c, MintAppToken(launch, scope), origin)
        PROVE  GatewayInv'
    <3> DEFINE new == Connection(GrantFor(scope), origin, {}, {})
    <3>1. /\ ~OriginDenied(origin, scope)
          /\ conns' = [conns EXCEPT ![c] = new]
          /\ UNCHANGED commands
      BY <2>3 DEF Upgrade, VerifyToken, MintAppToken, Connection
    <3>2. GrantOK(GrantFor(scope)) /\ GrantFor(scope).scope = scope
      BY GrantForOK
    <3>3. ConnOK(new)
      BY <3>1, <3>2 DEF ConnOK, OriginDenied, Connection
    <3> HIDE DEF new
    <3> QED
      BY <2>2, <3>1, <3>3
  <2>4. ASSUME NEW c \in Conns, NEW name \in DOMAIN COMMANDS,
               NEW payload \in Payloads(name), RunCommand(c, name, payload)
        PROVE  GatewayInv'
    <3> DEFINE new == [conn |-> c, grant |-> conns[c].grant, name |-> name,
                       payload |-> payload]
    <3>1. CommandOK(new)
      BY <2>4 DEF RunCommand, CommandOK, ConnOK
    <3>2. UNCHANGED conns /\ commands' = commands \union {new}
      BY <2>4 DEF RunCommand
    <3> HIDE DEF new
    <3> QED
      BY <3>1, <3>2 DEF Open
  <2>5. ASSUME NEW c \in Conns, NEW batch, Subscribe(c, batch) \/ Unsubscribe(c, batch)
        PROVE  GatewayInv'
    <3>1. Open(c) /\ UNCHANGED commands
      BY <2>5 DEF Subscribe, Unsubscribe
    <3>2. ConnOK(conns[c])
      BY <3>1
    <3>3. PICK new : conns' = [conns EXCEPT ![c] = new] /\ ConnOK(new)
      <4> HIDE DEF GatewayInv
      <4> QED
        BY <2>5, SubscriptionStep
    <3> QED
      BY <2>2, <3>1, <3>3
  <2>6. ASSUME NEW c \in Conns, Close(c)
        PROVE  GatewayInv'
    <3>1. Gone.state # "open"
      BY DEF Gone
    <3> QED
      BY <2>2, <2>6, <3>1 DEF Close
  <2>7. CASE UNCHANGED gatewayVars
    BY <2>1, <2>7 DEF gatewayVars
  <2>8. CASE Respond
    BY <2>1, <2>8 DEF Respond
  <2>9. ASSUME NEW s \in Slugs,
               \/ \E requests, caps : InstallFromGit(s, requests, caps)
               \/ \E caps : ApproveCapabilities(s, caps)
               \/ Uninstall(s)
        PROVE  GatewayInv'
    BY <2>1, <2>9 DEF InstallFromGit, ApproveCapabilities, Uninstall
  <2> QED
    BY <2>3, <2>4, <2>5, <2>6, <2>7, <2>8, <2>9 DEF GatewayNext
<1> QED
  BY <1>1, <1>2, PTL DEF GatewaySpec

\* Which of the three kinds an event has shows in its name, and none is a wildcard.
LEMMA FixedNames ==
    ASSUME NEW e \in DOMAIN EVENTS
    PROVE  /\ Len(e) = 2 /\ e[2] # "*" /\ e = <<e[1], e[2]>>
           /\ e \notin DriverEvents /\ e \notin AppEvents
           /\ ~IsWildcardEvent(e)
<1>1. e \in {<<"server", "log">>, <<"system", "stats">>, <<"app", "installed">>,
             <<"app", "settings-changed">>}
  BY DEF EVENTS
<1>2. Len(e) = 2 /\ e = <<e[1], e[2]>> /\ e[2] # "*"
  BY <1>1
<1>3. e \notin DriverEvents /\ e \notin AppEvents
  BY <1>2 DEF DriverEvents, AppEvents
<1> QED
  BY <1>2, <1>3 DEF IsWildcardEvent

LEMMA LongNames ==
    ASSUME NEW e \in DriverEvents \union AppEvents
    PROVE  /\ Len(e) = 3 /\ e \notin DOMAIN EVENTS /\ ~IsWildcardEvent(e)
           /\ e \in AppEvents <=> e[1] = "app"
           /\ e \in AppEvents => e[2] \in Slugs /\ e \notin DriverEvents
           /\ e \in DriverEvents => e[3] \in Names /\ e \notin AppEvents
<1>1. Len(e) = 3
  BY DEF DriverEvents, AppEvents
<1>2. e \notin DOMAIN EVENTS
  BY <1>1, FixedNames
<1>3. /\ e \in AppEvents <=> e[1] = "app"
      /\ e \in AppEvents => e[2] \in Slugs /\ e \notin DriverEvents
      /\ e \in DriverEvents => e[3] \in Names /\ e \notin AppEvents
  BY DEF DriverEvents, AppEvents
<1> QED
  BY <1>1, <1>2, <1>3 DEF IsWildcardEvent

LEMMA WildcardNames ==
    ASSUME NEW w \in Wildcards
    PROVE  /\ IsWildcardEvent(w)
           /\ \/ w = <<"*">>
              \/ w = <<w[1], "*">> /\ Len(w) = 2 /\ w[2] = "*"
<1>1. CASE w = <<"*">>
  <2>1. Len(w) = 1 /\ w[1] = "*"
    BY <1>1
  <2> QED
    BY <1>1, <2>1 DEF IsWildcardEvent
<1>2. ASSUME NEW ns, w = <<ns, "*">> PROVE w = <<w[1], "*">> /\ Len(w) = 2 /\ w[2] = "*"
  BY <1>2
<1>3. CASE w # <<"*">>
  <2>1. w = <<w[1], "*">> /\ Len(w) = 2 /\ w[2] = "*"
    BY <1>2, <1>3 DEF Wildcards
  <2> QED
    BY <2>1 DEF IsWildcardEvent
<1> QED
  BY <1>1, <1>3

\* What the denial of an event comes to for an app.
LEMMA Denials ==
    ASSUME NEW grant, GrantOK(grant), grant.scope # Dashboard
    PROVE  /\ \A w \in Wildcards \union {<<e[1], "*">> : e \in Events} :
                 SubscriptionDenied(grant, w)
           /\ \A e \in DOMAIN EVENTS :
                 ~SubscriptionDenied(grant, e) <=>
                    (e = <<"server", "log">> => "logs:read" \in grant.caps)
           /\ \A e \in DriverEvents :
                 ~SubscriptionDenied(grant, e) <=> CanUseBinding(grant, e[3])
           /\ \A e \in AppEvents :
                 ~SubscriptionDenied(grant, e) <=> CanAccessApp(grant, e[2])
<1>1. "default" \in grant.caps /\ "events:wildcard" \notin grant.caps
  BY DEF GrantOK, DashboardOnly
<1>2. ASSUME NEW w \in Wildcards \union {<<e[1], "*">> : e \in Events}
      PROVE  SubscriptionDenied(grant, w)
  <2>1. IsWildcardEvent(w)
    BY WildcardNames DEF IsWildcardEvent
  <2> QED
    BY <1>1, <2>1 DEF SubscriptionDenied, Has
<1>3. ASSUME NEW e \in DOMAIN EVENTS
      PROVE  ~SubscriptionDenied(grant, e) <=>
                (e = <<"server", "log">> => "logs:read" \in grant.caps)
  <2>1. ~IsWildcardEvent(e)
    BY FixedNames
  <2>2. ParseEventName(e).kind = "fixed"
    BY DEF ParseEventName
  <2>3. SubscriptionDenied(grant, e) <=> ~Has(grant, EVENTS[e])
    BY <2>1, <2>2 DEF SubscriptionDenied
  <2>4. EVENTS[e] = IF e = <<"server", "log">> THEN "logs:read" ELSE "default"
    BY DEF EVENTS
  <2> QED
    BY <1>1, <2>3, <2>4 DEF Has
<1>4. ASSUME NEW e \in DriverEvents
      PROVE  ~SubscriptionDenied(grant, e) <=> CanUseBinding(grant, e[3])
  <2>1. ~IsWildcardEvent(e)
    BY LongNames
  <2>2. ParseEventName(e) = [kind |-> "driver", binding |-> e[3]]
    BY LongNames DEF ParseEventName
  <2> QED
    BY <1>1, <2>1, <2>2 DEF SubscriptionDenied, Has
<1>5. ASSUME NEW e \in AppEvents
      PROVE  ~SubscriptionDenied(grant, e) <=> CanAccessApp(grant, e[2])
  <2>1. ~IsWildcardEvent(e)
    BY LongNames
  <2>2. ParseEventName(e) = [kind |-> "app", slug |-> e[2]]
    BY LongNames DEF ParseEventName
  <2> QED
    BY <1>1, <2>1, <2>2 DEF SubscriptionDenied, Has
<1> QED
  BY <1>2, <1>3, <1>4, <1>5

\* The gateway, the clients and the bus agree, for any apps.
THEOREM Agreement == MatchersAgree
<1> SUFFICES ASSUME NEW p \in Events \union Wildcards, NEW e \in Events
             PROVE  /\ IsSubscribed({p}, e) <=> EventMatches(p, e)
                    /\ EventMatches(p, e) <=> \E i \in 1..3 : BusPatterns(e)[i] = p
  BY DEF MatchersAgree
<1>1. IsSubscribed({p}, e) <=> p \in {e, <<"*">>, <<e[1], "*">>}
  BY DEF IsSubscribed
<1>2. EventMatches(p, e) <=> p \in {e, <<"*">>, <<e[1], "*">>}
  <2>1. CASE p \in Wildcards
    BY <2>1, WildcardNames DEF EventMatches
  <2>2. CASE p \in DOMAIN EVENTS
    BY <2>2, FixedNames DEF EventMatches
  <2>3. CASE p \in DriverEvents \union AppEvents
    <3>1. Len(p) = 3
      BY <2>3, LongNames
    <3> QED
      BY <3>1 DEF EventMatches
  <2> QED
    BY <2>1, <2>2, <2>3 DEF Events
<1>3. (\E i \in 1..3 : BusPatterns(e)[i] = p) <=> p \in {e, <<"*">>, <<e[1], "*">>}
  BY DEF BusPatterns
<1> QED
  BY <1>1, <1>2, <1>3

\* A batch of which only a part is allowed is taken in part, whatever the
\* batches and the order of commands (gateway.ts:210-213).
THEOREM Allowed == GatewaySpec => []AllowedPartApplies
<1>1. GatewayInv => AllowedPartApplies
  BY DEF GatewayInv, AllowedPartApplies, ConnOK
<1> QED
  BY <1>1, InvHolds, PTL

\* A page on an app's origin acts for that app, whatever token it shows.
THEOREM OwnPages == GatewaySpec => []PagesActForTheirApp
<1>1. GatewayInv => PagesActForTheirApp
  BY DEF GatewayInv, PagesActForTheirApp, ConnOK, Own
<1> QED
  BY <1>1, InvHolds, PTL
\* "No app may use it as its slug, or its token would reach those instances"
\* (slug.ts:23-26): isReservedSlug keeps the name of the dashboard's binding
\* out of the slugs.
NoSystemApp == SystemBinding \notin Slugs

\* An app's window hears exactly what it asked for and concerns it.
THEOREM Hearing ==
    ASSUME NoSystemApp
    PROVE  GatewaySpec => []HearsWhatConcernsIt
<1>1. GatewayInv => HearsWhatConcernsIt
  <2> SUFFICES ASSUME GatewayInv,
                      NEW c \in Conns, NEW event \in Events, NEW from \in Conns \union {Nobody},
                      NEW about \in {{}} \union {{s} : s \in Slugs},
                      Open(c), conns[c].grant.scope # Dashboard,
                      event \in AboutApp <=> about # {}
               PROVE  c \in Deliver(event, about, from) <=>
                        /\ event \in conns[c].asked /\ c # from
                        /\ about \subseteq {Own(c)}
                        /\ event \in AppEvents => event[2] = Own(c)
                        /\ event \in DriverEvents =>
                              event[3] \in {Own(c), conns[c].grant.scope.binding}
                        /\ event = <<"server", "log">> => "logs:read" \in conns[c].grant.caps
    BY DEF HearsWhatConcernsIt
  <2> DEFINE grant == conns[c].grant
  <2>1. /\ GrantOK(grant)
        /\ conns[c].subs = {e \in conns[c].asked : ~SubscriptionDenied(grant, e)}
    BY DEF GatewayInv, ConnOK
  <2>2. /\ grant.scope.app \in Slugs /\ grant.scope.binding \in Slugs \union {Nobody}
    BY <2>1 DEF GrantOK, AppScope
  <2>3. IsSubscribed(conns[c].subs, event)
          <=> event \in conns[c].asked /\ ~SubscriptionDenied(grant, event)
    <3>1. SubscriptionDenied(grant, <<"*">>)
      BY <2>1, Denials DEF Wildcards
    <3>2. SubscriptionDenied(grant, <<event[1], "*">>)
      BY <2>1, Denials
    <3> QED
      BY <2>1, <3>1, <3>2 DEF IsSubscribed
  <2>4. c \in Deliver(event, about, from)
          <=> /\ event \in conns[c].asked /\ c # from
              /\ ~SubscriptionDenied(grant, event)
              /\ event \in DOMAIN EVENTS => \A s \in about : CanAccessApp(grant, s)
    BY <2>3 DEF Deliver, CanReceive
  <2>5. \A s \in Slugs : CanAccessApp(grant, s) <=> s = Own(c)
    BY <2>2 DEF CanAccessApp, Own, NoSystemApp
  <2>6. \A b \in Names : CanUseBinding(grant, b) <=> b \in {Own(c), grant.scope.binding}
    <3>1. SystemBinding # Nobody
      BY DEF SystemBinding, Nobody
    <3> QED
      BY <2>2, <3>1 DEF CanUseBinding, Own, NoSystemApp
  <2>7. CASE event \in DOMAIN EVENTS
    <3>1. event \notin AppEvents /\ event \notin DriverEvents
      BY <2>7, FixedNames
    <3>2. ~SubscriptionDenied(grant, event)
            <=> (event = <<"server", "log">> => "logs:read" \in grant.caps)
      BY <2>1, <2>7, Denials
    <3>3. (\A s \in about : CanAccessApp(grant, s)) <=> about \subseteq {Own(c)}
      BY <2>5
    <3> QED
      BY <2>4, <2>7, <3>1, <3>2, <3>3
  <2>8. CASE event \in DriverEvents \union AppEvents
    <3>1. event \notin DOMAIN EVENTS
      BY <2>8, LongNames
    <3>2. about = {} /\ event # <<"server", "log">>
      BY <3>1 DEF AboutApp, EVENTS
    <3>3. CASE event \in DriverEvents
      <4>1. event[3] \in Names /\ event \notin AppEvents
        BY <3>3, LongNames
      <4>2. ~SubscriptionDenied(grant, event) <=> CanUseBinding(grant, event[3])
        BY <2>1, <3>3, Denials
      <4> QED
        BY <2>4, <2>6, <3>1, <3>2, <3>3, <4>1, <4>2
    <3>4. CASE event \in AppEvents
      <4>1. event[2] \in Slugs /\ event \notin DriverEvents
        BY <3>4, LongNames
      <4>2. ~SubscriptionDenied(grant, event) <=> CanAccessApp(grant, event[2])
        BY <2>1, <3>4, Denials
      <4> QED
        BY <2>4, <2>5, <3>1, <3>2, <3>4, <4>1, <4>2
    <3> QED
      BY <2>8, <3>3, <3>4
  <2> QED
    BY <2>7, <2>8 DEF Events
<1> QED
  BY <1>1, InvHolds, PTL

\* The commands of an app's window stay in its reach, whatever is installed,
\* approved and removed while they run.
THEOREM Reach == GatewaySpec => []CommandsStayInReach
<1>1. GatewayInv => CommandsStayInReach
  <2> SUFFICES ASSUME GatewayInv, NEW command \in commands,
                      command.grant.scope # Dashboard
               PROVE  LET scope == command.grant.scope
                          touched == {command.payload.app} \ {Nobody}
                      IN /\ command.name # "install"
                         /\ command.payload.binding \in {Nobody, scope.app, scope.binding}
                         /\ touched \subseteq {scope.app, scope.target} \ {Nobody}
                         /\ touched # {scope.app} /\ touched # {} =>
                               /\ command.name \in {"config", "calibration"}
                               /\ "calibration:write" \in command.grant.caps
    BY DEF CommandsStayInReach
  <2> DEFINE grant == command.grant
             name == command.name
             payload == command.payload
  <2>1. /\ GrantOK(grant) /\ name \in DOMAIN COMMANDS
        /\ Has(grant, COMMANDS[name].cap)
        /\ payload.app # Nobody =>
              CanAccessApp(grant, payload.app) \/ ReachesTarget(grant, name, payload.app)
        /\ payload.binding # Nobody => CanUseBinding(grant, payload.binding)
    BY DEF GatewayInv, CommandOK, CommandDenied
  <2>2. name # "install"
    <3>1. COMMANDS["install"].cap = "apps:manage"
      BY DEF COMMANDS, Command
    <3>2. "apps:manage" \notin grant.caps
      BY <2>1 DEF GrantOK, DashboardOnly
    <3> QED
      BY <2>1, <3>1, <3>2 DEF Has
  <2>3. payload.binding \in {Nobody, grant.scope.app, grant.scope.binding}
    BY <2>1 DEF CanUseBinding
  <2>4. payload.app \in {Nobody, grant.scope.app, grant.scope.target}
    BY <2>1 DEF CanAccessApp, ReachesTarget
  <2>5. ASSUME payload.app # Nobody, payload.app # grant.scope.app
        PROVE  /\ name \in {"config", "calibration"}
               /\ "calibration:write" \in grant.caps
    <3>1. COMMANDS[name].target # Nobody /\ Has(grant, COMMANDS[name].target)
      BY <2>1, <2>5 DEF CanAccessApp, ReachesTarget
    <3>2. name \in {"list", "install", "history", "storage", "config", "calibration",
                    "start", "execute"}
      BY <2>1 DEF COMMANDS
    <3>3. /\ name \notin {"config", "calibration"} => COMMANDS[name].target = Nobody
          /\ name \in {"config", "calibration"} =>
                COMMANDS[name].target = "calibration:write"
      BY <3>2 DEF COMMANDS, Command
    <3> QED
      BY <3>1, <3>3 DEF Has
  <2> HIDE DEF grant, name, payload
  <2> QED
    BY <2>2, <2>3, <2>4, <2>5 DEF grant, name, payload
<1> QED
  BY <1>1, InvHolds, PTL
\* All that the gateway promises, which the run checks on two apps.
THEOREM Granted ==
    ASSUME NoSystemApp
    PROVE  GatewaySpec => []ConnectionsAreGranted
<1>1. MatchersAgree /\ AllowedPartApplies /\ HearsWhatConcernsIt
        /\ CommandsStayInReach /\ PagesActForTheirApp => ConnectionsAreGranted
  BY DEF ConnectionsAreGranted
<1> QED
  BY <1>1, Agreement, Allowed, Hearing, Reach, OwnPages, PTL

\* Types.  The capabilities a connection has are of those there are.
GatewayTypes ==
    /\ GatewayInv
    /\ apps \in [Slugs -> [builtin : BOOLEAN, requests : SUBSET Requestable] \union {Removed}]
    /\ approved \in [Slugs -> SUBSET Requestable]
    /\ \A c \in Conns :
          \/ conns[c] \in {New, Gone}
          \/ conns[c].state = "open" /\ conns[c].grant.caps \subseteq AllCapabilities
    /\ changes \in 0..MaxChanges

\* The state has its types, with manifests that request what may be requested.
THEOREM GatewayTypeCorrect ==
    ASSUME Manifests \subseteq SUBSET Requestable, MaxChanges \in Nat
    PROVE  GatewaySpec => []GatewayTypeOK
<1>1. GatewayInit => GatewayTypes
  <2> SUFFICES ASSUME GatewayInit PROVE GatewayTypes
    OBVIOUS
  <2>1. GatewayInv
    BY DEF GatewayInit, GatewayInv, Open, New
  <2>2. apps \in [Slugs -> [builtin : BOOLEAN, requests : SUBSET Requestable] \union {Removed}]
    BY DEF GatewayInit, Builtin
  <2> QED
    BY <2>1, <2>2 DEF GatewayInit, GatewayTypes
<1>2. GatewayInv' /\ GatewayTypes /\ [GatewayNext]_gatewayVars => GatewayTypes'
  <2> SUFFICES ASSUME GatewayInv', GatewayTypes, [GatewayNext]_gatewayVars
               PROVE  GatewayTypes'
    OBVIOUS
  <2> USE DEF GatewayTypes
  <2> DEFINE ConnTyped(conn) ==
               \/ conn \in {New, Gone}
               \/ conn.state = "open" /\ conn.grant.caps \subseteq AllCapabilities
  \* A connection is put in the place of c's.
  <2>1. ASSUME NEW c \in Conns, NEW new, conns' = [conns EXCEPT ![c] = new],
               ConnTyped(new), UNCHANGED <<apps, approved, changes>>
        PROVE  GatewayTypes'
    <3>1. ASSUME NEW d \in Conns PROVE ConnTyped(conns'[d])
      <4>1. CASE d = c
        BY <2>1, <4>1 DEF GatewayInv
      <4>2. CASE d # c
        <5>1. conns'[d] = conns[d]
          BY <2>1, <4>2
        <5> QED
          BY <5>1
      <4> QED
        BY <4>1, <4>2
    <3> QED
      BY <2>1, <3>1
  <2>2. ASSUME UNCHANGED <<apps, approved, conns, changes>>
        PROVE  GatewayTypes'
    BY <2>2
  <2>3. ASSUME NEW c \in Conns, NEW scope \in AppScope \union {Dashboard},
               NEW launch \in {"this", "other"}, NEW origin \in Slugs \union {Nobody},
               Upgrade(c, MintAppToken(launch, scope), origin)
        PROVE  GatewayTypes'
    <3> DEFINE new == Connection(GrantFor(scope), origin, {}, {})
    <3>1. conns' = [conns EXCEPT ![c] = new] /\ UNCHANGED <<apps, approved, changes>>
      BY <2>3 DEF Upgrade, VerifyToken, MintAppToken, Connection
    <3>2. GrantFor(scope).caps \subseteq AllCapabilities
      <4>1. CASE scope = Dashboard
        BY <4>1 DEF GrantFor
      <4>2. CASE scope # Dashboard
        <5>1. scope.app \in Slugs
          BY <4>2 DEF AppScope
        <5>2. GrantedCapabilities(scope.app) \subseteq Requestable
          <6>1. CASE apps[scope.app] = Removed
            BY <6>1 DEF GrantedCapabilities
          <6>2. CASE apps[scope.app] # Removed
            <7>1. apps[scope.app].requests \subseteq Requestable
              BY <5>1, <6>2
            <7> QED
              BY <5>1, <6>2, <7>1 DEF GrantedCapabilities
          <6> QED
            BY <6>1, <6>2
        <5> QED
          BY <4>2, <5>2 DEF GrantFor, AllCapabilities
      <4> QED
        BY <4>1, <4>2
    <3>3. ConnTyped(new)
      BY <3>2 DEF Connection
    <3> HIDE DEF new, ConnTyped
    <3> QED
      BY <2>1, <3>1, <3>3
  <2>4. ASSUME NEW c \in Conns, NEW batch, Subscribe(c, batch) \/ Unsubscribe(c, batch)
        PROVE  GatewayTypes'
    <3>1. UNCHANGED <<apps, approved, changes>> /\ Open(c)
      BY <2>4 DEF Subscribe, Unsubscribe
    <3>2. PICK new : /\ conns' = [conns EXCEPT ![c] = new]
                     /\ new.state = "open" /\ new.grant = conns[c].grant
      BY <2>4, SubscriptionStep
    <3>3. ConnTyped(new)
      BY <3>1, <3>2 DEF Open, New, Gone
    <3> HIDE DEF ConnTyped
    <3> QED
      BY <2>1, <3>1, <3>2, <3>3
  <2>5. ASSUME NEW c \in Conns, Close(c)
        PROVE  GatewayTypes'
    BY <2>1, <2>5 DEF Close
  <2>6. CASE UNCHANGED gatewayVars
    BY <2>2, <2>6 DEF gatewayVars
  <2>7. CASE Respond
    BY <2>2, <2>7 DEF Respond
  <2>8. ASSUME NEW c \in Conns, NEW name, NEW payload, RunCommand(c, name, payload)
        PROVE  GatewayTypes'
    BY <2>2, <2>8 DEF RunCommand
  <2>9. ASSUME NEW s \in Slugs, NEW requests \in Manifests, NEW caps \in Manifests,
               InstallFromGit(s, requests, caps)
        PROVE  GatewayTypes'
    BY <2>9 DEF InstallFromGit, Change
  <2>10. ASSUME NEW s \in Slugs, NEW caps, ApproveCapabilities(s, caps)
         PROVE  GatewayTypes'
    <3>1. apps[s].requests \subseteq Requestable
      BY <2>10 DEF ApproveCapabilities, Installed
    <3> QED
      BY <2>10, <3>1 DEF ApproveCapabilities, Change
  <2>11. ASSUME NEW s \in Slugs, Uninstall(s)
         PROVE  GatewayTypes'
    <3>1. Builtin(s) \in [builtin : BOOLEAN, requests : SUBSET Requestable]
      BY DEF Builtin
    <3> HIDE DEF Requestable
    <3> QED
      BY <2>11, <3>1 DEF Uninstall, Change
  <2> QED
    BY <2>3, <2>4, <2>5, <2>6, <2>7, <2>8, <2>9, <2>10, <2>11
    DEF GatewayNext
<1>3. GatewayTypes => GatewayTypeOK
  <2> SUFFICES ASSUME GatewayTypes PROVE GatewayTypeOK
    OBVIOUS
  <2>1. ASSUME NEW c \in Conns, conns[c].state = "open"
        PROVE  /\ conns[c].grant.scope \in AppScope \union {Dashboard}
               /\ conns[c].subs \subseteq conns[c].asked
    BY <2>1 DEF GatewayTypes, GatewayInv, ConnOK, GrantOK, Open
  <2> QED
    BY <2>1 DEF GatewayTypes, GatewayTypeOK
<1> QED
  BY <1>1, <1>2, <1>3, InvHolds, PTL DEF GatewaySpec
=============================================================================
