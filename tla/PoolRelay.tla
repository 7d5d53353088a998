----------------------------- MODULE PoolRelay -----------------------------
(***************************************************************************)
(* The interactive pool's relay of ball positions (layers/live.ts): one    *)
(* socket that follows the `live.url` setting, reconnecting after a delay  *)
(* that grows, and the move of the URL of older versions into the setting  *)
(* (settings.ts).                                                          *)
(*                                                                         *)
(* A socket is its URL and its state; a closed one still reports `close`   *)
(* later.                                                                  *)
(***************************************************************************)
EXTENDS Integers, FiniteSets

CONSTANTS Urls,        \* relay URLs
          Refused,     \* those relayUrlProblem refuses
          OldUrl,      \* the URL an older version stored
          MaxBackoff,  \* the longest delay (30 s is the sixth)
          MaxUrlChanges, MaxBatches, MaxSockets

VARIABLES running,   \* start() was called, and stop() not
          setting,   \* the live.url setting
          legacy,    \* the live_server_url key, and how far its move is
          target, seen, \* the followed URL; the last one seen
          sockets,   \* the sockets that did not report their close
          current,   \* `socket`
          timer,     \* a reconnect is due
          backoff,   \* its delay
          balls,     \* reports of the ball driver: the last one, the last one sent
          opened, urlChanges

rVars == <<running, setting, legacy, target, seen, sockets, current, timer, backoff, balls, opened, urlChanges>>

NoUrl == "no url"
NotSeen == "not seen"
NoSocket == 0

RelayTypeOK ==
  /\ running \in BOOLEAN /\ setting \in Urls \cup {NoUrl}
  /\ legacy \in [key : BOOLEAN, step : {"read", "check", "set", "remove", "done"}]
  /\ target \in Urls \cup {NoUrl} /\ seen \in Urls \cup {NoUrl, NotSeen}
  /\ sockets \subseteq [id : 1..MaxSockets, url : Urls, state : {"connecting", "open", "closed"}]
  /\ current \in 0..MaxSockets /\ timer \in BOOLEAN /\ backoff \in 0..MaxBackoff
  /\ balls \in [last : 0..MaxBatches, sent : 0..MaxBatches]
  /\ opened \in 0..MaxSockets /\ urlChanges \in 0..MaxUrlChanges

RelayInit ==
  /\ running = FALSE /\ setting \in Urls \cup {NoUrl}
  /\ legacy \in [key : BOOLEAN, step : {"read"}]
  /\ target = NoUrl /\ seen = NotSeen
  /\ sockets = {} /\ current = NoSocket /\ timer = FALSE /\ backoff = 0
  /\ balls = [last |-> 0, sent |-> 0] /\ opened = 0 /\ urlChanges = 0

Longer(b) == IF b < MaxBackoff THEN b + 1 ELSE b
CloseOf(s) == {IF x.id = s THEN [x EXCEPT !.state = "closed"] ELSE x : x \in sockets}

\* migrateLegacyRelayUrl runs once, before the layers start; each of its calls
\* to the server may fail, and the start goes on.
MoveLegacyUrl ==
  /\ legacy.step # "done"
  /\ \/ legacy.step = "read" /\ legacy' = [legacy EXCEPT !.step = IF legacy.key THEN "check" ELSE "done"]
        /\ UNCHANGED setting
     \/ legacy.step = "check"
        /\ legacy' = [legacy EXCEPT !.step = IF setting = NoUrl THEN "set" ELSE "remove"]
        /\ UNCHANGED setting
     \/ legacy.step = "set" /\ legacy' = [legacy EXCEPT !.step = "remove"] /\ setting' = OldUrl
     \/ legacy.step = "remove" /\ legacy' = [key |-> FALSE, step |-> "done"] /\ UNCHANGED setting
     \/ legacy' = [legacy EXCEPT !.step = "done"] /\ UNCHANGED setting
  /\ UNCHANGED <<running, target, seen, sockets, current, timer, backoff, balls, opened, urlChanges>>

\* Somebody changes the setting.
ChangeUrl ==
  /\ urlChanges < MaxUrlChanges /\ urlChanges' = urlChanges + 1
  /\ \E url \in Urls \cup {NoUrl} : url # setting /\ setting' = url
  /\ UNCHANGED <<running, legacy, target, seen, sockets, current, timer, backoff, balls, opened>>

\* connect, with the sockets as they are then: it may throw, which retries.
Connects(with, url, delay) ==
  \/ /\ opened < MaxSockets /\ opened' = opened + 1
     /\ sockets' = with \cup {[id |-> opened', url |-> url, state |-> "connecting"]}
     /\ current' = opened' /\ timer' = FALSE /\ backoff' = delay
  \/ /\ sockets' = with /\ current' = NoSocket /\ timer' = TRUE /\ backoff' = Longer(delay)
     /\ UNCHANGED opened

\* follow, with a URL that is new to it: it closes the socket, cancels the
\* timer and connects.
Follow ==
  /\ seen' = setting
  /\ IF setting = NoUrl \/ setting \in Refused
     THEN /\ target' = NoUrl /\ sockets' = CloseOf(current) /\ current' = NoSocket
          /\ timer' = FALSE /\ backoff' = 0 /\ UNCHANGED opened
     ELSE target' = setting /\ Connects(CloseOf(current), setting, 0)

\* start() forgets what was seen: the URL is followed anew.
StartRelay ==
  /\ ~running /\ legacy.step = "done" /\ running' = TRUE
  /\ Follow
  /\ UNCHANGED <<setting, legacy, balls, urlChanges>>

\* render follows the setting first ...
RenderFollows ==
  /\ running /\ setting # seen /\ Follow
  /\ UNCHANGED <<running, setting, legacy, balls, urlChanges>>

\* ... and sends what the ball driver reported since, once.
RenderSends ==
  /\ running /\ setting = seen /\ balls.last # balls.sent
  /\ \E s \in sockets : s.id = current /\ s.state = "open"
  /\ balls' = [balls EXCEPT !.sent = balls.last]
  /\ UNCHANGED <<running, setting, legacy, target, seen, sockets, current, timer, backoff, opened, urlChanges>>

BallsReported ==
  /\ balls.last < MaxBatches /\ balls' = [balls EXCEPT !.last = @ + 1]
  /\ UNCHANGED <<running, setting, legacy, target, seen, sockets, current, timer, backoff, opened, urlChanges>>

SocketOpens ==
  /\ \E s \in sockets : /\ s.state = "connecting"
                        /\ sockets' = (sockets \ {s}) \cup {[s EXCEPT !.state = "open"]}
  /\ backoff' = 0
  /\ UNCHANGED <<running, setting, legacy, target, seen, current, timer, balls, opened, urlChanges>>

\* Defect: the close of a socket that was replaced reconnects too.
SocketCloses_Any ==
  /\ \E s \in sockets : sockets' = sockets \ {s}
  /\ current' = NoSocket
  /\ IF running /\ target # NoUrl /\ ~timer
     THEN timer' = TRUE /\ backoff' = Longer(backoff) ELSE UNCHANGED <<timer, backoff>>
  /\ UNCHANGED <<running, setting, legacy, target, seen, balls, opened, urlChanges>>

\* A `close` of the socket in use schedules a reconnect; any other does not.
SocketCloses ==
  /\ \E s \in sockets :
       /\ sockets' = sockets \ {s}
       /\ IF s.id # current THEN UNCHANGED <<current, timer, backoff>>
          ELSE /\ current' = NoSocket
               /\ IF running /\ target # NoUrl /\ ~timer
                  THEN timer' = TRUE /\ backoff' = Longer(backoff)
                  ELSE UNCHANGED <<timer, backoff>>
  /\ UNCHANGED <<running, setting, legacy, target, seen, balls, opened, urlChanges>>

\* The timer: connect.
Reconnect ==
  /\ timer
  /\ IF running /\ target # NoUrl THEN Connects(sockets, target, backoff)
     ELSE timer' = FALSE /\ UNCHANGED <<sockets, current, backoff, opened>>
  /\ UNCHANGED <<running, setting, legacy, target, seen, balls, urlChanges>>

\* Defect: the timer is left.
StopRelay_KeepsTimer ==
  /\ running /\ running' = FALSE
  /\ sockets' = CloseOf(current) /\ current' = NoSocket
  /\ UNCHANGED <<setting, legacy, target, seen, timer, backoff, balls, opened, urlChanges>>

StopRelay ==
  /\ running /\ running' = FALSE
  /\ sockets' = CloseOf(current) /\ current' = NoSocket /\ timer' = FALSE
  /\ UNCHANGED <<setting, legacy, target, seen, backoff, balls, opened, urlChanges>>

RelayNext ==
  \/ MoveLegacyUrl \/ ChangeUrl \/ StartRelay \/ RenderFollows \/ RenderSends \/ BallsReported
  \/ SocketOpens \/ SocketCloses \/ Reconnect \/ StopRelay

RelaySpec == RelayInit /\ [][RelayNext]_rVars

-----------------------------------------------------------------------------
\* At most one socket is not closed, and it goes to the followed URL; a relay
\* that runs with a URL has a socket or a reconnect due, never both; one that
\* does not run, or follows none, has neither.
OneSocket ==
  LET live == {s \in sockets : s.state # "closed"}
  IN /\ \A s \in live : s.id = current /\ s.url = target
     /\ running /\ target # NoUrl => (timer <=> current = NoSocket)
     /\ ~running \/ target = NoUrl => ~timer /\ current = NoSocket

\* The URL of an older version is not lost until the setting has one, unless
\* somebody changed the setting since.
LegacyUrlMoved ==
  legacy.step = "remove" /\ urlChanges = 0 => setting # NoUrl

RelayIsSound == OneSocket /\ LegacyUrlMoved
=============================================================================
