--------------------------- MODULE DriverRouting ----------------------------
(***************************************************************************)
(* Which instance of a driver a binding uses, and whom a driver's events   *)
(* reach (drivers/manager.ts): leases, sharing, and device settings that   *)
(* change while leases are held.  What runs is DriverSystem's concern.     *)
(***************************************************************************)
EXTENDS Integers, FiniteSets, Sequences

CONSTANTS Drivers,
          Graphs,      \* catalogues: [deps : Drivers -> SUBSET Drivers, shared : SUBSET Drivers]
          Bindings,    \* apps
          Devices,     \* device numbers an app may set
          Clients,
          MaxLeases,   \* bound on leases held at a time
          MaxChanges   \* bound on device changes

VARIABLES
  catalogue,  \* the drivers the bridge reported
  device,     \* the device set for each binding, or NoDevice
  leases,     \* the leases held, the oldest first
  sharedCache,\* DriverManager.sharedCache: what was computed so far
  events,     \* an event the bridge has written, or NoEvent
  changes

routeVars == <<catalogue, device, leases, sharedCache, events, changes>>

NoDevice == 0
NoEvent == [none |-> TRUE]
\* A namespace: a binding's own, the shared one, or that of a shared device.
Own(b) == [of |-> b]
Shared(n) == [shared |-> n]
Namespaces == {Own(b) : b \in Bindings} \cup {Shared(n) : n \in Devices \cup {NoDevice}}
Lease == [client : Clients, binding : Bindings, driver : Drivers, instance : Namespaces]

RoutingTypeOK ==
  /\ catalogue \in Graphs
  /\ device \in [Bindings -> Devices \cup {NoDevice}]
  /\ leases \in Seq(Lease) /\ Len(leases) <= MaxLeases
  /\ sharedCache \in [Drivers -> {"unknown", "yes", "no"}]
  /\ events \in {NoEvent} \cup [instance : Namespaces, driver : Drivers]
  /\ changes \in 0..MaxChanges

RoutingInit ==
  /\ catalogue \in Graphs /\ device = [b \in Bindings |-> NoDevice]
  /\ leases = <<>> /\ sharedCache = [d \in Drivers |-> "unknown"]
  /\ events = NoEvent /\ changes = 0

-----------------------------------------------------------------------------
\* computeShared: depth first, over the drivers not seen yet; one that was seen
\* before counts as shared, one that is not ends the walk.
Walks == [todo : SUBSET Drivers, seen : SUBSET Drivers]
Visit[w \in Walks] ==
  IF w.todo \subseteq w.seen THEN TRUE
  ELSE LET d == CHOOSE x \in w.todo : x \notin w.seen
       IN d \in catalogue.shared /\ Visit[[todo |-> w.todo \cup catalogue.deps[d], seen |-> w.seen \cup {d}]]

\* Defect: only the driver itself is asked.
EffectivelyShared_Itself(d) == d \in catalogue.shared
EffectivelyShared(d) ==
  IF sharedCache[d] # "unknown" THEN sharedCache[d] = "yes" ELSE Visit[[todo |-> {d}, seen |-> {}]]

Cached(d) == sharedCache' = [sharedCache EXCEPT ![d] = IF EffectivelyShared(d) THEN "yes" ELSE "no"]

\* closure: the driver and its transitive dependencies.
Closed(ds) == \A d \in ds : catalogue.deps[d] \subseteq ds
Closure(d) == {r \in Drivers : \A ds \in SUBSET Drivers : d \in ds /\ Closed(ds) => r \in ds}
Covers(l, d) == d \in Closure(l.driver)

InstanceFor(b, d) == IF EffectivelyShared(d) THEN Shared(device[b]) ELSE Own(b)

\* Defect: a request goes where a new lease would.
ResolveInstance_New(b, d) == InstanceFor(b, d)
Held == {leases[i] : i \in DOMAIN leases}
Newest(is) == CHOOSE i \in is : \A j \in is : j <= i

\* The binding's newest lease on the driver, or on one that depends on it.
ResolveInstance(b, d) ==
  LET own == {i \in DOMAIN leases : leases[i].binding = b /\ Covers(leases[i], d)}
  IN IF own = {} THEN InstanceFor(b, d) ELSE leases[Newest(own)].instance

\* What is left of the leases, in their order.
Keep(is) ==
  \E kept \in [1..Cardinality(is) -> is] :
    /\ \A i, j \in DOMAIN kept : i < j => kept[i] < kept[j]
    /\ leases' = [i \in DOMAIN kept |-> leases[kept[i]]]

Subscribe(c, b, d) ==
  /\ Len(leases) < MaxLeases
  /\ leases' = Append(leases, [client |-> c, binding |-> b, driver |-> d, instance |-> InstanceFor(b, d)])
  /\ Cached(d)
  /\ UNCHANGED <<catalogue, device, events, changes>>

\* Of several matching leases the newest is released.
Unsubscribe(c, b, d) ==
  LET matching == {i \in DOMAIN leases : /\ leases[i].client = c /\ leases[i].binding = b
                                         /\ leases[i].driver = d}
  IN /\ matching # {}
     /\ Keep(DOMAIN leases \ {Newest(matching)})
     /\ UNCHANGED <<catalogue, device, sharedCache, events, changes>>

UnsubscribeAll(c) ==
  /\ \E l \in Held : l.client = c
  /\ Keep({i \in DOMAIN leases : leases[i].client # c})
  /\ UNCHANGED <<catalogue, device, sharedCache, events, changes>>

ChangeDevice(b, n) ==
  /\ changes < MaxChanges /\ n # device[b]
  /\ changes' = changes + 1 /\ device' = [device EXCEPT ![b] = n]
  /\ UNCHANGED <<catalogue, leases, sharedCache, events>>

\* A driver that some lease keeps, or one it depends on, reports a value.
Writes ==
  /\ events = NoEvent
  /\ \E l \in Held, d \in Drivers :
       Covers(l, d) /\ events' = [instance |-> l.instance, driver |-> d]
  /\ UNCHANGED <<catalogue, device, leases, sharedCache, changes>>

\* Defect: an event reaches every binding with a lease on the driver.
Recipients_Any(i, d) == {l.binding : l \in {x \in Held : x.driver = d}}
Recipients(i, d) == {l.binding : l \in {x \in Held : x.driver = d /\ x.instance = i}}

\* handleDriverEvent passes it to its recipients of that moment: by then leases
\* may have come and gone.
HandleDriverEvent ==
  /\ events # NoEvent /\ events' = NoEvent
  /\ UNCHANGED <<catalogue, device, leases, sharedCache, changes>>

RoutingNext ==
  \/ \E c \in Clients : UnsubscribeAll(c)
                        \/ \E b \in Bindings, d \in Drivers : Subscribe(c, b, d) \/ Unsubscribe(c, b, d)
  \/ \E b \in Bindings, n \in Devices \cup {NoDevice} : ChangeDevice(b, n)
  \/ Writes \/ HandleDriverEvent

RoutingSpec == RoutingInit /\ [][RoutingNext]_routeVars

-----------------------------------------------------------------------------
Exclusive(d) == \E r \in Closure(d) : r \notin catalogue.shared

\* A driver is shared exactly if all it reaches are, whatever the order in
\* which it was asked and whatever the cycles; an app with a lease on an
\* exclusive driver, or on one that depends on one, shares no instance of it;
\* a request goes to an instance the app's leases keep, whatever its device
\* setting has become since; and another app's exclusive driver is not heard.
RoutingIsSound ==
  /\ \A d \in Drivers : EffectivelyShared(d) = ~Exclusive(d)
  /\ \A l, m \in Held, d \in Drivers :
       Covers(l, d) /\ Covers(m, d) /\ Exclusive(d) /\ l.instance = m.instance => l.binding = m.binding
  /\ \A b \in Bindings, d \in Drivers :
       (\E l \in Held : l.binding = b /\ Covers(l, d)) =>
         \E l \in Held : /\ l.binding = b /\ Covers(l, d)
                                  /\ l.instance = ResolveInstance(b, d)
  /\ events # NoEvent =>
       \A b \in Recipients(events.instance, events.driver) :
         Exclusive(events.driver) => events.instance = Own(b)
=============================================================================
