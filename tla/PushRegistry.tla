---------------------------- MODULE PushRegistry ----------------------------
(***************************************************************************)
(* The shared camera-push listeners of src/src/push-registry.ts.           *)
(*                                                                         *)
(* One TCP listener per track port is shared by every camera.  A route is  *)
(* one DirectStream's claim on a port, scoped to the source addresses of   *)
(* its camera.  A connection nobody claims is held for a bounded grace so  *)
(* that a reload can re-arm its route, and is never given to another       *)
(* camera's route.                                                         *)
(*                                                                         *)
(* Node runs callbacks to completion and drains promise continuations      *)
(* before the next event, so an action is a callback or a continuation;    *)
(* what an event starts waits for Quiet, and only unregister() and close() *)
(* can slip in between a listener coming up and the waiting register().    *)
(***************************************************************************)
EXTENDS Naturals, FiniteSets

CONSTANTS
    Ports,      \* the fixed per-track push ports
    Addrs,      \* source addresses as a socket reports them
    Normalize,  \* address -> address without its IPv4-mapped prefix
    Routes,     \* the routes streams register, one object each
    PortOf,     \* route -> port
    Owned,      \* route -> normalized addresses its camera's host resolves to
    Socks,      \* connection slots; a slot is reused once its socket is gone
    SockPort,   \* slot -> port it connects to
    SockAddr,   \* slot -> source address as reported
    Grace,      \* pendingRouteGraceMs, in clock ticks; 0 disables holding
    NoRoute,
    NoPort

Sources == {Normalize[a] : a \in Addrs}

ASSUME ConstantsAssumption ==
    /\ Normalize \in [Addrs -> Addrs]
    /\ \A a \in Addrs : Normalize[Normalize[a]] = Normalize[a]
    /\ PortOf \in [Routes -> Ports]
    /\ Owned \in [Routes -> SUBSET Sources]
    /\ SockPort \in [Socks -> Ports]
    /\ SockAddr \in [Socks -> Addrs]
    /\ Grace \in Nat
    /\ NoRoute \notin Routes
    /\ NoPort \notin Ports

VARIABLES
    closed,     \* close() was called
    entry,      \* port -> the servers map has a promise for it
    listener,   \* port -> state of the newest listen() of the port; "closing"
                \*         accepts nothing and waits for its connections to end
    toClose,    \* ports captured by closeServers() and not yet awaited
    at,         \* the port closeServers() awaits
    waiting,    \* routes whose register() awaits the listener
    armed,      \* routes in the routes map
    ips,        \* route -> its source set, mutated in place by late DNS
    late,       \* route -> addresses added after it was armed (history)
    sock,       \* slot -> "gone" | "held" | "routed"
    owner,      \* slot -> route a routed connection was delivered to
    ttl         \* slot -> ticks to a held connection's deadline

closing == <<toClose, at>>
listening == <<closed, entry, listener, closing>>
routing == <<waiting, armed, ips, late>>
conns == <<sock, owner, ttl>>
vars == <<listening, routing, conns>>

Src(s) == Normalize[SockAddr[s]]
Held == {s \in Socks : sock[s] = "held"}

\* Faulty: a connection is offered to every route of its port.
ClaimsFailOpen(s) == {r \in armed : PortOf[r] = SockPort[s]}

\* The armed routes that claim a connection (the loop of dispatch).  A source
\* claimed twice goes to the older route in the code, to either one here.
Claims(s) == {r \in armed : PortOf[r] = SockPort[s] /\ Src(s) \in ips[r]}

\* The held connections a route would flush.
Owed(r) == {s \in Held : SockPort[s] = PortOf[r] /\ Src(s) \in ips[r]}

\* Held connections of the source of s: the group of holdPending.
Group(s) == {t \in Held : SockPort[t] = SockPort[s] /\ Src(t) = Src(s)}

\* Faulty: a retry adds a grace to the replaced connection's deadline.
DeadlinesExtended(s) == IF Group(s) = {} THEN {Grace} ELSE {ttl[t] + Grace : t \in Group(s)}

\* Faulty: every retry starts a new grace.
DeadlinesRenewed(s) == {Grace}

\* The deadline of a connection about to be held: the replaced one's, if any.
Deadlines(s) == IF Group(s) = {} THEN {Grace} ELSE {ttl[t] : t \in Group(s)}

Resumable(r) == r \in waiting /\ listener[PortOf[r]] = "up"
Quiet == \A r \in Routes : ~Resumable(r)

-----------------------------------------------------------------------------
Init ==
    /\ closed = FALSE
    /\ entry = [p \in Ports |-> FALSE]
    /\ listener = [p \in Ports |-> "none"]
    /\ toClose = {}
    /\ at = NoPort
    /\ waiting = {}
    /\ armed = {}
    /\ ips = [r \in Routes |-> {}]
    /\ late = [r \in Routes |-> {}]
    /\ sock = [s \in Socks |-> "gone"]
    /\ owner = [s \in Socks |-> NoRoute]
    /\ ttl = [s \in Socks |-> 0]

\* register() up to its await.  The route's set holds what its host had
\* resolved to by then, possibly nothing.  A closed registry only rejects.
\* Continuations are served in order, so a register() issued while others are
\* due to resume behaves as one issued after them.
Register(r) ==
    /\ Quiet
    /\ ~closed
    /\ r \notin waiting \cup armed
    /\ \E known \in SUBSET Owned[r] : ips' = [ips EXCEPT ![r] = known]
    /\ late' = [late EXCEPT ![r] = {}]
    /\ waiting' = waiting \cup {r}
    /\ entry' = [entry EXCEPT ![PortOf[r]] = TRUE]
    /\ listener' = IF entry[PortOf[r]] THEN listener
                   ELSE [listener EXCEPT ![PortOf[r]] = "opening"]
    /\ UNCHANGED <<closed, closing, armed, conns>>

\* deliver() of a set of connections to r.  The handler may destroy any of
\* them (a stopped stream, a throwing handler): kept are the others.
Deliver(r, batch) ==
    \E kept \in SUBSET batch :
        /\ sock' = [s \in Socks |-> IF s \in kept THEN "routed"
                                    ELSE IF s \in batch THEN "gone" ELSE sock[s]]
        /\ owner' = [s \in Socks |-> IF s \in kept THEN r
                                     ELSE IF s \in batch THEN NoRoute ELSE owner[s]]
        /\ ttl' = [s \in Socks |-> IF s \in batch THEN 0 ELSE ttl[s]]

\* Faulty: close() during the await goes unnoticed.
ResumeUnchecked(r) ==
    /\ Resumable(r)
    /\ waiting' = waiting \ {r}
    /\ armed' = armed \cup {r}
    /\ Deliver(r, Owed(r))
    /\ UNCHANGED <<listening, ips, late>>

\* register() after its await: the route is added, then flushed.
Arm(r) ==
    /\ ~closed
    /\ armed' = armed \cup {r}
    /\ Deliver(r, Owed(r))
    /\ UNCHANGED entry

\* register() after its await: close() came first, so it rejects.
Refuse(r) ==
    /\ closed
    /\ armed' = armed \ {r}
    /\ entry' = [entry EXCEPT ![PortOf[r]] = FALSE]
    /\ UNCHANGED conns

Resume(r) ==
    /\ Resumable(r)
    /\ waiting' = waiting \ {r}
    /\ Arm(r) \/ Refuse(r)
    /\ UNCHANGED <<closed, listener, closing, ips, late>>

\* unregister(): the listener stays up, the route's connections stay its own.
Unregister(r) ==
    /\ r \in armed
    /\ armed' = armed \ {r}
    /\ UNCHANGED <<listening, waiting, ips, late, conns>>

\* The background lookup of a hostname adds an address to the live set.
LateResolve(r) ==
    /\ Quiet
    /\ r \in waiting \cup armed
    /\ \E a \in Owned[r] \ ips[r] :
        /\ ips' = [ips EXCEPT ![r] = @ \cup {a}]
        /\ late' = IF r \in armed THEN [late EXCEPT ![r] = @ \cup {a}] ELSE late
    /\ UNCHANGED <<listening, waiting, armed, conns>>

ListenUp(p) ==
    /\ Quiet
    /\ listener[p] = "opening"
    /\ listener' = [listener EXCEPT ![p] = "up"]
    /\ UNCHANGED <<closed, entry, closing, routing, conns>>

\* listen() rejects.  The catch blocks of all the waiting register() calls
\* are adjacent continuations, so they run before any caller can retry.
ListenFails(p) ==
    /\ Quiet
    /\ listener[p] = "opening"
    /\ listener' = [listener EXCEPT ![p] = "none"]
    /\ entry' = [entry EXCEPT ![p] = FALSE]
    /\ waiting' = {r \in waiting : PortOf[r] # p}
    /\ UNCHANGED <<closed, closing, armed, ips, late, conns>>

\* close(): capture the map's listeners, forget them and the routes, destroy
\* what is held.
Close ==
    /\ ~closed
    /\ closed' = TRUE
    /\ toClose' = {p \in Ports : entry[p]}
    /\ entry' = [p \in Ports |-> FALSE]
    /\ armed' = {}
    /\ sock' = [s \in Socks |-> IF s \in Held THEN "gone" ELSE sock[s]]
    /\ ttl' = [s \in Socks |-> 0]
    /\ UNCHANGED <<listener, at, waiting, ips, late, owner>>

\* The loop of closeServers() goes to its next captured port, in the order of
\* the map; here in any order.
CloseNext(p) ==
    /\ Quiet
    /\ at = NoPort
    /\ p \in toClose
    /\ at' = p
    /\ toClose' = toClose \ {p}
    /\ UNCHANGED <<closed, entry, listener, routing, conns>>

\* The awaited listen() has resolved: server.close() stops accepting.  Until
\* then, and on the ports the loop has not reached, connections are accepted.
StopAccepting(p) ==
    /\ Quiet
    /\ at = p
    /\ listener[p] = "up"
    /\ listener' = [listener EXCEPT ![p] = "closing"]
    /\ UNCHANGED <<closed, entry, closing, routing, conns>>

\* The connections whose end server.close() waits for: nothing is held after
\* close(), and what nobody claims is destroyed at once.
Lingering(p) == {s \in Socks : sock[s] = "routed" /\ SockPort[s] = p}

\* Faulty: a listen() that failed ends the loop.
ListenerClosedAborts(p) ==
    /\ Quiet
    /\ at = p
    /\ listener[p] = "closing" /\ Lingering(p) = {}
    /\ listener' = [listener EXCEPT ![p] = "none"]
    /\ at' = NoPort
    /\ UNCHANGED <<closed, entry, toClose, routing, conns>>

\* The port's turn ends: its listen() rejected, or the last connection of the
\* closed server is gone and server.close() calls back.
ListenerClosed(p) ==
    /\ Quiet
    /\ at = p
    /\ \/ listener[p] = "none"
       \/ listener[p] = "closing" /\ Lingering(p) = {}
    /\ listener' = [listener EXCEPT ![p] = "none"]
    /\ at' = NoPort
    /\ UNCHANGED <<closed, entry, toClose, routing, conns>>

-----------------------------------------------------------------------------
\* dispatch() of a connection that a route claims.
ConnectClaimed(s) ==
    /\ Quiet
    /\ listener[SockPort[s]] = "up"
    /\ sock[s] = "gone"
    /\ \E r \in Claims(s) : Deliver(r, {s})
    /\ UNCHANGED <<listening, routing>>

\* dispatch() of a connection nobody claims: it replaces the connection held
\* for its source and takes over that one's deadline.
Hold(s) ==
    /\ Quiet
    /\ listener[SockPort[s]] = "up"
    /\ sock[s] = "gone"
    /\ Claims(s) = {}
    /\ ~closed
    /\ Grace > 0
    /\ LET old == Group(s)
       IN /\ sock' = [t \in Socks |-> IF t = s THEN "held"
                                      ELSE IF t \in old THEN "gone" ELSE sock[t]]
          /\ \E deadline \in Deadlines(s) :
                ttl' = [t \in Socks |-> IF t = s THEN deadline
                                        ELSE IF t \in old THEN 0 ELSE ttl[t]]
    /\ UNCHANGED <<listening, routing, owner>>

\* The timer of a held connection: removed, reported, destroyed.
Expire(s) ==
    /\ Quiet
    /\ sock[s] = "held"
    /\ ttl[s] = 0
    /\ sock' = [sock EXCEPT ![s] = "gone"]
    /\ UNCHANGED <<listening, routing, owner, ttl>>

\* The peer closes or resets: onClose/onError of a held connection, the
\* stream's own handlers for a routed one.
PeerClose(s) ==
    /\ Quiet
    /\ sock[s] # "gone"
    /\ sock' = [sock EXCEPT ![s] = "gone"]
    /\ owner' = [owner EXCEPT ![s] = NoRoute]
    /\ ttl' = [ttl EXCEPT ![s] = 0]
    /\ UNCHANGED <<listening, routing>>

\* Time passes only while no held connection is overdue.
Tick ==
    /\ Quiet
    /\ Held # {}
    /\ \A s \in Held : ttl[s] > 0
    /\ ttl' = [s \in Socks |-> IF s \in Held THEN ttl[s] - 1 ELSE ttl[s]]
    /\ UNCHANGED <<listening, routing, sock, owner>>

Caller == \E r \in Routes : Register(r) \/ Unregister(r)
Continuation == \E r \in Routes : Resume(r)
Listening == \E p \in Ports : ListenUp(p) \/ ListenFails(p)
ClosePort(p) == CloseNext(p) \/ StopAccepting(p) \/ ListenerClosed(p)
Peer == \E s \in Socks : ConnectClaimed(s) \/ Hold(s) \/ PeerClose(s)
Timer == Tick \/ \E s \in Socks : Expire(s)

Next ==
    \/ Caller
    \/ Close
    \/ Continuation
    \/ Listening
    \/ \E p \in Ports : ClosePort(p)
    \/ \E r \in Routes : LateResolve(r)
    \/ Peer
    \/ Timer

Spec == Init /\ [][Next]_vars

\* Continuations run, a listen() settles and due timers fire.  Fairness is
\* strong because callers may keep interposing a continuation; they do so only
\* finitely often before the event loop turns.  Callers, DNS and the peers owe
\* nothing, so a routed connection may last for ever.
Fairness ==
    /\ \A r \in Routes : WF_vars(Resume(r))
    /\ \A p \in Ports : SF_vars(ListenUp(p) \/ ListenFails(p))
    /\ \A p \in Ports : SF_vars(ClosePort(p))
    /\ \A s \in Socks : SF_vars(Expire(s))
    /\ SF_vars(Tick)

FairSpec == Spec /\ Fairness

-----------------------------------------------------------------------------
TypeOK ==
    /\ closed \in BOOLEAN
    /\ entry \in [Ports -> BOOLEAN]
    /\ listener \in [Ports -> {"none", "opening", "up", "closing"}]
    /\ toClose \subseteq Ports
    /\ at \in Ports \cup {NoPort}
    /\ waiting \subseteq Routes
    /\ armed \subseteq Routes
    /\ ips \in [Routes -> SUBSET Sources]
    /\ late \in [Routes -> SUBSET Sources]
    /\ sock \in [Socks -> {"gone", "held", "routed"}]
    /\ owner \in [Socks -> Routes \cup {NoRoute}]
    /\ ttl \in [Socks -> 0..Grace]

\* A connection is only ever served by a stream of its own camera and track,
\* however many cameras share the port ("NO fail-open", PushRoute).
NoWrongCamera ==
    \A s \in Socks : sock[s] = "routed" =>
        /\ owner[s] \in Routes
        /\ PortOf[owner[s]] = SockPort[s]
        /\ Src(s) \in Owned[owner[s]]

\* No connection is left waiting in the grace hold beside a route that
\* claimed its source when it was armed: register() flushes exactly those.
\* Only an address that resolved after arming may be passed over.
HeldIsUnclaimed ==
    \A s \in Held, r \in armed :
        PortOf[r] = SockPort[s] /\ Src(s) \in ips[r] => Src(s) \in late[r]

\* A camera that keeps retrying replaces its held connection, it does not
\* accumulate them, whichever form its address is reported in.
OnePendingPerSource ==
    \A s, t \in Held : SockPort[s] = SockPort[t] /\ Src(s) = Src(t) => s = t

\* The grace hold keeps what nobody claims, once per source.
HoldIsOrderly == HeldIsUnclaimed /\ OnePendingPerSource

\* register()'s contract: an armed route has a listener accepting for it.
ArmedIsListening == \A r \in armed : listener[PortOf[r]] = "up"

\* No listener is ever out of sight: the servers map knows each one while the
\* registry is open, so that no port is bound twice, and after close() each one
\* is still to be closed or being closed.
NoForgottenListener ==
    /\ ~closed => toClose = {} /\ at = NoPort /\ \A p \in Ports : entry[p] <=> listener[p] # "none"
    /\ closed => \A p \in Ports : listener[p] # "none" => p \in toClose \cup {at}
    /\ \A p \in Ports : listener[p] = "closing" => p = at

\* A closed registry keeps nothing: no route can be armed by a register()
\* that close() overtook, no connection is held.
ClosedIsEmpty == closed => armed = {} /\ Held = {}

\* Routes, the map of servers and the listeners agree, before close() and
\* after it, whichever awaits it cuts through.
ListenersAgree == ArmedIsListening /\ NoForgottenListener /\ ClosedIsEmpty

\* The registry's tables agree with each other and with the sockets, whatever
\* register(), close(), connections and late DNS answers do to them in between.
RegistryInOrder == HoldIsOrderly /\ ListenersAgree

\* A connection may become routed only by delivery to a route that is armed
\* and claims its source when the step ends.
RoutedOnlyByClaim ==
    [][\A s \in Socks : sock[s] # "routed" /\ sock'[s] = "routed" =>
          owner'[s] \in armed' /\ Src(s) \in ips'[owner'[s]]]_vars

\* However stubbornly a source retries, it is reported in time: as long as a
\* connection of it is held, the deadline of the first is not put off.
DeadlineStands ==
    [][\A s, t \in Socks :
          /\ sock[s] = "held" /\ sock'[t] = "held"
          /\ SockPort[s] = SockPort[t] /\ Src(s) = Src(t)
          => ttl'[t] <= ttl[s]]_vars

\* Once the streams of a closed registry have ended their connections, every
\* listener is closed, also one whose listen() was pending or failed.  The
\* ports are closed in turn, so a connection that lasts keeps its own listener
\* and those after it: shutdownResources() releases the cameras first.
ListenersClosed ==
    (closed /\ \A s \in Socks : sock[s] # "routed") ~> [](\A p \in Ports : listener[p] = "none")
=============================================================================
