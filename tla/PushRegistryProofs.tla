------------------------- MODULE PushRegistryProofs -------------------------
(***************************************************************************)
(* The safety of PushRegistry for every set of ports, addresses, routes    *)
(* and connections.  The argument:                                         *)
(*                                                                         *)
(*   - TypeOK is inductive by itself.                                      *)
(*   - An open registry's servers map knows every listener, a closed one   *)
(*     is closing it or will, and has no route; so a listener that fails   *)
(*     or is closed serves no armed route (ListenersAgree).                *)
(*   - A route's set only ever holds addresses of its own camera, so that  *)
(*     a delivery cannot cross cameras (OwnAddresses, NoWrongCamera).      *)
(*   - Held connections: arming flushes what the route claims, holding     *)
(*     replaces what the source had and takes over its deadline            *)
(*     (HoldIsOrderly, DeadlineStands).                                    *)
(***************************************************************************)
EXTENDS PushRegistry, TLAPS

\* What is assumed of the constants.
LEMMA ConstantTypes ==
    /\ Normalize \in [Addrs -> Addrs]
    /\ PortOf \in [Routes -> Ports]
    /\ Owned \in [Routes -> SUBSET Sources]
    /\ SockPort \in [Socks -> Ports]
    /\ SockAddr \in [Socks -> Addrs]
    /\ Grace \in Nat
    /\ NoRoute \notin Routes
    /\ NoPort \notin Ports
  BY ConstantsAssumption DEF ConstantsAssumption

\* What a delivery does to each connection.
LEMMA DeliverEffect ==
    ASSUME TypeOK, NEW r \in Routes, NEW batch \in SUBSET Socks, Deliver(r, batch)
    PROVE  /\ sock' \in [Socks -> {"gone", "held", "routed"}]
           /\ owner' \in [Socks -> Routes \cup {NoRoute}]
           /\ ttl' \in [Socks -> 0..Grace]
           /\ \A s \in Socks : sock'[s] = "held" => sock[s] = "held" /\ s \notin batch
           /\ \A s \in Socks : sock'[s] = "routed" =>
                  \/ s \in batch /\ owner'[s] = r
                  \/ s \notin batch /\ sock[s] = "routed" /\ owner'[s] = owner[s]
  <1>1. PICK kept \in SUBSET batch :
           /\ sock' = [s \in Socks |-> IF s \in kept THEN "routed"
                                       ELSE IF s \in batch THEN "gone" ELSE sock[s]]
           /\ owner' = [s \in Socks |-> IF s \in kept THEN r
                                        ELSE IF s \in batch THEN NoRoute ELSE owner[s]]
           /\ ttl' = [s \in Socks |-> IF s \in batch THEN 0 ELSE ttl[s]]
    BY DEF Deliver
  <1>2. sock' \in [Socks -> {"gone", "held", "routed"}]
    BY <1>1 DEF TypeOK
  <1>3. owner' \in [Socks -> Routes \cup {NoRoute}]
    BY <1>1 DEF TypeOK
  <1>4. ttl' \in [Socks -> 0..Grace]
    BY <1>1, ConstantTypes DEF TypeOK
  <1>5. \A s \in Socks : sock'[s] = "held" => sock[s] = "held" /\ s \notin batch
    BY <1>1
  <1>6. \A s \in Socks : sock'[s] = "routed" =>
                  \/ s \in batch /\ owner'[s] = r
                  \/ s \notin batch /\ sock[s] = "routed" /\ owner'[s] = owner[s]
    BY <1>1
  <1>7. QED
    BY <1>2, <1>3, <1>4, <1>5, <1>6

\* The source of a connection is a normalized address.
LEMMA SrcType == \A s \in Socks : Src(s) \in Sources
  BY ConstantTypes DEF Src, Sources

-----------------------------------------------------------------------------
\* An empty registry is well-typed.
LEMMA TypeInit == Init => TypeOK
  <1> SUFFICES ASSUME Init PROVE TypeOK
    OBVIOUS
  <1>1. ips \in [Routes -> SUBSET Sources] /\ late \in [Routes -> SUBSET Sources]
    BY DEF Init
  <1>2. sock \in [Socks -> {"gone", "held", "routed"}] /\ owner \in [Socks -> Routes \cup {NoRoute}]
    BY DEF Init
  <1>3. ttl \in [Socks -> 0..Grace]
    BY ConstantTypes DEF Init
  <1>4. entry \in [Ports -> BOOLEAN] /\ listener \in [Ports -> {"none", "opening", "up", "closing"}]
    BY DEF Init
  <1>5. QED
    BY <1>1, <1>2, <1>3, <1>4 DEF Init, TypeOK

\* Every step keeps the fields of routes, listeners and connections in range.
LEMMA TypeNext == TypeOK /\ [Next]_vars => TypeOK'
  <1> SUFFICES ASSUME TypeOK, [Next]_vars
               PROVE  TypeOK'
    OBVIOUS
  <1> USE DEF TypeOK, listening, closing, routing, conns
  <1>1. ASSUME NEW r \in Routes, Register(r) PROVE TypeOK'
    <2>1. ips' \in [Routes -> SUBSET Sources]
      <3>1. PICK known \in SUBSET Owned[r] : ips' = [ips EXCEPT ![r] = known]
        BY <1>1 DEF Register
      <3>2. known \in SUBSET Sources
        BY ConstantTypes
      <3>3. QED
        BY <3>1, <3>2
    <2>2. entry' \in [Ports -> BOOLEAN] /\ listener' \in [Ports -> {"none", "opening", "up", "closing"}]
      BY <1>1, ConstantTypes DEF Register
    <2>3. QED
      BY <1>1, <2>1, <2>2 DEF Register
  <1>2. ASSUME NEW r \in Routes, Unregister(r) PROVE TypeOK'
    BY <1>2 DEF Unregister
  <1>3. CASE Close
    <2>1. sock' \in [Socks -> {"gone", "held", "routed"}] /\ ttl' \in [Socks -> 0..Grace]
      BY <1>3, ConstantTypes DEF Close
    <2>2. QED
      BY <1>3, <2>1 DEF Close
  <1>4. ASSUME NEW r \in Routes, Resume(r) PROVE TypeOK'
    <2>1. CASE Arm(r)
      <3>1. /\ sock' \in [Socks -> {"gone", "held", "routed"}]
            /\ owner' \in [Socks -> Routes \cup {NoRoute}]
            /\ ttl' \in [Socks -> 0..Grace]
        <4>1. Owed(r) \in SUBSET Socks
          BY DEF Owed, Held
        <4>2. QED
          BY <2>1, <4>1, DeliverEffect DEF Arm
      <3>2. QED
        BY <1>4, <2>1, <3>1 DEF Arm, Resume
    <2>2. CASE Refuse(r)
      BY <1>4, <2>2 DEF Refuse, Resume
    <2>3. QED
      BY <1>4, <2>1, <2>2 DEF Resume
  <1>5. ASSUME NEW p \in Ports, ListenUp(p) \/ ListenFails(p) \/ ClosePort(p) PROVE TypeOK'
    BY <1>5 DEF ListenUp, ListenFails, ClosePort, CloseNext, StopAccepting, ListenerClosed
  <1>6. ASSUME NEW r \in Routes, LateResolve(r) PROVE TypeOK'
    <2>1. PICK a \in Owned[r] \ ips[r] :
            /\ ips' = [ips EXCEPT ![r] = @ \cup {a}]
            /\ late' = IF r \in armed THEN [late EXCEPT ![r] = @ \cup {a}] ELSE late
      BY <1>6 DEF LateResolve
    <2>2. a \in Sources
      BY ConstantTypes
    <2>3. QED
      BY <1>6, <2>1, <2>2 DEF LateResolve
  <1>7. ASSUME NEW s \in Socks, ConnectClaimed(s) PROVE TypeOK'
    <2>1. PICK r \in Claims(s) : Deliver(r, {s})
      BY <1>7 DEF ConnectClaimed
    <2>2. r \in Routes
      BY DEF Claims
    <2>3. QED
      BY <1>7, <2>1, <2>2, DeliverEffect DEF ConnectClaimed
  <1>8. ASSUME NEW s \in Socks, Hold(s) PROVE TypeOK'
    <2>1. Deadlines(s) \subseteq 0..Grace
      BY ConstantTypes DEF Deadlines, Group, Held
    <2>2. ttl' \in [Socks -> 0..Grace]
      BY <1>8, <2>1, ConstantTypes DEF Hold
    <2>3. sock' \in [Socks -> {"gone", "held", "routed"}]
      BY <1>8 DEF Hold
    <2>4. QED
      BY <1>8, <2>2, <2>3 DEF Hold
  <1>9. ASSUME NEW s \in Socks, PeerClose(s) \/ Expire(s) PROVE TypeOK'
    BY <1>9, ConstantTypes DEF PeerClose, Expire
  <1>10. CASE Tick
    <2>1. ttl' \in [Socks -> 0..Grace]
      BY <1>10, ConstantTypes DEF Tick, Held
    <2>2. QED
      BY <1>10, <2>1 DEF Tick
  <1>11. CASE UNCHANGED vars
    BY <1>11 DEF vars
  <1>12. QED
    BY <1>1, <1>2, <1>3, <1>4, <1>5, <1>6, <1>7, <1>8, <1>9, <1>10, <1>11
    DEF Next, Caller, Continuation, Listening, Peer, Timer

-----------------------------------------------------------------------------
(* Listeners *)

\* A listener leaves the map only when it fails or close() captures it, listen() of
\* one port is not called again while it is open, and closeServers() drops a port
\* only when its listener is gone.
LEMMA ForgottenNext == TypeOK /\ NoForgottenListener /\ [Next]_vars => NoForgottenListener'
  <1> SUFFICES ASSUME TypeOK, NoForgottenListener, [Next]_vars PROVE NoForgottenListener'
    OBVIOUS
  <1> USE DEF TypeOK, NoForgottenListener, listening, closing
  <1>1. ASSUME NEW r \in Routes, Register(r) PROVE NoForgottenListener'
    BY <1>1, ConstantTypes DEF Register
  <1>2. ASSUME NEW r \in Routes, Resume(r) PROVE NoForgottenListener'
    BY <1>2, ConstantTypes DEF Resume, Arm, Refuse
  <1>3. ASSUME NEW q \in Ports, ListenUp(q) \/ ListenFails(q) PROVE NoForgottenListener'
    BY <1>3 DEF ListenUp, ListenFails
  <1>4. CASE Close
    BY <1>4 DEF Close
  <1>5. ASSUME NEW q \in Ports, ClosePort(q) PROVE NoForgottenListener'
    <2>1. CASE CloseNext(q)
      BY <2>1, ConstantTypes DEF CloseNext
    <2>2. CASE StopAccepting(q)
      BY <2>2, ConstantTypes DEF StopAccepting
    <2>3. CASE ListenerClosed(q)
      BY <2>3, ConstantTypes DEF ListenerClosed
    <2>4. QED
      BY <1>5, <2>1, <2>2, <2>3 DEF ClosePort
  <1>6. CASE UNCHANGED listening
    BY <1>6
  <1>7. QED
    BY <1>1, <1>2, <1>3, <1>4, <1>5, <1>6 DEF Next, Caller, Continuation, Listening, Peer, Timer,
        Unregister, LateResolve, ConnectClaimed, Hold, PeerClose, Expire, Tick, vars

\* Only holding a connection adds to the held ones.
LEMMA HeldShrinks ==
    ASSUME TypeOK, [Next]_vars, \A s \in Socks : ~Hold(s)
    PROVE  Held' \subseteq Held
  <1> USE DEF TypeOK, Held, conns
  <1>1. ASSUME NEW r \in Routes, Resume(r) PROVE Held' \subseteq Held
    <2>1. CASE Arm(r)
      <3>1. Owed(r) \in SUBSET Socks
        BY DEF Owed
      <3>2. QED
        BY <2>1, <3>1, DeliverEffect DEF Arm
    <2>2. CASE Refuse(r)
      BY <2>2 DEF Refuse
    <2>3. QED
      BY <1>1, <2>1, <2>2 DEF Resume
  <1>2. ASSUME NEW s \in Socks, ConnectClaimed(s) PROVE Held' \subseteq Held
    <2>1. PICK r \in Claims(s) : Deliver(r, {s})
      BY <1>2 DEF ConnectClaimed
    <2>2. r \in Routes
      BY DEF Claims
    <2>3. QED
      BY <2>1, <2>2, DeliverEffect
  <1>3. ASSUME NEW s \in Socks, PeerClose(s) \/ Expire(s) PROVE Held' \subseteq Held
    BY <1>3 DEF PeerClose, Expire
  <1>4. CASE Close
    BY <1>4 DEF Close
  <1>5. CASE UNCHANGED sock
    BY <1>5
  <1>6. QED
    BY <1>1, <1>2, <1>3, <1>4, <1>5 DEF Next, Caller, Continuation, Listening, Peer, Timer,
        Register, Unregister, ListenUp, ListenFails, ClosePort, CloseNext, StopAccepting,
        ListenerClosed, LateResolve, Tick, vars

\* close() empties the tables, and a register() that it overtook is refused.
LEMMA ClosedNext == TypeOK /\ ClosedIsEmpty /\ [Next]_vars => ClosedIsEmpty'
  <1> SUFFICES ASSUME TypeOK, ClosedIsEmpty, [Next]_vars, closed'
               PROVE  armed' = {} /\ Held' = {}
    BY DEF ClosedIsEmpty
  <1>1. CASE Close
    BY <1>1 DEF Close, Held, TypeOK
  <1>2. CASE ~Close
    <2>1. closed
      BY <1>2 DEF Next, Caller, Continuation, Listening, Peer, Timer, Register, Unregister, Resume,
          ListenUp, ListenFails, ClosePort, CloseNext, StopAccepting, ListenerClosed, LateResolve,
          ConnectClaimed, Hold, PeerClose, Expire, Tick, listening, vars
    <2>2. armed = {} /\ Held = {}
      BY <2>1 DEF ClosedIsEmpty
    <2>3. \A s \in Socks : ~Hold(s)
      BY <2>1 DEF Hold
    <2>4. Held' = {}
      BY <2>2, <2>3, HeldShrinks
    <2>5. armed' = {}
      BY <1>2, <2>1, <2>2 DEF Next, Caller, Continuation, Listening, Peer, Timer, Register, Unregister,
          Resume, Arm, Refuse, ListenUp, ListenFails, ClosePort, CloseNext, StopAccepting,
          ListenerClosed, LateResolve, ConnectClaimed, Hold, PeerClose, Expire, Tick, routing, vars
    <2>6. QED
      BY <2>4, <2>5
  <1>3. QED
    BY <1>1, <1>2

\* A listener that goes away serves no armed route: it is either opening, and
\* routes are armed only when it is up, or closed with the registry.
LEMMA ArmedNext ==
    TypeOK /\ NoForgottenListener /\ ClosedIsEmpty /\ ArmedIsListening /\ [Next]_vars
        => ArmedIsListening'
  <1> SUFFICES ASSUME TypeOK, NoForgottenListener, ClosedIsEmpty, ArmedIsListening, [Next]_vars,
                      NEW r \in armed'
               PROVE  listener'[PortOf[r]] = "up"
    BY DEF ArmedIsListening
  <1>1. ASSUME NEW q \in Routes, Register(q) PROVE listener'[PortOf[r]] = "up"
    <2>1. r \in armed /\ r \in Routes /\ PortOf[r] \in Ports
      BY <1>1, ConstantTypes DEF Register, TypeOK
    <2>2. listener[PortOf[r]] = "up" /\ entry[PortOf[r]]
      BY <1>1, <2>1 DEF Register, ArmedIsListening, NoForgottenListener
    <2>3. QED
      BY <1>1, <2>1, <2>2, ConstantTypes DEF Register, TypeOK
  <1>2. ASSUME NEW q \in Routes, Resume(q) PROVE listener'[PortOf[r]] = "up"
    BY <1>2 DEF Resume, Arm, Refuse, Resumable, ArmedIsListening
  <1>3. ASSUME NEW p \in Ports, ListenUp(p) \/ ListenFails(p) \/ ClosePort(p)
        PROVE  listener'[PortOf[r]] = "up"
    <2>1. r \in armed /\ PortOf[r] \in Ports /\ listener[PortOf[r]] = "up"
      BY <1>3, ConstantTypes
      DEF ListenUp, ListenFails, ClosePort, CloseNext, StopAccepting, ListenerClosed, routing,
      TypeOK, ArmedIsListening
    <2>2. ~closed /\ toClose = {} /\ at = NoPort
      BY <2>1 DEF ClosedIsEmpty, NoForgottenListener
    <2>3. ~ClosePort(p)
      BY <2>2, ConstantTypes DEF ClosePort, CloseNext, StopAccepting, ListenerClosed
    <2>4. QED
      BY <1>3, <2>1, <2>3 DEF ListenUp, ListenFails, TypeOK
  <1>4. CASE UNCHANGED listener /\ armed' \subseteq armed
    BY <1>4 DEF ArmedIsListening
  <1>5. QED
    BY <1>1, <1>2, <1>3, <1>4 DEF Next, Caller, Close, Continuation, Listening, Peer, Timer,
        Unregister, LateResolve, ConnectClaimed, Hold, PeerClose, Expire, Tick, listening, routing, vars

-----------------------------------------------------------------------------
(* Routing *)

\* A route's source set holds addresses of its own camera only.
OwnAddresses == \A r \in Routes : ips[r] \subseteq Owned[r]

\* Literals, their normal forms and DNS answers of a route are its own camera's.
LEMMA OwnNext == TypeOK /\ OwnAddresses /\ [Next]_vars => OwnAddresses'
  <1> SUFFICES ASSUME TypeOK, OwnAddresses, [Next]_vars, NEW r \in Routes
               PROVE  ips'[r] \subseteq Owned[r]
    BY DEF OwnAddresses
  <1>1. ASSUME NEW q \in Routes, Register(q) PROVE ips'[r] \subseteq Owned[r]
    <2>1. PICK known \in SUBSET Owned[q] : ips' = [ips EXCEPT ![q] = known]
      BY <1>1 DEF Register
    <2>2. QED
      BY <2>1 DEF TypeOK, OwnAddresses
  <1>2. ASSUME NEW q \in Routes, LateResolve(q) PROVE ips'[r] \subseteq Owned[r]
    <2>1. PICK a \in Owned[q] \ ips[q] : ips' = [ips EXCEPT ![q] = @ \cup {a}]
      BY <1>2 DEF LateResolve
    <2>2. QED
      BY <2>1 DEF TypeOK, OwnAddresses
  <1>3. CASE UNCHANGED ips
    BY <1>3 DEF OwnAddresses
  <1>4. QED
    BY <1>1, <1>2, <1>3 DEF Next, Caller, Close, Continuation, Listening, Peer, Timer, Unregister,
        Resume, ListenUp, ListenFails, ClosePort, CloseNext, StopAccepting, ListenerClosed,
        ConnectClaimed, Hold, PeerClose, Expire, Tick, routing, vars

\* How a connection becomes or stays routed in a step.
LEMMA RoutedStep ==
    ASSUME TypeOK, [Next]_vars, NEW s \in Socks, sock'[s] = "routed"
    PROVE  \/ sock[s] = "routed" /\ owner'[s] = owner[s]
           \/ /\ owner'[s] \in armed' /\ owner'[s] \in Routes
              /\ PortOf[owner'[s]] = SockPort[s]
              /\ Src(s) \in ips[owner'[s]] /\ ips' = ips
  <1> DEFINE Stays == sock[s] = "routed" /\ owner'[s] = owner[s]
             Comes == /\ owner'[s] \in armed' /\ owner'[s] \in Routes
                      /\ PortOf[owner'[s]] = SockPort[s]
                      /\ Src(s) \in ips[owner'[s]] /\ ips' = ips
  <1>1. ASSUME NEW r \in Routes, Resume(r) PROVE Stays \/ Comes
    <2>1. CASE Arm(r)
      <3>1. Owed(r) \in SUBSET Socks
        BY DEF Owed, Held
      <3>2. (s \in Owed(r) /\ owner'[s] = r) \/ Stays
        BY <2>1, <3>1, DeliverEffect DEF Arm
      <3>3. ASSUME s \in Owed(r), owner'[s] = r PROVE Comes
        BY <1>1, <2>1, <3>3 DEF Owed, Arm, Resume
      <3>4. QED
        BY <3>2, <3>3
    <2>2. CASE Refuse(r)
      BY <2>2 DEF Refuse, conns
    <2>3. QED
      BY <1>1, <2>1, <2>2 DEF Resume
  <1>2. ASSUME NEW t \in Socks, ConnectClaimed(t) PROVE Stays \/ Comes
    <2>1. PICK r \in Claims(t) : Deliver(r, {t})
      BY <1>2 DEF ConnectClaimed
    <2>2. r \in Routes /\ r \in armed /\ PortOf[r] = SockPort[t] /\ Src(t) \in ips[r]
      BY DEF Claims, TypeOK
    <2>3. (s = t /\ owner'[s] = r) \/ Stays
      BY <2>1, <2>2, DeliverEffect
    <2>4. armed' = armed /\ ips' = ips
      BY <1>2 DEF ConnectClaimed, routing
    <2>5. QED
      BY <2>2, <2>3, <2>4
  <1>3. ASSUME NEW t \in Socks, Hold(t) \/ PeerClose(t) \/ Expire(t) PROVE Stays
    BY <1>3 DEF Hold, PeerClose, Expire, TypeOK
  <1>4. CASE Close
    BY <1>4 DEF Close, TypeOK
  <1>5. CASE UNCHANGED <<sock, owner>>
    BY <1>5
  <1>6. QED
    BY <1>1, <1>2, <1>3, <1>4, <1>5 DEF Next, Caller, Continuation, Listening, Peer, Timer,
        Register, Unregister, ListenUp, ListenFails, ClosePort, CloseNext, StopAccepting,
        ListenerClosed, LateResolve, Tick, conns, vars

\* A delivery matches the route's set, which holds its own camera's addresses.
LEMMA WrongCameraNext ==
    TypeOK /\ OwnAddresses /\ NoWrongCamera /\ [Next]_vars => NoWrongCamera'
  <1> SUFFICES ASSUME TypeOK, OwnAddresses, NoWrongCamera, [Next]_vars,
                      NEW s \in Socks, sock'[s] = "routed"
               PROVE  /\ owner'[s] \in Routes
                      /\ PortOf[owner'[s]] = SockPort[s]
                      /\ Src(s) \in Owned[owner'[s]]
    BY DEF NoWrongCamera
  <1>1. CASE sock[s] = "routed" /\ owner'[s] = owner[s]
    BY <1>1 DEF NoWrongCamera
  <1>2. CASE /\ owner'[s] \in Routes /\ PortOf[owner'[s]] = SockPort[s]
             /\ Src(s) \in ips[owner'[s]]
    BY <1>2 DEF OwnAddresses
  <1>3. QED
    BY <1>1, <1>2, RoutedStep

-----------------------------------------------------------------------------
(* Held connections *)

\* holdPending() replaces the held connection of the same source.
LEMMA PendingNext == TypeOK /\ OnePendingPerSource /\ [Next]_vars => OnePendingPerSource'
  <1> SUFFICES ASSUME TypeOK, OnePendingPerSource, [Next]_vars,
                      NEW s \in Held', NEW t \in Held', SockPort[s] = SockPort[t], Src(s) = Src(t)
               PROVE  s = t
    BY DEF OnePendingPerSource
  <1>1. ASSUME NEW u \in Socks, Hold(u) PROVE s = t
    <2>1. \A v \in Held' : v = u \/ (v \in Held /\ v \notin Group(u))
      BY <1>1 DEF Hold, Held, TypeOK
    <2>2. \A v \in Held : SockPort[v] = SockPort[u] /\ Src(v) = Src(u) => v \in Group(u)
      BY DEF Group
    <2>3. QED
      BY <2>1, <2>2 DEF OnePendingPerSource
  <1>2. CASE \A u \in Socks : ~Hold(u)
    BY <1>2, HeldShrinks DEF OnePendingPerSource
  <1>3. QED
    BY <1>1, <1>2

\* Arming flushes what is owed; holding finds no claim; a set that grows under
\* an armed route is recorded in late.
LEMMA UnclaimedNext == TypeOK /\ HeldIsUnclaimed /\ [Next]_vars => HeldIsUnclaimed'
  <1> SUFFICES ASSUME TypeOK, HeldIsUnclaimed, [Next]_vars, NEW s \in Held', NEW r \in armed',
                      PortOf[r] = SockPort[s], Src(s) \in ips'[r]
               PROVE  Src(s) \in late'[r]
    BY DEF HeldIsUnclaimed
  <1>1. ASSUME NEW u \in Socks, Hold(u) PROVE Src(s) \in late'[r]
    <2>1. r \in armed /\ ips' = ips /\ late' = late
      BY <1>1 DEF Hold, routing
    <2>2. s = u \/ s \in Held
      BY <1>1 DEF Hold, Held, TypeOK
    <2>3. s # u
      BY <1>1, <2>1 DEF Hold, Claims
    <2>4. QED
      BY <2>1, <2>2, <2>3 DEF HeldIsUnclaimed
  <1>2. ASSUME NEW q \in Routes, Resume(q) PROVE Src(s) \in late'[r]
    <2>1. ips' = ips /\ late' = late
      BY <1>2 DEF Resume
    <2>2. s \in Held
      <3>1. \A u \in Socks : ~Hold(u)
        BY <1>2 DEF Hold, Quiet, Resume
      <3>2. QED
        BY <3>1, HeldShrinks
    <2>3. CASE r \in armed
      BY <2>1, <2>2, <2>3 DEF HeldIsUnclaimed
    <2>4. CASE r \notin armed
      <3>1. r = q /\ Arm(q)
        BY <1>2, <2>4 DEF Resume, Arm, Refuse
      <3>2. s \in Owed(q)
        BY <2>1, <2>2, <3>1 DEF Owed
      <3>3. Owed(q) \in SUBSET Socks
        BY DEF Owed, Held
      <3>4. sock'[s] # "held"
        BY <3>1, <3>2, <3>3, DeliverEffect DEF Arm
      <3>5. QED
        BY <3>4 DEF Held
    <2>5. QED
      BY <2>3, <2>4
  <1>3. ASSUME NEW q \in Routes, LateResolve(q) PROVE Src(s) \in late'[r]
    <2>1. PICK a \in Owned[q] \ ips[q] :
            /\ ips' = [ips EXCEPT ![q] = @ \cup {a}]
            /\ late' = IF q \in armed THEN [late EXCEPT ![q] = @ \cup {a}] ELSE late
      BY <1>3 DEF LateResolve
    <2>2. s \in Held /\ r \in armed /\ r \in Routes
      BY <1>3 DEF LateResolve, conns, Held, TypeOK
    <2>3. CASE r = q
      BY <2>1, <2>2, <2>3 DEF HeldIsUnclaimed, TypeOK
    <2>4. CASE r # q
      BY <2>1, <2>2, <2>4 DEF HeldIsUnclaimed, TypeOK
    <2>5. QED
      BY <2>3, <2>4
  <1>4. ASSUME NEW q \in Routes, Register(q) PROVE Src(s) \in late'[r]
    <2>1. PICK known \in SUBSET Owned[q] : ips' = [ips EXCEPT ![q] = known]
      BY <1>4 DEF Register
    <2>2. s \in Held /\ r \in armed /\ r \in Routes /\ r # q
      BY <1>4 DEF Register, conns, Held, TypeOK
    <2>3. ips'[r] = ips[r] /\ late'[r] = late[r]
      BY <1>4, <2>1, <2>2 DEF Register, TypeOK
    <2>4. QED
      BY <2>2, <2>3 DEF HeldIsUnclaimed
  <1>5. CASE /\ UNCHANGED <<ips, late>> /\ armed' \subseteq armed
             /\ \A u \in Socks : ~Hold(u)
    BY <1>5, HeldShrinks DEF HeldIsUnclaimed
  <1>6. CASE \A u \in Socks : ~Hold(u)
    BY <1>2, <1>3, <1>4, <1>5, <1>6 DEF Next, Caller, Close, Continuation, Listening, Peer, Timer,
        Unregister, ListenUp, ListenFails, ClosePort, CloseNext, StopAccepting, ListenerClosed,
        ConnectClaimed, PeerClose, Expire, Tick, routing, vars
  <1>7. QED
    BY <1>1, <1>6

\* No step puts off the deadline of a held source.
LEMMA DeadlineNext ==
    ASSUME TypeOK, OnePendingPerSource, [Next]_vars,
           NEW s \in Socks, NEW t \in Socks, sock[s] = "held", sock'[t] = "held",
           SockPort[s] = SockPort[t], Src(s) = Src(t)
    PROVE  ttl'[t] <= ttl[s]
  <1> ttl[s] \in Nat /\ ttl \in [Socks -> 0..Grace]
    BY ConstantTypes DEF TypeOK
  <1>1. ASSUME NEW u \in Socks, Hold(u) PROVE ttl'[t] <= ttl[s]
    <2>1. PICK deadline \in Deadlines(u) :
            ttl' = [v \in Socks |-> IF v = u THEN deadline
                                    ELSE IF v \in Group(u) THEN 0 ELSE ttl[v]]
      BY <1>1 DEF Hold
    <2>2. CASE t = u
      <3>1. s \in Group(u) /\ \A v \in Group(u) : v = s
        BY <2>2 DEF Group, Held, OnePendingPerSource
      <3>2. deadline = ttl[s]
        BY <3>1 DEF Deadlines
      <3>3. QED
        BY <2>1, <2>2, <3>2
    <2>3. CASE t # u
      <3>1. t \in Held /\ t \notin Group(u)
        BY <1>1, <2>3 DEF Hold, Held, TypeOK
      <3>2. s = t
        BY <3>1 DEF Held, OnePendingPerSource
      <3>3. QED
        BY <2>1, <2>3, <3>1, <3>2
    <2>4. QED
      BY <2>2, <2>3
  <1>2. CASE \A u \in Socks : ~Hold(u)
    <2>1. s = t
      <3>1. t \in Held
        BY <1>2, HeldShrinks DEF Held
      <3>2. QED
        BY <3>1 DEF Held, OnePendingPerSource
    <2>2. ASSUME NEW r \in Routes, NEW batch \in SUBSET Socks, Deliver(r, batch)
          PROVE  ttl'[t] <= ttl[t]
      BY <2>2, ConstantTypes DEF Deliver
    <2>3. ASSUME NEW r \in Routes, Resume(r) PROVE ttl'[t] <= ttl[t]
      <3>1. Owed(r) \in SUBSET Socks
        BY DEF Owed, Held
      <3>2. CASE Arm(r)
        BY <2>2, <3>1, <3>2 DEF Arm
      <3>3. CASE Refuse(r)
        BY <3>3, <2>1 DEF Refuse, conns
      <3>4. QED
        BY <2>3, <3>2, <3>3 DEF Resume
    <2>4. ASSUME NEW v \in Socks, ConnectClaimed(v) PROVE ttl'[t] <= ttl[t]
      <3>1. PICK r \in Claims(v) : Deliver(r, {v})
        BY <2>4 DEF ConnectClaimed
      <3>2. r \in Routes
        BY DEF Claims, TypeOK
      <3>3. QED
        BY <2>2, <3>1, <3>2
    <2>5. ASSUME NEW v \in Socks, PeerClose(v) PROVE ttl'[t] <= ttl[t]
      BY <2>5, <2>1 DEF PeerClose
    <2>6. CASE Tick
      BY <2>6, <2>1 DEF Tick
    <2>7. CASE Close
      BY <2>7, <2>1 DEF Close
    <2>8. CASE UNCHANGED ttl
      BY <2>8, <2>1
    <2>9. CASE \/ Caller \/ Listening
               \/ \E p \in Ports : ClosePort(p)
               \/ \E r \in Routes : LateResolve(r)
      BY <2>1, <2>8, <2>9 DEF Caller, Listening, Register, Unregister, ListenUp, ListenFails, ClosePort,
          CloseNext, StopAccepting, ListenerClosed, LateResolve, conns
    <2>10. CASE Peer \/ Timer
      BY <1>2, <2>1, <2>4, <2>5, <2>6, <2>8, <2>10 DEF Peer, Timer, Expire
    <2>11. QED
      BY <2>1, <2>3, <2>7, <2>8, <2>9, <2>10 DEF Next, Continuation, vars, conns
  <1>3. QED
    BY <1>1, <1>2

-----------------------------------------------------------------------------
(* The inductive invariant and the theorems *)

IInv ==
    /\ TypeOK
    /\ NoForgottenListener /\ ClosedIsEmpty /\ ArmedIsListening
    /\ OwnAddresses /\ NoWrongCamera
    /\ OnePendingPerSource /\ HeldIsUnclaimed

\* The conjunction of the lemmas above is inductive, so it always holds.
LEMMA Inductive == Spec => []IInv
  <1>1. Init => IInv
    BY TypeInit DEF Init, IInv, NoForgottenListener, ClosedIsEmpty, ArmedIsListening, OwnAddresses,
        NoWrongCamera, OnePendingPerSource, HeldIsUnclaimed, Held
  <1>2. IInv /\ [Next]_vars => IInv'
    BY TypeNext, ForgottenNext, ClosedNext, ArmedNext, OwnNext, WrongCameraNext, PendingNext,
        UnclaimedNext DEF IInv
  <1>3. QED
    BY <1>1, <1>2, PTL DEF Spec

\* Every reachable state is well-typed: each field keeps the range it has in
\* the code, for all ports, cameras, streams and connections.
THEOREM TypeCorrect == Spec => []TypeOK
  BY Inductive, PTL DEF IInv

\* dispatch(), holdPending() and the flush of register() never hand a
\* connection to another camera's or another track's stream.
THEOREM NeverWrongCamera == Spec => []NoWrongCamera
  BY Inductive, PTL DEF IInv

\* register() leaves no connection in the grace hold that its route claims, and
\* holdPending() keeps one connection per port and normalized source.
THEOREM HoldStaysOrderly == Spec => []HoldIsOrderly
  BY Inductive, PTL DEF IInv, HoldIsOrderly

\* register() arms a route only behind a listener, no failure or close leaves
\* an armed route deaf, an open registry's map knows every listener, each listener
\* that outlives close() is in the list of closeServers(), and after close()
\* nothing is armed or held, also not by a register() it overtook.
THEOREM ListenersStayInAgreement == Spec => []ListenersAgree
  BY Inductive, PTL DEF IInv, ListenersAgree

\* The two together: the registry's tables stay in agreement with each other and
\* with the sockets.
THEOREM RegistryStaysInOrder == Spec => []RegistryInOrder
  BY HoldStaysOrderly, ListenersStayInAgreement, PTL DEF RegistryInOrder

\* holdPending() takes over the deadline of the connection it replaces, so no
\* retry puts off the report of a source.
THEOREM DeadlinesStand == Spec => DeadlineStands
  <1>1. IInv /\ [Next]_vars =>
          [\A s, t \in Socks :
             /\ sock[s] = "held" /\ sock'[t] = "held"
             /\ SockPort[s] = SockPort[t] /\ Src(s) = Src(t)
             => ttl'[t] <= ttl[s]]_vars
    BY DeadlineNext DEF IInv
  <1>2. QED
    BY <1>1, Inductive, PTL DEF Spec, DeadlineStands

\* A connection becomes routed only to an armed route that claims its source.
THEOREM RoutedOnlyToClaimants == Spec => RoutedOnlyByClaim
  <1>1. TypeOK /\ [Next]_vars =>
          [\A s \in Socks : sock[s] # "routed" /\ sock'[s] = "routed" =>
              owner'[s] \in armed' /\ Src(s) \in ips'[owner'[s]]]_vars
    BY RoutedStep
  <1>2. QED
    BY <1>1, TypeCorrect, PTL DEF Spec, RoutedOnlyByClaim
=============================================================================
