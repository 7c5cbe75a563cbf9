--------------------------- MODULE ProviderProofs ---------------------------
(***************************************************************************)
(* Proofs about Provider and Controller, for every number of emulators,    *)
(* connections, MACs and cameras.  The argument:                           *)
(*                                                                         *)
(*   - By itself an emulator keeps sessions and sockets together (CInv);   *)
(*     one lemma for each of its operations says what that changes of      *)
(*     isOnline().                                                         *)
(*   - Of the emulators only the one of the attempt under way may hold the *)
(*     port, once shutdown() began only the one it took: an attempt goes   *)
(*     on to the next only over a stopped one (AttemptsGoOn).              *)
(*   - A camera was told of an emulator that had started, so the listeners *)
(*     of a new one find no camera told of it; from then on each change of *)
(*     isOnline() is an event, or takes the listeners away (CamAgrees).    *)
(*   - shutdown() takes the timers, the cameras and the listeners at once, *)
(*     and what would arm or make one again asks whether it has begun.     *)
(***************************************************************************)
EXTENDS Provider, TLAPS

(* The inductive invariant. *)

\* A slot in use is a connection to one of the emulators; only a session shakes
\* hands.
InOrder(x) ==
    /\ x.st = "free" => x = Free
    /\ x.st # "free" => x.emu \in Emus
    /\ x.hs # "none" => x.st = "session"

ConnsInOrder == \A c \in Conns : InOrder(conn[c])

\* The emulators that may hold the port: that of the attempt under way, or the
\* running one; once shutdown() began only the one it took.
OwnerOf == IF ShuttingDown THEN down.emu ELSE current

OnlyOwnerListens == \A e \in Emus : e # OwnerOf => server[e] \in Ended

\* What an attempt of init() has at each of its awaits.
AttemptsGoOn ==
    ~ShuttingDown =>
        /\ init.at \in {"tls", "listen", "load", "cleanup"} => ~retry /\ ~running
        /\ init.at \in {"listen", "load", "cleanup"} => current = init.emu
        /\ init.at = "tls" \/ retry => current = None
        /\ init.at \in {"tls", "cleanup"} \/ retry => heard = {}
        /\ init.at = "listen" => server[current] \in {"opening", "up", "failed"}
        /\ init.at = "load" \/ running => server[current] = "up"
        /\ init.at # "abort"
        /\ init.at = "idle" => retry # running
        /\ running => current # None
        /\ heard \subseteq {current}

\* The current emulator is not one that was never started.
CurrentStarted == current # None => server[current] # "new"

\* What OnlineAgrees says of one camera, and what it needs: it was told only of an
\* emulator that had started, and one without a MAC is not online.
CamAgrees(k) ==
    LET m == cams[k].mac
    IN  /\ cams[k].told[1] \in Emus => server[cams[k].told[1]] # "new"
        /\ cams[k].st = "live" /\ current # None /\ cams[k].told[1] = current
             /\ cams[k].told[2] = m =>
               /\ m = None => ~cams[k].online
               /\ m # None /\ current \in heard =>
                      \/ cams[k].online = IsOnline(current, m)
                      \/ cams[k].online /\ sessions[current][m] # None

CamerasAgree == \A k \in Cams : CamAgrees(k)

IInv ==
    /\ TypeOK /\ ConnsInOrder /\ SessionsAreOwned
    /\ OnlyOwnerListens /\ AttemptsGoOn /\ CurrentStarted
    /\ CamerasAgree /\ NothingOutlives
-----------------------------------------------------------------------------
(* The emulator by itself. *)

CInv == ControllerTypeOK /\ ConnsInOrder /\ SessionsAreOwned

\* A connection after a change of one of its fields is a connection.
LEMMA ConnTypes ==
    /\ Free \in Connections
    /\ \A x \in Connections : /\ x.st \in ConnStates /\ x.hs \in Handshake
                              /\ x.emu \in Emus \cup {None} /\ x.mac \in Macs \cup {None}
    /\ \A x \in Connections, s \in ConnStates : [x EXCEPT !.st = s] \in Connections
    /\ \A x \in Connections, h \in Handshake : [x EXCEPT !.hs = h] \in Connections
    /\ \A x \in Connections, s \in ConnStates, h \in Handshake :
           [x EXCEPT !.st = s, !.hs = h] \in Connections
    /\ \A x \in Connections, s \in ConnStates, m \in Macs :
           [x EXCEPT !.st = s, !.mac = m] \in Connections
    /\ \A x \in Connections, s \in ConnStates, e \in Emus :
           [x EXCEPT !.st = s, !.emu = e] \in Connections
  <1>1. /\ Free \in Connections
        /\ \A x \in Connections : /\ x.st \in ConnStates /\ x.hs \in Handshake
                                  /\ x.emu \in Emus \cup {None} /\ x.mac \in Macs \cup {None}
    BY DEF Connections, Free, ConnStates, Handshake
  <1>2. /\ \A x \in Connections, s \in ConnStates : [x EXCEPT !.st = s] \in Connections
        /\ \A x \in Connections, h \in Handshake : [x EXCEPT !.hs = h] \in Connections
    BY DEF Connections
  <1>3. \A x \in Connections, s \in ConnStates, h \in Handshake :
            [x EXCEPT !.st = s, !.hs = h] \in Connections
    BY DEF Connections
  <1>4. \A x \in Connections, s \in ConnStates, m \in Macs :
            [x EXCEPT !.st = s, !.mac = m] \in Connections
    BY DEF Connections
  <1>5. \A x \in Connections, s \in ConnStates, e \in Emus :
            [x EXCEPT !.st = s, !.emu = e] \in Connections
    BY DEF Connections
  <1>6. QED
    BY <1>1, <1>2, <1>3, <1>4, <1>5

\* A session's connection names an emulator and a MAC, which have it.
LEMMA SessionFacts ==
    ASSUME CInv, NEW c \in Conns, conn[c].st = "session"
    PROVE  /\ conn[c].emu \in Emus /\ conn[c].mac \in Macs
           /\ sessions[conn[c].emu][conn[c].mac] = c
  <1>1. conn[c].mac # None /\ sessions[conn[c].emu][conn[c].mac] = c
    BY DEF CInv, SessionsAreOwned, IsCurrent
  <1>2. conn[c].st # "free" /\ conn[c] \in Connections
    BY DEF CInv, ControllerTypeOK
  <1>3. conn[c].mac \in Macs
    BY <1>1, <1>2, ConnTypes
  <1>4. conn[c].emu \in Emus
    BY <1>2 DEF CInv, ConnsInOrder, InOrder
  <1>5. QED
    BY <1>1, <1>3, <1>4

\* stop() takes the sessions with their sockets, and no ended server changes.
LEMMA StopNext ==
    ASSUME CInv, NEW e \in Emus, Stop(e)
    PROVE  /\ CInv'
           /\ \A f \in Emus \ {e} : server'[f] = server[f]
           /\ server[e] \in Ended => server'[e] = server[e]
           /\ server'[e] = "new" => server[e] = "new"
  <1>1. CASE stopping[e]
    BY <1>1 DEF Stop, controller, CInv, ControllerTypeOK, ConnsInOrder, InOrder,
                SessionsAreOwned, IsCurrent
  <1>2. CASE ~stopping[e]
    <2> DEFINE gone == {c \in Conns : \E m \in Macs : sessions[e][m] = c}
    <2>1. /\ stopping' = [stopping EXCEPT ![e] = TRUE]
          /\ sessions' = [sessions EXCEPT ![e] = [m \in Macs |-> None]]
          /\ server' = [server EXCEPT ![e] = IF @ = "opening" THEN "stale"
                                             ELSE IF @ = "up" THEN "closing" ELSE @]
      BY <1>2 DEF Stop
    <2>2. conn' = [c \in Conns |-> IF c \in gone
                       THEN [conn[c] EXCEPT !.st = "destroyed", !.hs = "none"] ELSE conn[c]]
      BY <1>2 DEF Stop
    <2>3. \A c \in Conns : c \in gone <=> \E m \in Macs : sessions[e][m] = c
      OBVIOUS
    <2> HIDE DEF gone
    <2>4. /\ server' \in [Emus -> ServerStates] /\ stopping' \in [Emus -> BOOLEAN]
          /\ conn' \in [Conns -> Connections]
          /\ sessions' \in [Emus -> [Macs -> Conns \cup {None}]]
      BY <2>1, <2>2, ConnTypes, Zenon
         DEF CInv, ControllerTypeOK, ServerStates, ConnStates, Handshake
    <2>5. \A c \in Conns :
              IF c \in gone
              THEN /\ conn'[c].st = "destroyed" /\ conn'[c].emu = conn[c].emu
                   /\ conn'[c].hs = "none" /\ conn[c].st = "session"
              ELSE conn'[c] = conn[c]
      <3>1. ASSUME NEW c \in gone PROVE c \in Conns /\ conn[c].st = "session"
        BY <2>3, ControllerConstants DEF gone, CInv, SessionsAreOwned
      <3>2. QED
        BY <2>2, <3>1 DEF CInv, ControllerTypeOK, Connections
    <2>6. ConnsInOrder'
      BY <2>5 DEF CInv, ConnsInOrder, InOrder
    <2>7. SessionsAreOwned'
      <3>1. \A c \in Conns : conn'[c].st = "session" => conn'[c] = conn[c] /\ conn[c].emu # e
        BY <2>3, <2>5, SessionFacts
      <3>2. \A f \in Emus, m \in Macs : sessions'[f][m] = IF f = e THEN None ELSE sessions[f][m]
        BY <2>1 DEF CInv, ControllerTypeOK
      <3>3. \A f \in Emus, m \in Macs : f # e /\ sessions[f][m] # None => sessions[f][m] \notin gone
        BY <2>3 DEF CInv, ControllerTypeOK, SessionsAreOwned
      <3>4. \A f \in Emus, m \in Macs : sessions'[f][m] # None =>
                /\ conn'[sessions'[f][m]].st = "session"
                /\ conn'[sessions'[f][m]].emu = f /\ conn'[sessions'[f][m]].mac = m
        BY <2>5, <3>2, <3>3 DEF CInv, ControllerTypeOK, SessionsAreOwned
      <3>5. \A c \in Conns : conn'[c].st = "session" => IsCurrent(c)'
        BY <3>1, <3>2, SessionFacts, ControllerConstants DEF IsCurrent
      <3>6. QED
        BY <3>4, <3>5 DEF SessionsAreOwned
    <2>8. ControllerTypeOK'
      BY <2>4, <2>6 DEF ControllerTypeOK, ConnsInOrder, InOrder
    <2>9. QED
      BY <2>1, <2>6, <2>7, <2>8 DEF CInv, ControllerTypeOK, Ended
  <1>3. QED
    BY <1>1, <1>2

\* What the listener does: only an opening or a closing server changes.
LEMMA ListenerNext ==
    ASSUME CInv, NEW e \in Emus,
           Listening(e) \/ ListenFails(e) \/ ServerClosed(e) \/ StopResolved(e)
    PROVE  /\ CInv' /\ UNCHANGED <<conn, sessions>>
           /\ \A f \in Emus :
                  \/ server'[f] = server[f]
                  \/ server[f] = "opening" /\ server'[f] \in {"up", "failed"}
                  \/ server[f] \in {"stale", "closing"} /\ server'[f] \in Ended \ {"new"}
  <1> USE DEF CInv, ControllerTypeOK, ServerStates, Ended
  <1>1. UNCHANGED <<conn, sessions>>
    BY DEF Listening, ListenFails, ServerClosed, StopResolved
  <1>2. ConnsInOrder' /\ SessionsAreOwned'
    BY <1>1 DEF ConnsInOrder, InOrder, SessionsAreOwned, IsCurrent
  <1>3. CASE Listening(e)
    BY <1>1, <1>2, <1>3 DEF Listening
  <1>4. CASE ListenFails(e)
    BY <1>1, <1>2, <1>4 DEF ListenFails
  <1>5. CASE ServerClosed(e)
    BY <1>1, <1>2, <1>5 DEF ServerClosed
  <1>6. CASE StopResolved(e)
    BY <1>1, <1>2, <1>6 DEF StopResolved
  <1>7. QED
    BY <1>3, <1>4, <1>5, <1>6

\* A connection becomes x, and no session's socket but c's.
LEMMA OneConnChanges ==
    ASSUME CInv, NEW c \in Conns, NEW x \in Connections, conn' = [conn EXCEPT ![c] = x],
           UNCHANGED <<server, stopping, sessions>>,
           InOrder(x), x.st = "session" <=> conn[c].st = "session",
           x.st = "session" => x.emu = conn[c].emu /\ x.mac = conn[c].mac
    PROVE  /\ CInv'
           /\ \A f \in Emus, n \in Macs :
                  IsOnline(f, n)' <=> IF sessions[f][n] = c THEN x.hs = "authenticated"
                                      ELSE IsOnline(f, n)
  <1>1. conn'[c] = x /\ \A d \in Conns \ {c} : conn'[d] = conn[d]
    BY DEF CInv, ControllerTypeOK
  <1>2. ControllerTypeOK' /\ ConnsInOrder'
    BY <1>1 DEF CInv, ControllerTypeOK, ConnsInOrder, InOrder
  <1>3. SessionsAreOwned'
    BY <1>1 DEF CInv, ControllerTypeOK, SessionsAreOwned, IsCurrent
  <1>4. QED
    BY <1>1, <1>2, <1>3, ControllerConstants DEF CInv, ControllerTypeOK, IsOnline

\* What a camera does to its connection, short of 'online' and 'offline'.
LEMMA CameraNext ==
    ASSUME CInv, NEW c \in Conns, NEW m, NEW e,
           \/ e \in Emus /\ Connect(c, e)
           \/ m \in Macs /\ Upgrade(c, m)
           \/ Reject(c) \/ Hello(c) \/ HandshakeTimer(c)
    PROVE  /\ CInv' /\ UNCHANGED <<server, stopping>>
           /\ \A f \in Emus, n \in Macs :
                  /\ IsOnline(f, n)' => IsOnline(f, n)
                  /\ IsOnline(f, n) /\ ~IsOnline(f, n)' => sessions'[f][n] # None
                  /\ sessions[f][n] # None => sessions'[f][n] # None
  <1> DEFINE Result ==
                 /\ CInv' /\ UNCHANGED <<server, stopping>>
                 /\ \A f \in Emus, n \in Macs :
                        /\ IsOnline(f, n)' => IsOnline(f, n)
                        /\ IsOnline(f, n) /\ ~IsOnline(f, n)' => sessions'[f][n] # None
                        /\ sessions[f][n] # None => sessions'[f][n] # None
  <1>0. /\ conn[c] \in Connections
        /\ \A f \in Emus, n \in Macs :
               sessions[f][n] = c => conn[c].st = "session"
    BY ControllerConstants DEF CInv, ControllerTypeOK, SessionsAreOwned
  <1>1. ASSUME NEW x \in Connections, conn' = [conn EXCEPT ![c] = x],
               UNCHANGED <<server, stopping, sessions>>,
               InOrder(x), x.st = "session" <=> conn[c].st = "session",
               x.st = "session" => x.emu = conn[c].emu /\ x.mac = conn[c].mac,
               x.hs = "authenticated" => conn[c].hs = "authenticated"
        PROVE  Result
    <2>1. /\ CInv'
          /\ \A f \in Emus, n \in Macs :
                 IsOnline(f, n)' <=> IF sessions[f][n] = c THEN x.hs = "authenticated"
                                     ELSE IsOnline(f, n)
      BY <1>1, OneConnChanges
    <2>2. \A f \in Emus, n \in Macs : IsOnline(f, n)' => IsOnline(f, n)
      BY <1>1, <2>1, ControllerConstants DEF IsOnline
    <2>3. \A f \in Emus, n \in Macs : IsOnline(f, n) => sessions'[f][n] # None
      BY <1>1 DEF IsOnline
    <2>4. QED
      BY <1>1, <2>1, <2>2, <2>3
  <1>2. CASE e \in Emus /\ Connect(c, e)
    <2>1. /\ conn' = [conn EXCEPT ![c] = [Free EXCEPT !.st = "accepted", !.emu = e]]
          /\ conn[c] = Free /\ UNCHANGED <<server, stopping, sessions>>
      BY <1>2 DEF Connect
    <2>2. [Free EXCEPT !.st = "accepted", !.emu = e] \in Connections
      BY <1>2, ConnTypes DEF ConnStates
    <2>3. InOrder([Free EXCEPT !.st = "accepted", !.emu = e])
      BY <1>2 DEF Free, InOrder
    <2>4. /\ [Free EXCEPT !.st = "accepted", !.emu = e].st = "accepted"
          /\ [Free EXCEPT !.st = "accepted", !.emu = e].hs = "none"
          /\ conn[c].st = "free"
      BY <2>1 DEF Free
    <2>5. QED
      BY <1>1, <2>1, <2>2, <2>3, <2>4
  <1>3. CASE Reject(c)
    <2>1. /\ conn' = [conn EXCEPT ![c] = [conn[c] EXCEPT !.st = "rejected"]]
          /\ conn[c].st = "accepted" /\ UNCHANGED <<server, stopping, sessions>>
      BY <1>3 DEF Reject
    <2>2. /\ [conn[c] EXCEPT !.st = "rejected"] \in Connections
          /\ conn[c].emu \in Emus /\ conn[c].hs = "none"
      BY <1>0, <2>1, ConnTypes DEF ConnStates, CInv, ConnsInOrder, InOrder
    <2>3. QED
      BY <1>0, <1>1, <2>1, <2>2 DEF Connections, InOrder
  <1>4. CASE Hello(c) \/ HandshakeTimer(c)
    <2>1. PICK h \in {"none", "hello", "asked"} :
              /\ conn' = [conn EXCEPT ![c] = [conn[c] EXCEPT !.hs = h]]
              /\ UNCHANGED <<server, stopping, sessions>>
      BY <1>4 DEF Hello, HandshakeTimer
    <2>2. /\ [conn[c] EXCEPT !.hs = h] \in Connections
          /\ conn[c].st = "session" /\ conn[c].emu \in Emus
      BY <1>0, <1>4, ConnTypes, Zenon
         DEF Handshake, CInv, ConnsInOrder, InOrder, Hello, HandshakeTimer
    <2>3. QED
      BY <1>0, <1>1, <2>1, <2>2, Zenon DEF Connections, InOrder
  <1>5. CASE m \in Macs /\ Upgrade(c, m)
    <2> DEFINE u == conn[c].emu
               prev == sessions[u][m]
    <2>0. conn[c].st = "accepted"
      BY <1>5 DEF Upgrade
    <2>1. /\ u \in Emus /\ prev \in Conns \cup {None} /\ prev # c /\ conn[c].hs = "none"
          /\ prev # None => conn[prev].st = "session" /\ conn[prev].emu = u /\ conn[prev].mac = m
      <3>1. u \in Emus /\ conn[c].hs = "none"
        BY <2>0 DEF CInv, ConnsInOrder, InOrder
      <3>2. prev \in Conns \cup {None} /\ prev # c
        BY <1>0, <1>5, <2>0, <3>1 DEF CInv, ControllerTypeOK
      <3>3. QED
        BY <1>5, <3>1, <3>2 DEF CInv, SessionsAreOwned
    <2>2. /\ UNCHANGED <<server, stopping>>
          /\ sessions' = [sessions EXCEPT ![u][m] = c]
          /\ conn' = [d \in Conns |->
                 IF d = c THEN [conn[c] EXCEPT !.st = "session", !.mac = m]
                 ELSE IF d = prev THEN [conn[d] EXCEPT !.st = "destroyed", !.hs = "none"]
                 ELSE conn[d]]
      BY <1>5 DEF Upgrade
    <2> HIDE DEF prev
    <2>3. /\ server' \in [Emus -> ServerStates] /\ stopping' \in [Emus -> BOOLEAN]
          /\ conn' \in [Conns -> Connections]
          /\ sessions' \in [Emus -> [Macs -> Conns \cup {None}]]
      BY <1>5, <2>1, <2>2, ConnTypes DEF CInv, ControllerTypeOK, ConnStates, Handshake
    <2>4. /\ conn'[c].st = "session" /\ conn'[c].emu = u /\ conn'[c].mac = m
          /\ conn'[c].hs = conn[c].hs
          /\ prev # None => /\ conn'[prev].st = "destroyed" /\ conn'[prev].emu = u
                            /\ conn'[prev].hs = "none"
          /\ \A d \in Conns \ {c, prev} : conn'[d] = conn[d]
      BY <1>0, <2>1, <2>2 DEF Connections, CInv, ControllerTypeOK
    <2>5. /\ \A f \in Emus, n \in Macs :
                 sessions'[f][n] = IF f = u /\ n = m THEN c ELSE sessions[f][n]
          /\ \A f \in Emus, n \in Macs :
                 (f # u \/ n # m) /\ sessions[f][n] # None => sessions[f][n] \notin {c, prev}
      <3>1. \A f \in Emus, n \in Macs :
                sessions'[f][n] = IF f = u /\ n = m THEN c ELSE sessions[f][n]
        BY <2>1, <2>2 DEF CInv, ControllerTypeOK
      <3>2. QED
        BY <1>0, <2>0, <2>1, <3>1 DEF CInv, SessionsAreOwned
    <2>6. ConnsInOrder'
      <3>1. InOrder(conn'[c]) /\ (prev # None => InOrder(conn'[prev]))
        BY <2>1, <2>4 DEF InOrder
      <3>2. \A d \in Conns \ {c, prev} : InOrder(conn'[d])
        BY <2>4 DEF CInv, ConnsInOrder
      <3>3. QED
        BY <3>1, <3>2, ControllerConstants DEF ConnsInOrder
    <2>7. SessionsAreOwned'
      <3>1. \A f \in Emus, n \in Macs : sessions'[f][n] # None =>
                /\ conn'[sessions'[f][n]].st = "session"
                /\ conn'[sessions'[f][n]].emu = f /\ conn'[sessions'[f][n]].mac = n
        BY <2>1, <2>4, <2>5 DEF CInv, ControllerTypeOK, SessionsAreOwned
      <3>2. \A d \in Conns : conn'[d].st = "session" => IsCurrent(d)'
        <4> SUFFICES ASSUME NEW d \in Conns, conn'[d].st = "session" PROVE IsCurrent(d)'
          OBVIOUS
        <4>1. CASE d = c
          BY <1>5, <2>1, <2>4, <2>5, <4>1, ControllerConstants DEF IsCurrent
        <4>2. CASE d # c
          <5>1. d # prev /\ conn'[d] = conn[d]
            BY <2>1, <2>4, <4>2, ControllerConstants
          <5>2. QED
            BY <2>5, <5>1, SessionFacts, ControllerConstants, <2>1 DEF IsCurrent, prev
        <4>3. QED
          BY <4>1, <4>2
      <3>3. QED
        BY <3>1, <3>2 DEF SessionsAreOwned
    <2>8. ASSUME NEW f \in Emus, NEW n \in Macs
          PROVE  /\ IsOnline(f, n)' => IsOnline(f, n)
                 /\ sessions[f][n] # None => sessions'[f][n] # None
      <3>1. CASE f = u /\ n = m
        BY <2>1, <2>4, <2>5, <3>1, ControllerConstants DEF IsOnline
      <3>2. CASE ~(f = u /\ n = m)
        <4>1. sessions'[f][n] = sessions[f][n]
          BY <2>5, <3>2
        <4>2. sessions[f][n] # None => conn'[sessions[f][n]] = conn[sessions[f][n]]
          BY <2>4, <2>5, <3>2 DEF CInv, ControllerTypeOK
        <4>3. QED
          BY <4>1, <4>2 DEF IsOnline
      <3>3. QED
        BY <3>1, <3>2
    <2>9. \A f \in Emus, n \in Macs : IsOnline(f, n) => sessions[f][n] # None
      BY DEF IsOnline
    <2>10. ControllerTypeOK'
      BY <2>3, <2>6 DEF ControllerTypeOK, ConnsInOrder, InOrder
    <2>11. QED
      BY <2>2, <2>6, <2>7, <2>8, <2>9, <2>10 DEF CInv
  <1>6. QED
    BY <1>2, <1>3, <1>4, <1>5

\* The handshake completes: that session is online.
LEMMA AuthenticatedNext ==
    ASSUME CInv, NEW c \in Conns, Authenticated(c)
    PROVE  /\ CInv' /\ UNCHANGED <<server, stopping, sessions>>
           /\ conn[c].emu \in Emus /\ conn[c].mac \in Macs
           /\ \A f \in Emus, n \in Macs :
                  IsOnline(f, n)' <=> IsOnline(f, n) \/ (f = conn[c].emu /\ n = conn[c].mac)
  <1> DEFINE y == [conn[c] EXCEPT !.hs = "authenticated"]
  <1>1. conn' = [conn EXCEPT ![c] = y]
    BY Zenon DEF Authenticated
  <1>2. conn[c].st = "session" /\ UNCHANGED <<server, stopping, sessions>>
    BY Zenon DEF Authenticated
  <1>3. conn[c] \in Connections /\ y \in Connections
    BY ConnTypes, Zenon DEF Handshake, CInv, ControllerTypeOK
  <1>4. y.st = "session" /\ y.emu = conn[c].emu /\ y.mac = conn[c].mac /\ y.hs = "authenticated"
    BY <1>2, <1>3 DEF Connections
  <1>5. /\ conn[c].emu \in Emus /\ conn[c].mac \in Macs
        /\ sessions[conn[c].emu][conn[c].mac] = c
    BY <1>2, SessionFacts
  <1>6. \A f \in Emus, n \in Macs : sessions[f][n] = c => f = conn[c].emu /\ n = conn[c].mac
    BY ControllerConstants DEF CInv, SessionsAreOwned
  <1>7. InOrder(y)
    BY <1>4, <1>5 DEF InOrder
  <1>8. /\ CInv'
        /\ \A f \in Emus, n \in Macs :
               IsOnline(f, n)' <=> sessions[f][n] = c \/ IsOnline(f, n)
    <2> HIDE DEF y
    <2>1. QED
      BY <1>1, <1>2, <1>3, <1>4, <1>7, OneConnChanges
  <1>9. QED
    BY <1>2, <1>5, <1>6, <1>8

\* A connection closes: its session, if it was current, is gone.
LEMMA ClosedNext ==
    ASSUME CInv, NEW c \in Conns, Closed(c)
    PROVE  /\ CInv' /\ UNCHANGED <<server, stopping>>
           /\ IsCurrent(c) => conn[c].emu \in Emus /\ conn[c].mac \in Macs
           /\ \A f \in Emus, n \in Macs :
                  IF IsCurrent(c) /\ f = conn[c].emu /\ n = conn[c].mac
                  THEN sessions'[f][n] = None
                  ELSE sessions'[f][n] = sessions[f][n] /\ IsOnline(f, n)' = IsOnline(f, n)
  <1> DEFINE e == conn[c].emu
             m == conn[c].mac
  <1>1. e \in Emus /\ m \in Macs \cup {None} /\ conn[c].st # "free"
    BY ConnTypes DEF Closed, CInv, ControllerTypeOK, ConnsInOrder, InOrder
  <1>2. /\ UNCHANGED <<server, stopping>>
        /\ conn'[c] = Free /\ \A d \in Conns \ {c} : conn'[d] = conn[d]
        /\ conn' \in [Conns -> Connections]
    BY ConnTypes DEF Closed, CInv, ControllerTypeOK
  <1>3. /\ sessions' \in [Emus -> [Macs -> Conns \cup {None}]]
        /\ \A f \in Emus, n \in Macs :
               sessions'[f][n] = IF sessions[f][n] = c THEN None ELSE sessions[f][n]
    BY <1>1, ControllerConstants
       DEF Closed, CInv, ControllerTypeOK, IsCurrent, SessionsAreOwned
  <1>4. SessionsAreOwned'
    <2>1. \A f \in Emus, n \in Macs : sessions'[f][n] # None =>
              /\ conn'[sessions'[f][n]].st = "session"
              /\ conn'[sessions'[f][n]].emu = f /\ conn'[sessions'[f][n]].mac = n
      BY <1>2, <1>3 DEF CInv, ControllerTypeOK, SessionsAreOwned
    <2>2. ASSUME NEW d \in Conns, conn'[d].st = "session" PROVE IsCurrent(d)'
      BY <1>2, <1>3, <2>2, SessionFacts, ControllerConstants DEF IsCurrent, Free
    <2>3. QED
      BY <2>1, <2>2 DEF SessionsAreOwned
  <1>5. CInv'
    <2>1. ConnsInOrder'
      BY <1>2 DEF CInv, ConnsInOrder, InOrder, Free
    <2>2. ControllerTypeOK'
      BY <1>2, <1>3, <2>1 DEF CInv, ControllerTypeOK, ConnsInOrder, InOrder
    <2>3. QED
      BY <1>4, <2>1, <2>2 DEF CInv
  <1>6. /\ IsCurrent(c) => m \in Macs
        /\ \A f \in Emus, n \in Macs : sessions[f][n] = c <=> IsCurrent(c) /\ f = e /\ n = m
    <2>1. IsCurrent(c) <=> m # None /\ sessions[e][m] = c
      BY DEF IsCurrent
    <2>2. ASSUME NEW f \in Emus, NEW n \in Macs, sessions[f][n] = c PROVE f = e /\ n = m
      <3>1. c # None
        BY ControllerConstants
      <3>2. sessions[f][n] # None => conn[sessions[f][n]].emu = f /\ conn[sessions[f][n]].mac = n
        BY SMTT(30) DEF CInv, SessionsAreOwned
      <3>. HIDE DEF e, m
      <3>3. QED
        BY <2>2, <3>1, <3>2 DEF e, m
    <2>3. QED
      BY <1>1, <2>1, <2>2, ControllerConstants
  <1>7. QED
    BY <1>1, <1>2, <1>3, <1>5, <1>6, ControllerConstants DEF IsOnline, CInv, ControllerTypeOK

-----------------------------------------------------------------------------
(* Types of the provider. *)

\* The cameras after each change the actions make to one.
LEMMA CameraTypes ==
    /\ NoCam \in Cameras
    /\ \A x \in Cameras : x.mac \in Macs \cup {None}
    /\ \A x \in Cameras, s \in {"none", "live", "releasing"} : [x EXCEPT !.st = s] \in Cameras
    /\ \A x \in Cameras, p \in BOOLEAN : [x EXCEPT !.pairing = p] \in Cameras
    /\ \A x \in Cameras, o \in BOOLEAN, e \in Emus, m \in Macs :
           [x EXCEPT !.online = o, !.told = <<e, m>>] \in Cameras
    /\ \A m \in Macs \cup {None}, e \in Emus \cup {None}, o \in BOOLEAN :
           [NoCam EXCEPT !.st = "live", !.mac = m, !.told = <<e, m>>, !.online = o] \in Cameras
    /\ \A m \in Macs, p \in BOOLEAN :
           [NoCam EXCEPT !.st = "live", !.mac = m, !.pairing = p] \in Cameras
    /\ \A x \in Cameras, m \in Macs \cup {None} :
           /\ [x EXCEPT !.pairing = FALSE, !.mac = m, !.told = <<None, None>>] \in Cameras
           /\ [x EXCEPT !.pairing = FALSE, !.mac = m, !.told = x.told] \in Cameras
  <1>1. NoCam \in Cameras /\ \A x \in Cameras : x.mac \in Macs \cup {None}
    BY DEF Cameras, NoCam
  <1>2. /\ \A x \in Cameras, s \in {"none", "live", "releasing"} : [x EXCEPT !.st = s] \in Cameras
        /\ \A x \in Cameras, p \in BOOLEAN : [x EXCEPT !.pairing = p] \in Cameras
    BY DEF Cameras
  <1>3. \A x \in Cameras, o \in BOOLEAN, e \in Emus, m \in Macs :
            [x EXCEPT !.online = o, !.told = <<e, m>>] \in Cameras
    BY ZenonT(30) DEF Cameras
  <1>4. \A m \in Macs \cup {None}, e \in Emus \cup {None}, o \in BOOLEAN :
            [NoCam EXCEPT !.st = "live", !.mac = m, !.told = <<e, m>>, !.online = o] \in Cameras
    BY DEF Cameras, NoCam
  <1>5. \A m \in Macs, p \in BOOLEAN :
            [NoCam EXCEPT !.st = "live", !.mac = m, !.pairing = p] \in Cameras
    BY DEF Cameras, NoCam
  <1>6. \A x \in Cameras, m \in Macs \cup {None} :
            [x EXCEPT !.pairing = FALSE, !.mac = m, !.told = <<None, None>>] \in Cameras
    BY DEF Cameras
  <1>7. \A x \in Cameras, m \in Macs \cup {None} :
            [x EXCEPT !.pairing = FALSE, !.mac = m, !.told = x.told] \in Cameras
    BY DEF Cameras
  <1>8. QED
    BY <1>1, <1>2, <1>3, <1>4, <1>5, <1>6, <1>7

\* An attempt of init() after each change the actions make to it.
LEMMA AttemptTypes ==
    /\ \A i \in Attempts, at \in InitAt, e \in Emus \cup {None} :
           [i EXCEPT !.at = at, !.emu = e] \in Attempts
    /\ \A i \in Attempts, T \in SUBSET Cams : [i EXCEPT !.todo = T] \in Attempts
    /\ \A T \in SUBSET Cams : [at |-> "tls", emu |-> None, todo |-> T] \in Attempts
    /\ \A i \in Attempts : i.emu \in Emus \cup {None} /\ i.at \in InitAt /\ i.todo \in SUBSET Cams
  BY DEF Attempts, InitAt

\* What a step changes of the cameras keeps their types.
CamsTypes ==
    /\ cams \in [Cams -> Cameras]
    /\ \A k \in Cams : cams[k].st = "none" => cams[k] = NoCam

\* What the listeners of an emulator tell the cameras keeps the types.
LEMMA TellTypes ==
    ASSUME CamsTypes, NEW e \in Emus, NEW m \in Macs, NEW b \in BOOLEAN, Tell(e, m, b)
    PROVE  CamsTypes'
  <1>1. CASE UNCHANGED cams
    BY <1>1 DEF CamsTypes
  <1>2. CASE ~UNCHANGED cams
    <2>1. cams' = [k \in Cams |-> IF cams[k].st = "live" /\ cams[k].mac = m
                      THEN [cams[k] EXCEPT !.online = b, !.told = <<e, m>>] ELSE cams[k]]
      BY <1>2, ZenonT(30) DEF Tell
    <2>2. cams' \in [Cams -> Cameras]
      BY <2>1, CameraTypes DEF CamsTypes
    <2>3. \A k \in Cams : cams'[k].st = "none" => cams'[k] = cams[k] /\ cams[k].st = "none"
      BY <2>1 DEF CamsTypes, Cameras
    <2>4. QED
      BY <2>2, <2>3 DEF CamsTypes
  <1>3. QED
    BY <1>1, <1>2

\* A change of one camera to a well-typed one keeps the types.
LEMMA OneCamChanges ==
    ASSUME CamsTypes, NEW k \in Cams, NEW x \in Cameras, cams' = [cams EXCEPT ![k] = x],
           x.st = "none" => x = NoCam
    PROVE  CamsTypes'
  BY DEF CamsTypes

\* isOnline() answers yes or no.
LEMMA IsOnlineTypes == \A e, m : IsOnline(e, m) \in BOOLEAN
  BY DEF IsOnline

\* What Scrypted and the pairing do to a camera object keeps the types.
LEMMA DeviceTypes ==
    ASSUME TypeOK, Devices
    PROVE  CamsTypes'
  <1> USE DEF TypeOK, CamsTypes
  <1>0. PICK k \in Cams :
            \/ \E m \in Macs : CreateDevice(k, m)
            \/ \E m \in Macs \cup {None} : ScryptedGetsDevice(k, m)
            \/ EnsurePaired(k) \/ Reconcile(k) \/ HostChanged(k)
            \/ ReleaseDevice(k) \/ CameraReleased(k)
    BY DEF Devices
  <1> DEFINE Change(x) == cams' = [cams EXCEPT ![k] = x] /\ (x.st = "none" => x = NoCam)
  <1>1. ASSUME NEW x \in Cameras, Change(x) PROVE CamsTypes'
    BY <1>1, OneCamChanges
  <1> HIDE DEF Change
  <1>2. cams[k] \in Cameras
    OBVIOUS
  <1>3. ASSUME NEW m \in Macs, CreateDevice(k, m) PROVE CamsTypes'
    BY <1>1, <1>3, CameraTypes, IsOnlineTypes DEF CreateDevice, Change, NoCam
  <1>4. ASSUME NEW m \in Macs \cup {None}, ScryptedGetsDevice(k, m) PROVE CamsTypes'
    BY <1>1, <1>4, CameraTypes, IsOnlineTypes, ZenonT(30) DEF ScryptedGetsDevice, GetDevice, Change, NoCam
  <1>5. CASE EnsurePaired(k)
    BY <1>2, <1>5 DEF EnsurePaired, Cameras, NoCam
  <1>6. CASE Reconcile(k)
    <2>1. PICK real \in Macs \cup {None} :
              cams' = [cams EXCEPT ![k].pairing = FALSE, ![k].mac = real,
                                   ![k].told = IF real = cams[k].mac THEN @ ELSE <<None, None>>]
      BY <1>2, <1>6, CameraTypes DEF Reconcile
    <2>2. cams[k].st = "live"
      BY <1>6 DEF Reconcile
    <2>3. CASE real = cams[k].mac
      BY <1>2, <2>1, <2>2, <2>3 DEF Cameras, NoCam
    <2>4. CASE real # cams[k].mac
      BY <1>2, <2>1, <2>2, <2>4 DEF Cameras, NoCam
    <2>5. QED
      BY <2>3, <2>4
  <1>7. CASE HostChanged(k)
    BY <1>2, <1>7 DEF HostChanged, Cameras, NoCam
  <1>8. CASE ReleaseDevice(k)
    BY <1>2, <1>8 DEF ReleaseDevice, Cameras, NoCam
  <1>9. CASE CameraReleased(k)
    BY <1>1, <1>9, CameraTypes DEF CameraReleased, Change
  <1>10. QED
    BY <1>0, <1>3, <1>4, <1>5, <1>6, <1>7, <1>8, <1>9

\* The emulators: every step keeps sessions and sockets together.
LEMMA CInvNext ==
    ASSUME IInv, [Next]_vars
    PROVE  CInv'
  <1>0. CInv /\ init.emu \in Emus \cup {None} /\ down.emu \in Emus \cup {None}
    BY DEF IInv, CInv, TypeOK, Attempts
  <1>1. ASSUME UNCHANGED controller PROVE CInv'
    BY <1>0, <1>1 DEF controller, CInv, ControllerTypeOK, ConnsInOrder, SessionsAreOwned, IsCurrent
  <1>2. ASSUME NEW e \in Emus, StartServer(e), UNCHANGED <<stopping, conn, sessions>> PROVE CInv'
    BY <1>0, <1>2 DEF StartServer, ServerStates, CInv, ControllerTypeOK, ConnsInOrder,
                      SessionsAreOwned, IsCurrent
  <1>3. ASSUME NEW e \in Emus, Stop(e) PROVE CInv'
    BY <1>0, <1>3, StopNext
  <1>4. CASE TlsLoaded
    BY <1>1, <1>2, <1>4 DEF TlsLoaded
  <1>5. CASE Started \/ LoadFails
    <2>1. init.emu \in Emus
      BY <1>0, <1>5 DEF Started, LoadFails, IInv, TypeOK
    <2>2. QED
      BY <1>1, <1>3, <1>5, <2>1 DEF Started, LoadFails
  <1>6. CASE DownAudio
    BY <1>0, <1>1, <1>3, <1>6 DEF DownAudio
  <1>7. CASE Listener
    BY <1>0, <1>7, ListenerNext DEF Listener
  <1>9. CASE Camera
    BY <1>0, <1>9, CameraNext DEF Camera
  <1>10. ASSUME NEW c \in Conns, CameraAuthenticated(c) \/ CameraClosed(c) PROVE CInv'
    BY <1>0, <1>10, AuthenticatedNext, ClosedNext DEF CameraAuthenticated, CameraClosed
  <1>11. CASE TlsFails \/ InitStopped \/ (\E k \in Cams : LoadCamera(k)) \/ Loaded \/ RetryInit
    BY <1>1, <1>11 DEF TlsFails, InitStopped, LoadCamera, Loaded, RetryInit
  <1>12. CASE DownCameras \/ DownEmulator \/ DownPush \/ EnableAudio \/ Shutdown
    BY <1>1, <1>12 DEF DownCameras, DownEmulator, DownPush, EnableAudio, Shutdown
  <1>13. CASE Devices
    BY <1>1, <1>13 DEF Devices, CreateDevice, ScryptedGetsDevice, EnsurePaired, Reconcile,
                       HostChanged, ReleaseDevice, CameraReleased
  <1>14. CASE UNCHANGED vars
    BY <1>1, <1>14 DEF vars
  <1>15. QED
    BY <1>4, <1>5, <1>6, <1>7, <1>9, <1>10, <1>11, <1>12, <1>13, <1>14
       DEF Next, InitSteps, DownSteps

\* Every step keeps the types.
LEMMA TypeNext ==
    ASSUME IInv, [Next]_vars
    PROVE  TypeOK'
  <1>0. /\ init \in Attempts /\ init.emu \in Emus \cup {None} /\ init.todo \in SUBSET Cams
        /\ CamsTypes /\ (init.at \in {"idle", "tls"} <=> init.emu = None)
        /\ current \in Emus \cup {None} /\ heard \in SUBSET Emus
        /\ retry \in BOOLEAN /\ running \in BOOLEAN
        /\ audio \in {"none", "up"} /\ push \in {"open", "closed"}
        /\ down \in [at : DownAt, emu : Emus \cup {None}]
    BY AttemptTypes DEF IInv, TypeOK, CamsTypes
  <1>00. ControllerTypeOK'
    BY CInvNext DEF CInv
  <1> DEFINE InitTyped == init' \in Attempts /\ (init'.at \in {"idle", "tls"} <=> init'.emu = None)
  <1>1. ASSUME NEW at \in InitAt, NEW e \in Emus \cup {None}, InitGoes(at, e),
               at \in {"idle", "tls"} <=> e = None
        PROVE  InitTyped
    BY <1>0, <1>1, AttemptTypes DEF InitGoes, Attempts
  <1>2. ASSUME UNCHANGED init PROVE InitTyped
    BY <1>0, <1>2
  <1> HIDE DEF InitTyped
  <1> USE DEF TypeOK, CamsTypes, InitAt, controller
  <1>3. CASE TlsLoaded
    <2>1. InitTyped
      BY <1>1, <1>3, ControllerConstants DEF TlsLoaded
    <2>2. QED
      BY <1>0, <1>00, <1>3, <2>1 DEF TlsLoaded, InitTyped
  <1>4. CASE TlsFails \/ InitStopped
    <2>1. InitTyped
      BY <1>1, <1>4 DEF TlsFails, InitStopped, GiveUp
    <2>2. QED
      BY <1>0, <1>00, <1>4, <2>1 DEF TlsFails, InitStopped, GiveUp, InitTyped
  <1>5. CASE Started \/ LoadFails \/ Loaded
    <2>1. InitTyped
      BY <1>0, <1>1, <1>5, ControllerConstants DEF Started, LoadFails, Loaded
    <2>2. QED
      BY <1>0, <1>00, <1>5, <2>1 DEF Started, LoadFails, Loaded, InitTyped
  <1>6. ASSUME NEW k \in Cams, LoadCamera(k) PROVE TypeOK'
    <2>1. InitTyped
      <3>1. init' = [init EXCEPT !.todo = init.todo \ {k}]
        BY <1>6 DEF LoadCamera
      <3>2. init' \in Attempts
        BY <1>0, <3>1, AttemptTypes
      <3>3. init'.at = init.at /\ init'.emu = init.emu
        BY <1>0, <3>1 DEF Attempts
      <3>4. QED
        BY <1>0, <3>2, <3>3 DEF InitTyped
    <2>2. CamsTypes'
      <3>1. PICK mac \in Macs \cup {None} : GetDevice(k, mac)
        BY <1>6 DEF LoadCamera
      <3>2. CASE cams[k].st = "live"
        BY <1>0, <3>1, <3>2 DEF GetDevice
      <3>3. CASE cams[k].st # "live"
        BY <1>0, <3>1, <3>3, CameraTypes, IsOnlineTypes, OneCamChanges DEF GetDevice, NoCam
      <3>4. QED
        BY <3>2, <3>3
    <2>3. QED
      BY <1>0, <1>00, <1>6, <2>1, <2>2 DEF LoadCamera, InitTyped
  <1>7. CASE RetryInit
    <2>1. InitTyped
      <3>1. CASE UNCHANGED init
        BY <1>2, <3>1
      <3>2. CASE ~UNCHANGED init
        <4>1. PICK stored \in SUBSET Cams : init' = [at |-> "tls", emu |-> None, todo |-> stored]
          BY <1>7, <3>2 DEF RetryInit
        <4>2. QED
          BY <4>1, AttemptTypes DEF InitTyped
      <3>3. QED
        BY <3>1, <3>2
    <2>2. QED
      BY <1>0, <1>00, <1>7, <2>1 DEF RetryInit, InitTyped
  <1>8. CASE DownSteps
    BY <1>0, <1>00, <1>8
       DEF DownSteps, DownCameras, DownAudio, DownEmulator, DownPush, DownAt
  <1>9. CASE Devices
    <2>1. CamsTypes'
      BY <1>9, DeviceTypes DEF IInv
    <2>2. QED
      BY <1>0, <1>00, <1>9, <2>1, ZenonT(30)
        DEF Devices, CreateDevice, ScryptedGetsDevice, EnsurePaired, Reconcile,
             HostChanged, ReleaseDevice, CameraReleased
  <1>10. CASE EnableAudio
    BY <1>0, <1>00, <1>10 DEF EnableAudio
  <1>11. CASE Shutdown
    <2>1. CamsTypes'
      <3>1. cams' \in [Cams -> Cameras]
        BY <1>0, <1>11, CameraTypes DEF Shutdown
      <3>2. \A k \in Cams : cams'[k].st = "none" => cams'[k] = cams[k] /\ cams[k].st = "none"
        BY <1>0, <1>11 DEF Shutdown, Cameras
      <3>3. QED
        BY <1>0, <3>1, <3>2
    <2>2. QED
      BY <1>0, <1>00, <1>11, <2>1 DEF Shutdown, DownAt
  <1>12. CASE (Listener \/ Camera) /\ UNCHANGED own
    BY <1>0, <1>00, <1>12 DEF own
  <1>13. ASSUME NEW c \in Conns, CameraAuthenticated(c) \/ CameraClosed(c) PROVE TypeOK'
    <2>1. CASE UNCHANGED cams
      BY <1>0, <1>00, <1>13, <2>1 DEF CameraAuthenticated, CameraClosed
    <2>2. CASE ~UNCHANGED cams
      <3>1. CInv
        BY DEF IInv, CInv
      <3>2. conn[c].emu \in Emus /\ conn[c].mac \in Macs
        BY <1>13, <2>2, <3>1, AuthenticatedNext, ClosedNext DEF CameraAuthenticated, CameraClosed
      <3>3. PICK b \in BOOLEAN : Tell(conn[c].emu, conn[c].mac, b)
        BY <1>13, <2>2 DEF CameraAuthenticated, CameraClosed
      <3>4. CamsTypes'
        BY <1>0, <3>2, <3>3, TellTypes
      <3>5. QED
        BY <1>0, <1>00, <1>13, <3>4 DEF CameraAuthenticated, CameraClosed
    <2>3. QED
      BY <2>1, <2>2
  <1>14. CASE UNCHANGED vars
    BY <1>0, <1>00, <1>14 DEF vars, own
  <1>15. QED
    BY <1>3, <1>4, <1>5, <1>6, <1>7, <1>8, <1>9, <1>10, <1>11, <1>12, <1>13, <1>14
       DEF Next, InitSteps

-----------------------------------------------------------------------------
(* Attempts and shutdown. *)

\* A step of no attempt and no listener leaves init(), the current emulator and
\* the servers alone, and may only disarm.
AttemptsIdle == UNCHANGED <<server, init, current, heard, retry, running, down>>

\* Besides the steps of init() and shutdown(), only the listeners change anything
\* the attempts have to agree on.
LEMMA OtherSteps ==
    ASSUME IInv, [Next]_vars
    PROVE  InitSteps \/ DownSteps \/ Shutdown \/ AttemptsIdle
           \/ (Listener /\ UNCHANGED own)
  <1>0. CInv
    BY DEF IInv, TypeOK, CInv
  <1>1. ASSUME Camera, UNCHANGED own PROVE AttemptsIdle
    BY <1>0, <1>1, CameraNext DEF Camera, own, AttemptsIdle
  <1>2. ASSUME NEW c \in Conns, CameraAuthenticated(c) \/ CameraClosed(c) PROVE AttemptsIdle
    <2>1. UNCHANGED server
      BY <1>2 DEF CameraAuthenticated, CameraClosed, Authenticated, Closed
    <2>2. QED
      BY <1>2, <2>1 DEF CameraAuthenticated, CameraClosed, AttemptsIdle
  <1>3. CASE Devices \/ EnableAudio
    <2>1. ASSUME NEW k \in Cams, NEW m, CreateDevice(k, m) \/ ScryptedGetsDevice(k, m)
          PROVE  AttemptsIdle
      BY <2>1 DEF CreateDevice, ScryptedGetsDevice, controller, AttemptsIdle
    <2>2. ASSUME NEW k \in Cams, EnsurePaired(k) \/ Reconcile(k) \/ HostChanged(k)
          PROVE  AttemptsIdle
      BY <2>2 DEF EnsurePaired, Reconcile, HostChanged, controller, AttemptsIdle
    <2>3. ASSUME NEW k \in Cams, ReleaseDevice(k) \/ CameraReleased(k)
          PROVE  AttemptsIdle
      BY <2>3 DEF ReleaseDevice, CameraReleased, controller, AttemptsIdle
    <2>4. CASE EnableAudio
      BY <2>4 DEF EnableAudio, controller, AttemptsIdle
    <2>5. QED
      BY <1>3, <2>1, <2>2, <2>3, <2>4 DEF Devices
  <1>4. CASE UNCHANGED vars
    BY <1>4 DEF vars, own, controller, AttemptsIdle
  <1>5. QED
    BY <1>1, <1>2, <1>3, <1>4 DEF Next

\* Every step keeps what the attempts of init() and shutdown() have to agree on.
LEMMA AttemptsNext ==
    ASSUME IInv, TypeOK', [Next]_vars
    PROVE  OnlyOwnerListens' /\ AttemptsGoOn' /\ CurrentStarted'
  <1> USE DEF OnlyOwnerListens, AttemptsGoOn, CurrentStarted, OwnerOf, ShuttingDown, Ended
  <1>0. /\ CInv /\ ControllerTypeOK /\ init \in Attempts /\ current \in Emus \cup {None}
        /\ down.emu \in Emus \cup {None} /\ (init.at \in {"idle", "tls"} <=> init.emu = None)
        /\ OnlyOwnerListens /\ AttemptsGoOn /\ CurrentStarted
        /\ retry \in BOOLEAN /\ running \in BOOLEAN
        /\ (down.at # "no" => current = None /\ ~retry /\ ~running /\ heard = {})
    BY DEF IInv, TypeOK, CInv, NothingOutlives
  <1> DEFINE Result == OnlyOwnerListens' /\ AttemptsGoOn' /\ CurrentStarted'
  <1>1. CASE TlsLoaded
    <2>1. CASE ShuttingDown
      BY <1>0, <1>1, <2>1 DEF TlsLoaded, InitGoes, controller, Attempts
    <2>2. CASE ~ShuttingDown
      <3>1. PICK e \in Emus : /\ StartServer(e) /\ current' = e /\ heard' = heard \cup {e}
                              /\ InitGoes("listen", e)
        BY <1>1, <2>2 DEF TlsLoaded
      <3>2. /\ init'.at = "listen" /\ init'.emu = e /\ server'[e] = "opening"
            /\ \A f \in Emus \ {e} : server'[f] = server[f]
            /\ UNCHANGED <<retry, running, down>> /\ init.at = "tls"
        BY <1>0, <1>1, <3>1 DEF TlsLoaded, InitGoes, StartServer, ControllerTypeOK, Attempts
      <3>3. current = None /\ ~retry /\ ~running /\ heard = {}
        BY <1>0, <2>2, <3>2
      <3>4. heard' \subseteq {e}
        BY <3>1, <3>3
      <3>5. QED
        BY <1>0, <2>2, <3>1, <3>2, <3>3, <3>4, ControllerConstants
    <2>3. QED
      BY <2>1, <2>2
  <1>2. CASE TlsFails
    BY <1>0, <1>2, ControllerConstants DEF TlsFails, GiveUp, InitGoes, controller, Attempts
  <1>3. CASE Started
    <2>1. init.emu \in Emus
      BY <1>0, <1>3 DEF Started, Attempts
    <2>2. CASE server[init.emu] = "failed" \/ ShuttingDown \/ current # init.emu
      <3>1. Stop(init.emu)
        BY <1>3, <2>2 DEF Started
      <3>2. /\ \A f \in Emus \ {init.emu} : server'[f] = server[f]
            /\ server[init.emu] \in Ended => server'[init.emu] = server[init.emu]
            /\ server'[init.emu] = "new" => server[init.emu] = "new"
        BY <1>0, <2>1, <3>1, StopNext
      <3>3. QED
        BY <1>0, <1>3, <2>1, <2>2, <3>2 DEF Started, InitGoes, Attempts
    <2>3. CASE ~(server[init.emu] = "failed" \/ ShuttingDown \/ current # init.emu)
      BY <1>0, <1>3, <2>1, <2>3 DEF Started, InitGoes, Attempts, controller
    <2>4. QED
      BY <2>2, <2>3
  <1>4. CASE InitStopped
    <2>1. /\ init'.at = "idle" /\ UNCHANGED <<server, heard, down>>
          /\ server[init.emu] \in Ended /\ init.at \in {"abort", "cleanup"}
      BY <1>0, <1>4 DEF InitStopped, GiveUp, InitGoes, Stopped, controller, Attempts
    <2>2. CASE init.at = "cleanup"
      <3>1. /\ current' = IF current = init.emu THEN None ELSE current
            /\ running' = FALSE /\ retry' = (retry \/ ~ShuttingDown)
        BY <1>4, <2>2 DEF InitStopped, GiveUp
      <3>2. CASE ShuttingDown
        BY <1>0, <2>1, <2>2, <3>1, <3>2
      <3>3. CASE ~ShuttingDown
        BY <1>0, <2>1, <2>2, <3>1, <3>3, ControllerConstants
      <3>4. QED
        BY <3>2, <3>3
    <2>3. CASE init.at = "abort"
      BY <1>0, <1>4, <2>1, <2>3 DEF InitStopped
    <2>4. QED
      BY <2>1, <2>2, <2>3
  <1>5. ASSUME NEW k \in Cams, LoadCamera(k) PROVE Result
    BY <1>0, <1>5 DEF LoadCamera, controller, Attempts
  <1>6. CASE LoadFails
    <2>1. init.emu \in Emus
      BY <1>0, <1>6 DEF LoadFails, Attempts
    <2>2. QED
      BY <1>0, <1>6, <2>1, StopNext DEF LoadFails, InitGoes, Attempts
  <1>7. CASE Loaded
    BY <1>0, <1>7, ControllerConstants DEF Loaded, InitGoes, controller, Attempts
  <1>8. CASE RetryInit
    <2>1. CASE ShuttingDown
      BY <1>0, <1>8, <2>1 DEF RetryInit, controller
    <2>2. CASE ~ShuttingDown
      <3>1. init.at = "idle" /\ current = None /\ ~running
        BY <1>0, <1>8, <2>2 DEF RetryInit, Attempts, InitAt
      <3>2. init'.at = "tls" /\ ~retry' /\ UNCHANGED <<server, current, heard, running, down>>
        BY <1>8, <2>2, <3>1 DEF RetryInit, controller
      <3>3. QED
        BY <1>0, <2>2, <3>1, <3>2
    <2>3. QED
      BY <2>1, <2>2
  <1>9. CASE Shutdown
    BY <1>0, <1>9 DEF Shutdown, controller
  <1>10. CASE DownSteps
    <2>1. /\ UNCHANGED <<init, current, heard, retry, running>>
          /\ down.at # "no" /\ down'.at # "no" /\ down'.emu = down.emu
      BY <1>0, <1>10 DEF DownSteps, DownCameras, DownAudio, DownEmulator, DownPush, IInv, TypeOK
    <2>2. \A e \in Emus : server[e] \in Ended => server'[e] \in Ended
      BY <1>0, <1>10, StopNext
         DEF DownSteps, DownCameras, DownAudio, DownEmulator, DownPush, controller
    <2>3. QED
      BY <1>0, <2>1, <2>2
  <1>11. CASE Listener /\ UNCHANGED own
    <2>1. \A f \in Emus : \/ server'[f] = server[f]
                          \/ server[f] = "opening" /\ server'[f] \in {"up", "failed"}
                          \/ server[f] \in {"stale", "closing"} /\ server'[f] \in Ended \ {"new"}
      BY <1>0, <1>11, ListenerNext DEF Listener
    <2>2. QED
      BY <1>0, <1>11, <2>1 DEF own
  <1>12. CASE AttemptsIdle
    BY <1>0, <1>12 DEF AttemptsIdle
  <1>13. QED
    BY <1>1, <1>2, <1>3, <1>4, <1>5, <1>6, <1>7, <1>8, <1>9, <1>10, <1>11, <1>12, OtherSteps
       DEF InitSteps

-----------------------------------------------------------------------------
(* The cameras. *)

\* The pair a camera was told, by its parts.
LEMMA ToldTypes ==
    \A x \in Cameras :
        /\ x.told[1] \in Emus \cup {None} /\ x.told[2] \in Macs \cup {None}
        /\ \A e, m : x.told = <<e, m>> <=> x.told[1] = e /\ x.told[2] = m
  BY DEF Cameras

\* What a change of a camera leaves of its fields.
LEMMA CameraFields ==
    \A x \in Cameras :
        /\ \A v : [x EXCEPT !.st = v].st = v /\ [x EXCEPT !.st = v].told = x.told
        /\ \A v : LET y == [x EXCEPT !.pairing = v]
                  IN  y.st = x.st /\ y.mac = x.mac /\ y.online = x.online /\ y.told = x.told
        /\ \A o, t : LET y == [x EXCEPT !.online = o, !.told = t]
                     IN  y.st = x.st /\ y.mac = x.mac /\ y.online = o /\ y.told = t
        /\ \A m, t : LET y == [x EXCEPT !.pairing = FALSE, !.mac = m, !.told = t]
                     IN  y.st = x.st /\ y.mac = m /\ y.online = x.online /\ y.told = t
  BY DEF Cameras

\* What an event of the emulator leaves of one camera.
LEMMA TellKeeps ==
    ASSUME TypeOK, NEW k \in Cams, NEW e \in Emus, NEW m \in Macs, NEW b \in BOOLEAN, Tell(e, m, b)
    PROVE  /\ cams'[k].st = cams[k].st /\ cams'[k].mac = cams[k].mac
           /\ IF e \in heard /\ ~ShuttingDown /\ cams[k].st = "live" /\ cams[k].mac = m
              THEN cams'[k].online = b /\ cams'[k].told[1] = e /\ cams'[k].told[2] = m
              ELSE cams'[k].online = cams[k].online /\ cams'[k].told = cams[k].told
  <1>1. CASE e \notin heard \/ ShuttingDown
    BY <1>1 DEF Tell
  <1>2. CASE e \in heard /\ ~ShuttingDown
    <2>1. cams'[k] = IF cams[k].st = "live" /\ cams[k].mac = m
                     THEN [cams[k] EXCEPT !.online = b, !.told = <<e, m>>] ELSE cams[k]
      BY <1>2 DEF Tell
    <2>2. cams[k] \in Cameras
      BY DEF TypeOK
    <2>3. QED
      BY <1>2, <2>1, <2>2, CameraFields
  <1>3. QED
    BY <1>1, <1>2

\* The cameras agree one by one.
LEMMA AgreeOne ==
    ASSUME TypeOK, CamerasAgree, SessionsAreOwned
    PROVE  OnlineAgrees
  <1>1. ASSUME NEW k \in Cams, cams[k].st = "live", current # None, current \in heard,
               cams[k].told = <<current, cams[k].mac>>
        PROVE  \/ cams[k].online = IsOnline(current, cams[k].mac)
               \/ cams[k].online /\ sessions[current][cams[k].mac] # None
    <2>1. CamAgrees(k) /\ cams[k] \in Cameras /\ cams[k].online \in BOOLEAN
      BY DEF TypeOK, Cameras, CamerasAgree
    <2>2. cams[k].mac = None => ~IsOnline(current, cams[k].mac)
      BY DEF IsOnline
    <2>3. QED
      BY <1>1, <2>1, <2>2, IsOnlineTypes, ToldTypes DEF CamAgrees
  <1>2. QED
    BY <1>1 DEF OnlineAgrees

\* A server that was started is not new again.
LEMMA NewStays ==
    ASSUME IInv, [Next]_vars
    PROVE  \A e \in Emus : server'[e] = "new" => server[e] = "new"
  <1>0. /\ CInv /\ ControllerTypeOK /\ init \in Attempts /\ down.emu \in Emus \cup {None}
        /\ init.at \in {"idle", "tls"} <=> init.emu = None
    BY DEF IInv, TypeOK, CInv
  <1>1. ASSUME NEW e \in Emus, Stop(e) \/ StartServer(e)
        PROVE  \A f \in Emus : server'[f] = "new" => server[f] = "new"
    BY <1>0, <1>1, StopNext DEF StartServer, ControllerTypeOK
  <1>2. CASE InitSteps
    BY <1>0, <1>1, <1>2
       DEF InitSteps, TlsLoaded, TlsFails, Started, InitStopped, LoadCamera, LoadFails, Loaded,
           RetryInit, controller, Attempts
  <1>3. CASE DownSteps \/ Shutdown
    BY <1>0, <1>1, <1>3
       DEF DownSteps, DownCameras, DownAudio, DownEmulator, DownPush, Shutdown, controller
  <1>4. CASE Listener
    BY <1>0, <1>4, ListenerNext DEF Listener, Ended
  <1>5. CASE AttemptsIdle
    BY <1>5 DEF AttemptsIdle
  <1>6. QED
    BY <1>2, <1>3, <1>4, <1>5, OtherSteps

\* Every step keeps each camera in agreement: an event tells the cameras of its MAC
\* what became of the session, and what no event tells (a stop, a session that
\* replaces another) the property lets pass or changes who is to be asked.
LEMMA AgreesNext ==
    ASSUME IInv, TypeOK', CInv', [Next]_vars, NEW k \in Cams
    PROVE  CamAgrees(k)'
  <1>0. /\ CInv /\ CamAgrees(k) /\ TypeOK /\ cams[k] \in Cameras
        /\ heard \subseteq {current} \/ ShuttingDown
        /\ ShuttingDown => current = None /\ heard = {} /\ cams[k].st # "live"
        /\ current # None => current \in Emus /\ server[current] # "new"
        /\ init.at \in {"listen", "load"} /\ ~ShuttingDown => current = init.emu
    BY DEF IInv, TypeOK, CInv, NothingOutlives, AttemptsGoOn, CurrentStarted, CamerasAgree
  <1>1. cams[k].told[1] \in Emus => server'[cams[k].told[1]] # "new"
    BY <1>0, NewStays DEF CamAgrees
  <1>2. ASSUME cams'[k] = cams[k], current' \in {current, None},
               \/ current' = None \/ current' \notin heard'
               \/ heard' = heard /\ UNCHANGED <<conn, sessions>>
        PROVE  CamAgrees(k)'
    BY <1>0, <1>1, <1>2 DEF CamAgrees, IsOnline
  <1>3. CASE TlsLoaded
    <2>1. CASE ShuttingDown
      BY <1>0, <1>2, <1>3, <2>1 DEF TlsLoaded, controller
    <2>2. CASE ~ShuttingDown
      <3>1. PICK e \in Emus : StartServer(e) /\ current' = e /\ cams' = cams
        BY <1>3, <2>2 DEF TlsLoaded
      <3>2. cams[k].told[1] # e
        BY <1>0, <3>1 DEF CamAgrees, StartServer
      <3>3. QED
        BY <1>1, <3>1, <3>2 DEF CamAgrees
    <2>3. QED
      BY <2>1, <2>2
  <1>4. CASE Started \/ LoadFails
    <2>1. current' = current /\ cams' = cams
      BY <1>4 DEF Started, LoadFails
    <2>2. CASE UNCHANGED <<controller, heard>>
      BY <1>2, <2>1, <2>2 DEF controller
    <2>3. CASE heard' = heard \ {init.emu}
      BY <1>0, <1>2, <1>4, <2>1, <2>3 DEF Started, LoadFails
    <2>4. QED
      BY <1>4, <2>2, <2>3 DEF Started, LoadFails
  <1>5. CASE TlsFails \/ InitStopped \/ Loaded \/ RetryInit
    BY <1>2, <1>5 DEF TlsFails, InitStopped, GiveUp, Loaded, RetryInit, controller
  <1>6. ASSUME UNCHANGED <<controller, current, heard>>, NEW j \in Cams,
               NEW m \in Macs \cup {None}, GetDevice(j, m)
        PROVE  CamAgrees(k)'
    <2>1. CASE cams'[k] = cams[k]
      BY <1>2, <1>6, <2>1 DEF controller
    <2>2. CASE cams'[k] # cams[k]
      <3>1. cams'[k] = [NoCam EXCEPT !.st = "live", !.mac = m, !.told = <<current, m>>,
                                     !.online = IsOnline(current, m)]
        BY <1>6, <2>2 DEF GetDevice, TypeOK, IInv
      <3>2. /\ cams'[k].mac = m /\ cams'[k].told[1] = current /\ cams'[k].told[2] = m
            /\ cams'[k].online = IsOnline(current, m)
        BY <3>1 DEF NoCam
      <3>3. IsOnline(current, m)' = IsOnline(current, m) /\ (m = None => ~IsOnline(current, m))
        BY <1>6 DEF IsOnline, controller
      <3>4. QED
        <4>1. cams'[k].told[1] \in Emus => server'[cams'[k].told[1]] # "new"
          BY <1>0, <1>6, <3>2, ControllerConstants DEF controller
        <4>2. (m = None => ~cams'[k].online) /\ cams'[k].online = IsOnline(current, m)'
          BY <3>2, <3>3
        <4>3. IsOnline(current, cams[k].mac)' = IsOnline(current, m)'
          BY <3>2 DEF IsOnline
        <4>4. QED
          BY <3>2, <4>1, <4>2, <4>3 DEF CamAgrees
    <2>3. QED
      BY <2>1, <2>2
  <1>7. ASSUME NEW j \in Cams, LoadCamera(j) PROVE CamAgrees(k)'
    BY <1>6, <1>7 DEF LoadCamera
  <1>8. CASE Devices
    <2>0. PICK j \in Cams :
              \/ \E m \in Macs : CreateDevice(j, m)
              \/ \E m \in Macs \cup {None} : ScryptedGetsDevice(j, m)
              \/ EnsurePaired(j) \/ Reconcile(j) \/ HostChanged(j)
              \/ ReleaseDevice(j) \/ CameraReleased(j)
      BY <1>8 DEF Devices
    <2>1. UNCHANGED <<controller, current, heard>>
      BY <2>0 DEF CreateDevice, ScryptedGetsDevice, EnsurePaired, Reconcile, HostChanged,
                  ReleaseDevice, CameraReleased
    <2>2. CASE \E m \in Macs \cup {None} : ScryptedGetsDevice(j, m)
      BY <1>6, <2>1, <2>2 DEF ScryptedGetsDevice
    <2>3. CASE cams'[k] = cams[k]
      BY <1>2, <2>1, <2>3 DEF controller
    <2>4. CASE /\ cams'[k] # cams[k]
               /\ \/ \E m \in Macs : CreateDevice(j, m)
                  \/ HostChanged(j) \/ ReleaseDevice(j) \/ CameraReleased(j)
      <3>1. j = k
        BY <2>4 DEF CreateDevice, HostChanged, ReleaseDevice, CameraReleased, TypeOK, IInv
      <3>2. \/ cams'[k].told[1] = None
            \/ cams'[k].st # "live" /\ cams'[k].told = cams[k].told
        <4>1. CASE (\E m \in Macs : CreateDevice(k, m)) \/ CameraReleased(k)
          <5>1. ASSUME NEW m \in Macs, CreateDevice(k, m) PROVE cams'[k].told[1] = None
            <6>1. cams'[k] = [NoCam EXCEPT !.st = "live", !.mac = m,
                                           !.pairing = ~IsOnline(current, m)]
              BY <1>0, <5>1 DEF CreateDevice, TypeOK
            <6>2. cams'[k].told = <<None, None>>
              BY <6>1 DEF NoCam
            <6>3. QED
              BY <6>2
          <5>2. CASE CameraReleased(k)
            BY <1>0, <5>2 DEF CameraReleased, TypeOK, NoCam
          <5>3. QED
            BY <4>1, <5>1, <5>2
        <4>2. CASE HostChanged(k)
          <5>1. cams'[k] = [cams[k] EXCEPT !.pairing = FALSE, !.mac = None, !.told = <<None, None>>]
            BY <1>0, <4>2 DEF HostChanged, TypeOK
          <5>2. QED
            BY <1>0, <5>1, CameraFields
        <4>3. CASE ReleaseDevice(k)
          <5>1. cams'[k] = [cams[k] EXCEPT !.st = "releasing"]
            BY <1>0, <4>3 DEF ReleaseDevice, TypeOK
          <5>2. QED
            BY <1>0, <5>1, CameraFields
        <4>4. QED
          BY <2>4, <3>1, <4>1, <4>2, <4>3
      <3>3. QED
        BY <1>1, <2>1, <3>2, ControllerConstants DEF CamAgrees
    <2>5. CASE cams'[k] # cams[k] /\ (EnsurePaired(j) \/ Reconcile(j))
      <3>1. j = k
        BY <2>5 DEF EnsurePaired, Reconcile, TypeOK, IInv
      <3>2. \/ cams'[k].told[1] = None
            \/ /\ cams'[k].told = cams[k].told /\ cams'[k].mac = cams[k].mac
               /\ cams'[k].online = cams[k].online /\ cams'[k].st = cams[k].st
        <4>1. CASE EnsurePaired(k)
          <5>1. cams'[k] = [cams[k] EXCEPT !.pairing = TRUE]
            BY <1>0, <4>1 DEF EnsurePaired, TypeOK
          <5>2. QED
            BY <1>0, <5>1, CameraFields
        <4>2. CASE Reconcile(k)
          <5>1. PICK real : cams'[k] = [cams[k] EXCEPT !.pairing = FALSE, !.mac = real,
                    !.told = IF real = cams[k].mac THEN cams[k].told ELSE <<None, None>>]
            BY <1>0, <4>2 DEF Reconcile, TypeOK
          <5>2. CASE real = cams[k].mac
            BY <1>0, <5>1, <5>2, CameraFields
          <5>3. CASE real # cams[k].mac
            BY <1>0, <5>1, <5>3, CameraFields
          <5>4. QED
            BY <5>2, <5>3
        <4>3. QED
          BY <2>5, <3>1, <4>1, <4>2
      <3>3. QED
        BY <1>0, <1>1, <2>1, <3>2, ControllerConstants DEF CamAgrees, IsOnline, controller
    <2>6. QED
      BY <2>0, <2>2, <2>3, <2>4, <2>5
  <1>9. CASE EnableAudio \/ DownSteps
    <2>1. UNCHANGED <<current, heard, cams>>
      BY <1>9 DEF EnableAudio, DownSteps, DownCameras, DownAudio, DownEmulator, DownPush
    <2>2. UNCHANGED controller \/ ShuttingDown
      BY <1>9 DEF EnableAudio, DownSteps, DownCameras, DownAudio, DownEmulator, DownPush,
                  ShuttingDown
    <2>3. QED
      BY <1>0, <1>2, <2>1, <2>2 DEF controller
  <1>10. CASE Shutdown
    <2>1. current' = None /\ cams'[k].told = cams[k].told
      BY <1>0, <1>10 DEF Shutdown, Cameras
    <2>2. QED
      BY <1>1, <2>1 DEF CamAgrees
  <1>11. CASE Listener /\ UNCHANGED own
    BY <1>0, <1>2, <1>11, ListenerNext DEF Listener, own
  <1>12. CASE Camera /\ UNCHANGED own
    <2>1. \A f \in Emus, n \in Macs :
              /\ IsOnline(f, n)' => IsOnline(f, n)
              /\ IsOnline(f, n) /\ ~IsOnline(f, n)' => sessions'[f][n] # None
              /\ sessions[f][n] # None => sessions'[f][n] # None
      BY <1>0, <1>12, CameraNext DEF Camera
    <2>2. cams[k].mac \in Macs \cup {None} /\ cams[k].online \in BOOLEAN
      BY <1>0, IsOnlineTypes DEF Cameras
    <2>3. QED
      BY <1>0, <1>1, <1>12, <2>1, <2>2, IsOnlineTypes DEF CamAgrees, own, IsOnline
  <1>13. ASSUME NEW c \in Conns, CameraAuthenticated(c) PROVE CamAgrees(k)'
    <2>1. PICK e \in Emus, m \in Macs :
              /\ \A f \in Emus, n \in Macs : IsOnline(f, n)' <=> IsOnline(f, n) \/ (f = e /\ n = m)
              /\ UNCHANGED <<server, sessions, current, heard, down>> /\ Tell(e, m, TRUE)
      BY <1>0, <1>13, AuthenticatedNext DEF CameraAuthenticated
    <2>2. /\ cams'[k].st = cams[k].st /\ cams'[k].mac = cams[k].mac
          /\ IF e \in heard /\ ~ShuttingDown /\ cams[k].st = "live" /\ cams[k].mac = m
             THEN cams'[k].online = TRUE /\ cams'[k].told[1] = e /\ cams'[k].told[2] = m
             ELSE cams'[k].online = cams[k].online /\ cams'[k].told = cams[k].told
      BY <1>0, <2>1, TellKeeps
    <2>3. CASE ShuttingDown
      BY <1>0, <1>1, <2>1, <2>2, <2>3 DEF CamAgrees
    <2>4. CASE ~ShuttingDown /\ e \in heard /\ cams[k].st = "live" /\ cams[k].mac = m
      <3>1. e = current /\ IsOnline(e, m)'
        BY <1>0, <2>1, <2>4
      <3>2. cams'[k].online = TRUE /\ cams'[k].told[1] = current
            /\ cams'[k].told[2] = m /\ cams'[k].mac = m
        BY <2>2, <2>4, <3>1
      <3>3. IsOnline(current, cams[k].mac)'
        BY <2>1, <3>1, <3>2 DEF IsOnline
      <3>4. server'[current] # "new" /\ m # None
        BY <1>0, <2>1, <3>1, ControllerConstants
      <3>5. QED
        BY <2>1, <3>2, <3>3, <3>4 DEF CamAgrees
    <2>5. CASE ~ShuttingDown /\ ~(e \in heard /\ cams[k].st = "live" /\ cams[k].mac = m)
      <3>1. /\ cams'[k].online = cams[k].online /\ cams'[k].told = cams[k].told
            /\ cams'[k].st = cams[k].st /\ cams'[k].mac = cams[k].mac
        BY <2>2, <2>5
      <3>2. ASSUME cams[k].st = "live", current # None, current \in heard, cams[k].mac # None
            PROVE  IsOnline(current, cams[k].mac)' <=> IsOnline(current, cams[k].mac)
        <4>1. ~(current = e /\ cams[k].mac = m) /\ current \in Emus /\ cams[k].mac \in Macs
          BY <1>0, <2>5, <3>2 DEF Cameras
        <4>2. QED
          BY <2>1, <3>1, <4>1 DEF IsOnline
      <3>3. QED
        <4>1. ASSUME cams[k].st = "live", current # None, current \in heard, cams[k].mac # None
              PROVE  IsOnline(current, cams[k].mac)' = IsOnline(current, cams[k].mac)
          BY <3>2, <4>1 DEF IsOnline
        <4>2. QED
          BY <1>0, <1>1, <2>1, <3>1, <4>1 DEF CamAgrees
    <2>6. QED
      BY <2>3, <2>4, <2>5
  <1>14. ASSUME NEW c \in Conns, CameraClosed(c) PROVE CamAgrees(k)'
    <2>1. UNCHANGED <<server, current, heard, down>>
      BY <1>0, <1>14, ClosedNext DEF CameraClosed
    <2>2. CASE ~IsCurrent(c)
      <3>1. /\ cams' = cams
            /\ \A f \in Emus, n \in Macs :
                   sessions'[f][n] = sessions[f][n] /\ IsOnline(f, n)' = IsOnline(f, n)
        BY <1>0, <1>14, <2>2, ClosedNext DEF CameraClosed
      <3>2. ASSUME current # None, cams[k].mac # None
            PROVE  /\ IsOnline(current, cams[k].mac)' = IsOnline(current, cams[k].mac)
                   /\ sessions'[current][cams[k].mac] = sessions[current][cams[k].mac]
        <4>1. current \in Emus /\ cams[k].mac \in Macs
          BY <1>0, <3>2 DEF Cameras
        <4>2. QED
          BY <2>1, <3>1, <4>1 DEF IsOnline
      <3>3. QED
        BY <1>0, <1>1, <2>1, <3>1, <3>2 DEF CamAgrees
    <2>3. CASE IsCurrent(c)
      <3> DEFINE e == conn[c].emu
                 m == conn[c].mac
      <3>0. /\ e \in Emus /\ m \in Macs /\ Tell(e, m, FALSE)
            /\ \A f \in Emus, n \in Macs :
                   IF f = e /\ n = m THEN sessions'[f][n] = None
                   ELSE sessions'[f][n] = sessions[f][n] /\ IsOnline(f, n)' = IsOnline(f, n)
        <4>1. Closed(c) /\ Tell(e, m, FALSE)
          BY <1>14, <2>3 DEF CameraClosed
        <4>2. e \in Emus /\ m \in Macs
          BY <1>0, <2>3, <4>1, ClosedNext
        <4>3. \A f \in Emus, n \in Macs :
                  IF f = e /\ n = m THEN sessions'[f][n] = None
                  ELSE sessions'[f][n] = sessions[f][n] /\ IsOnline(f, n)' = IsOnline(f, n)
          <5>1. \A f \in Emus, n \in Macs :
                    IF IsCurrent(c) /\ f = e /\ n = m THEN sessions'[f][n] = None
                    ELSE sessions'[f][n] = sessions[f][n] /\ IsOnline(f, n)' = IsOnline(f, n)
            BY <1>0, <4>1, ClosedNext
          <5>2. QED
            BY <2>3, <5>1
        <4>4. QED
          BY <4>1, <4>2, <4>3
      <3> HIDE DEF e, m
      <3>1. /\ cams'[k].st = cams[k].st /\ cams'[k].mac = cams[k].mac
            /\ IF e \in heard /\ ~ShuttingDown /\ cams[k].st = "live" /\ cams[k].mac = m
               THEN cams'[k].online = FALSE /\ cams'[k].told[1] = e /\ cams'[k].told[2] = m
               ELSE cams'[k].online = cams[k].online /\ cams'[k].told = cams[k].told
        BY <1>0, <3>0, TellKeeps
      <3>2. CASE ShuttingDown
        BY <1>0, <1>1, <2>1, <3>1, <3>2 DEF CamAgrees
      <3>3. CASE ~ShuttingDown /\ e \in heard /\ cams[k].st = "live" /\ cams[k].mac = m
        <4>1. e = current /\ sessions'[e][m] = None
          BY <1>0, <2>1, <3>0, <3>3
        <4>2. cams'[k].online = FALSE /\ cams'[k].told[1] = current
              /\ cams'[k].told[2] = m /\ cams'[k].mac = m
          BY <3>1, <3>3, <4>1
        <4>3. IsOnline(current, cams[k].mac)' = FALSE
          BY <2>1, <4>1, <4>2 DEF IsOnline
        <4>4. server'[current] # "new"
          BY <1>0, <2>1, <3>0, <4>1, ControllerConstants
        <4>5. QED
          BY <2>1, <4>2, <4>3, <4>4 DEF CamAgrees
      <3>4. CASE ~ShuttingDown /\ ~(e \in heard /\ cams[k].st = "live" /\ cams[k].mac = m)
        <4>1. /\ cams'[k].online = cams[k].online /\ cams'[k].told = cams[k].told
              /\ cams'[k].st = cams[k].st /\ cams'[k].mac = cams[k].mac
          BY <3>1, <3>4
        <4>2. ASSUME cams[k].st = "live", current # None, current \in heard, cams[k].mac # None
              PROVE  /\ IsOnline(current, cams[k].mac)' = IsOnline(current, cams[k].mac)
                     /\ sessions'[current][cams[k].mac] = sessions[current][cams[k].mac]
          <5>1. ~(current = e /\ cams[k].mac = m) /\ current \in Emus /\ cams[k].mac \in Macs
            BY <1>0, <3>4, <4>2 DEF Cameras
          <5>2. QED
            BY <2>1, <3>0, <4>1, <5>1 DEF IsOnline
        <4>3. QED
          BY <1>0, <1>1, <2>1, <4>1, <4>2 DEF CamAgrees
      <3>5. QED
        BY <3>2, <3>3, <3>4
    <2>4. QED
      BY <2>2, <2>3
  <1>15. CASE UNCHANGED vars
    BY <1>2, <1>15 DEF vars, own, controller
  <1>16. QED
    BY <1>3, <1>4, <1>5, <1>7, <1>8, <1>9, <1>10, <1>11, <1>12, <1>13, <1>14, <1>15
       DEF Next, InitSteps

\* What shutdown() cleaned up stays clean.
LEMMA OutlivesNext ==
    ASSUME IInv, [Next]_vars
    PROVE  NothingOutlives'
  <1>0. /\ CInv /\ ControllerTypeOK /\ NothingOutlives /\ AttemptsGoOn /\ OnlyOwnerListens
        /\ cams \in [Cams -> Cameras]
        /\ down.emu \in Emus \cup {None} /\ init \in Attempts
        /\ init.at \in {"idle", "tls"} <=> init.emu = None
        /\ down \in [at : DownAt, emu : Emus \cup {None}]
    BY DEF IInv, CInv, TypeOK
  <1> DEFINE Kept == /\ ~retry' /\ ~running' /\ current' = None /\ heard' = {}
                     /\ \A k \in Cams : cams'[k].st # "live"
                     /\ audio' = audio
                     /\ \A e \in Emus : server[e] \in Ended => server'[e] \in Ended
  <1>1. ASSUME ShuttingDown
        PROVE  /\ ~retry /\ ~running /\ current = None /\ heard = {}
               /\ \A k \in Cams : cams[k].st # "live"
    BY <1>0, <1>1 DEF NothingOutlives
  <1>2. ASSUME ~ShuttingDown, ~Shutdown PROVE NothingOutlives'
    <2>1. down' = down
      BY <1>2, OtherSteps
         DEF InitSteps, TlsLoaded, TlsFails, Started, InitStopped, LoadCamera, LoadFails, Loaded,
             RetryInit, DownSteps, DownCameras, DownAudio, DownEmulator, DownPush, ShuttingDown,
             own, AttemptsIdle
    <2>2. QED
      BY <1>2, <2>1 DEF NothingOutlives, ShuttingDown
  <1>3. CASE Shutdown
    <2>1. heard \subseteq {current} /\ ~ShuttingDown
      BY <1>0, <1>3 DEF Shutdown, AttemptsGoOn
    <2>2. \A k \in Cams : cams'[k].st # "live"
      <3> SUFFICES ASSUME NEW k \in Cams PROVE cams'[k].st # "live"
        OBVIOUS
      <3>1. cams'[k] = IF cams[k].st = "live" THEN [cams[k] EXCEPT !.st = "releasing"] ELSE cams[k]
        BY <1>3 DEF Shutdown
      <3>2. QED
        BY <1>0, <3>1, CameraFields
    <2>3. heard' = {}
      BY <1>3, <2>1 DEF Shutdown
    <2>4. QED
      BY <1>3, <2>2, <2>3 DEF Shutdown, NothingOutlives
  <1>4. CASE ShuttingDown
    <2>0. ASSUME Kept, down' = down PROVE NothingOutlives'
      BY <1>0, <2>0 DEF NothingOutlives
    <2>1. ASSUME ~retry', ~running', current' = None, heard' \subseteq heard,
                 UNCHANGED <<cams, audio>>,
                 \A e \in Emus : server[e] \in Ended => server'[e] \in Ended
          PROVE  Kept
      BY <1>1, <1>4, <2>1
    <2> HIDE DEF Kept
    <2>2. CASE InitSteps
      <3>1. \A e \in Emus : server[e] \in Ended => server'[e] \in Ended
        BY <1>0, <1>4, <2>2, StopNext
           DEF InitSteps, TlsLoaded, TlsFails, Started, InitStopped, LoadCamera, LoadFails,
               Loaded, RetryInit, controller, Attempts
      <3>2. /\ ~retry' /\ ~running' /\ current' = None /\ heard' \subseteq heard
            /\ UNCHANGED <<cams, audio, down>>
        <4>1. CASE TlsLoaded \/ Started \/ LoadFails \/ Loaded
          BY <1>1, <1>4, <4>1 DEF TlsLoaded, Started, LoadFails, Loaded
        <4>2. CASE TlsFails \/ InitStopped
          <5>1. GiveUp \/ UNCHANGED <<current, retry, running>>
            BY <4>2 DEF TlsFails, InitStopped
          <5>2. UNCHANGED <<heard, cams, audio, down>>
            BY <4>2 DEF TlsFails, InitStopped
          <5>3. ASSUME GiveUp PROVE ~retry' /\ ~running' /\ current' = None
            <6>1. retry' = (retry \/ ~ShuttingDown)
              BY <5>3 DEF GiveUp
            <6>2. ~retry'
              BY <1>1, <1>4, <6>1
            <6>3. QED
              BY <1>1, <1>4, <5>3, <6>2 DEF GiveUp
          <5>4. QED
            BY <1>1, <1>4, <5>1, <5>2, <5>3
        <4>3. ~RetryInit /\ ~\E k \in Cams : LoadCamera(k)
          BY <1>1, <1>4 DEF RetryInit, LoadCamera
        <4>4. QED
          BY <2>2, <4>1, <4>2, <4>3 DEF InitSteps
      <3>3. QED
        BY <2>0, <2>1, <3>1, <3>2
    <2>3. CASE Listener /\ UNCHANGED own
      <3>1. \A e \in Emus : server[e] \in Ended => server'[e] \in Ended
        BY <1>0, <2>3, ListenerNext DEF Listener, Ended
      <3>2. QED
        BY <1>1, <1>4, <2>0, <2>1, <2>3, <3>1 DEF own
    <2>4. CASE Camera /\ UNCHANGED own
      <3>1. UNCHANGED server
        BY <1>0, <2>4, CameraNext DEF Camera
      <3>2. QED
        BY <1>1, <1>4, <2>0, <2>1, <2>4, <3>1 DEF own
    <2>5. ASSUME NEW c \in Conns, CameraAuthenticated(c) \/ CameraClosed(c) PROVE NothingOutlives'
      <3>1. UNCHANGED <<server, cams, retry, running, current, heard, audio, down>>
        BY <1>0, <1>4, <2>5
           DEF CameraAuthenticated, CameraClosed, Authenticated, Closed, Tell
      <3>2. QED
        BY <1>1, <1>4, <2>0, <2>1, <3>1
    <2>6. CASE Devices
      <3>1. UNCHANGED <<server, retry, running, current, heard, audio, down>>
        BY <2>6 DEF Devices, CreateDevice, ScryptedGetsDevice, EnsurePaired, Reconcile, HostChanged,
                    ReleaseDevice, CameraReleased, controller
      <3>2. \A k \in Cams : cams'[k].st # "live"
        <4>1. PICK j \in Cams : CameraReleased(j)
          BY <1>1, <1>4, <2>6
             DEF Devices, CreateDevice, ScryptedGetsDevice, EnsurePaired, Reconcile, HostChanged,
                 ReleaseDevice
        <4>2. cams' = [cams EXCEPT ![j] = NoCam] /\ NoCam.st # "live"
          BY <4>1 DEF CameraReleased, NoCam
        <4>3. QED
          BY <1>0, <1>1, <1>4, <4>2
      <3>3. QED
        BY <1>1, <1>4, <2>0, <3>1, <3>2 DEF Kept
    <2>7. CASE DownSteps
      <3>1. /\ ~retry' /\ ~running' /\ current' = None /\ heard' = {} /\ UNCHANGED cams
            /\ \A e \in Emus : server[e] \in Ended => server'[e] \in Ended
        BY <1>0, <1>1, <1>4, <2>7, StopNext
           DEF DownSteps, DownCameras, DownAudio, DownEmulator, DownPush, controller
      <3>2. CASE DownCameras
        BY <1>1, <1>4, <3>1, <3>2 DEF DownCameras, NothingOutlives
      <3>3. CASE DownAudio
        BY <1>1, <1>4, <3>1, <3>3 DEF DownAudio, NothingOutlives
      <3>4. CASE DownEmulator
        <4>1. \A e \in Emus : server[e] \in Ended
          BY <1>0, <1>4, <3>4, ControllerConstants
             DEF DownEmulator, OnlyOwnerListens, OwnerOf, Stopped
        <4>2. QED
          BY <1>0, <1>1, <1>4, <3>1, <3>4, <4>1 DEF DownEmulator, NothingOutlives
      <3>5. CASE DownPush
        BY <1>0, <1>1, <1>4, <3>1, <3>5 DEF DownPush, NothingOutlives
      <3>6. QED
        BY <2>7, <3>2, <3>3, <3>4, <3>5 DEF DownSteps
    <2>8. CASE UNCHANGED vars
      BY <1>1, <1>4, <2>0, <2>1, <2>8 DEF vars, own, controller
    <2>9. QED
      BY <1>4, <2>2, <2>3, <2>4, <2>5, <2>6, <2>7, <2>8 DEF Next, EnableAudio, Shutdown
  <1>5. QED
    BY <1>2, <1>3, <1>4

-----------------------------------------------------------------------------
(* The theorems. *)

\* Before anything has started nothing is owed.
LEMMA InitHolds == Init => IInv
  <1> SUFFICES ASSUME Init PROVE IInv
    OBVIOUS
  <1> USE ControllerConstants
  <1>1. TypeOK
    <2>1. ControllerTypeOK
      <3>1. \A c \in Conns : conn[c] = Free /\ conn[c].hs = "none"
        BY DEF Init, ControllerInit, Free
      <3>2. QED
        BY <3>1, ConnTypes DEF Init, ControllerInit, ControllerTypeOK, ServerStates
    <2>2. init \in Attempts /\ init.at = "tls" /\ init.emu = None
      <3>1. PICK stored \in SUBSET Cams : init = [at |-> "tls", emu |-> None, todo |-> stored]
        BY DEF Init
      <3>2. QED
        BY <3>1, AttemptTypes
    <2>3. cams \in [Cams -> Cameras] /\ \A k \in Cams : cams[k] = NoCam
      BY CameraTypes DEF Init
    <2>4. QED
      BY <2>1, <2>2, <2>3 DEF Init, TypeOK, DownAt
  <1>2. ConnsInOrder /\ SessionsAreOwned
    BY DEF Init, ControllerInit, ConnsInOrder, InOrder, SessionsAreOwned, Free
  <1>3. OnlyOwnerListens /\ AttemptsGoOn /\ NothingOutlives
    BY DEF Init, ControllerInit, OnlyOwnerListens, AttemptsGoOn, NothingOutlives, ShuttingDown,
           Ended
  <1>4. CurrentStarted /\ CamerasAgree
    BY DEF Init, CurrentStarted, CamerasAgree, CamAgrees, NoCam
  <1>5. QED
    BY <1>1, <1>2, <1>3, <1>4 DEF IInv

\* IInv is inductive.
LEMMA IInvNext ==
    ASSUME IInv, [Next]_vars
    PROVE  IInv'
  <1>1. TypeOK' /\ CInv'
    BY TypeNext, CInvNext
  <1>2. OnlyOwnerListens' /\ AttemptsGoOn' /\ CurrentStarted'
    BY <1>1, AttemptsNext
  <1>3. CamerasAgree'
    BY <1>1, AgreesNext DEF CamerasAgree
  <1>4. NothingOutlives'
    BY OutlivesNext
  <1>5. QED
    BY <1>1, <1>2, <1>3, <1>4 DEF IInv, CInv

\* It holds always.
LEMMA IInvHolds == Spec => []IInv
  <1>1. IInv /\ [Next]_vars => IInv'
    BY IInvNext
  <1>2. QED
    BY <1>1, InitHolds, PTL DEF Spec

\* Type correctness of the provider and of its emulators.
THEOREM TypeCorrect == Spec => []TypeOK
  <1>1. IInv => TypeOK
    BY DEF IInv
  <1>2. QED
    BY <1>1, IInvHolds, PTL

\* However init() fails, retries and races shutdown(), at most one emulator may hold
\* port 7442, and an idle init() has either succeeded, with the listener up, or
\* scheduled its retry.
THEOREM OneControllerHolds == Spec => []OneController
  <1>1. IInv => OneController
    <2> SUFFICES ASSUME IInv PROVE OneController
      OBVIOUS
    <2>1. ASSUME NEW e \in Emus, NEW f \in Emus, e # f
          PROVE  {server[e], server[f]} \cap Ended # {}
      BY <2>1 DEF IInv, OnlyOwnerListens
    <2>2. ASSUME init.at = "idle", ~ShuttingDown PROVE retry # (running /\ server[current] = "up")
      BY <2>2 DEF IInv, AttemptsGoOn, TypeOK
    <2>3. QED
      BY <2>1, <2>2 DEF OneController
  <1>2. QED
    BY <1>1, IInvHolds, PTL

\* The online state Scrypted shows of a camera is what isOnline() says, and each
\* session and its socket go together, for every number of cameras, connections
\* and attempts of init().
THEOREM OnlineAgreesAlways == Spec => []OnlineAgrees
  <1>1. IInv => OnlineAgrees
    BY AgreeOne DEF IInv
  <1>2. QED
    BY <1>1, IInvHolds, PTL

\* No timer, camera object, event or listener outlives the stage of shutdown() that
\* ends it, whatever init() or Scrypted goes on to do.
THEOREM NothingOutlivesShutdown == Spec => []NothingOutlives
  <1>1. IInv => NothingOutlives
    BY DEF IInv
  <1>2. QED
    BY <1>1, IInvHolds, PTL
=============================================================================
