----------------------------- MODULE Controller -----------------------------
(***************************************************************************)
(* ControllerEmulator of src/src/controller-emulator.ts: the management    *)
(* listener, the WebSocket connections of the cameras, one session per MAC *)
(* and its handshake.  The push table and the commands of a session are in *)
(* StreamLifecycle.                                                        *)
(*                                                                         *)
(* The actions speak of one emulator or one connection; what the 'online'  *)
(* and 'offline' events they emit do is up to the owner (Provider).        *)
(***************************************************************************)
EXTENDS FiniteSets

CONSTANTS
    Emus,      \* ControllerEmulator objects, one for each attempt of init()
    Conns,     \* slots of camera connections
    Macs,
    None

ASSUME ControllerConstants == None \notin Emus \cup Conns \cup Macs

VARIABLES
    server,    \* Emus -> the life of its https.Server
    stopping,  \* Emus -> a stop() has not resolved yet
    conn,      \* Conns -> the connection
    sessions   \* Emus -> Macs -> the session's connection, or None

controller == <<server, stopping, conn, sessions>>

\* "stale": stop() ran while listen() was in flight.
ServerStates == {"new", "opening", "up", "stale", "closing", "down", "failed"}
\* this.server is gone and nothing of it holds the port.
Ended == {"new", "down", "failed"}

\* "accepted": no request read yet; "rejected": answered and ended by the
\* plugin, which leaves the rest to the camera; "destroyed": its close event is
\* to come.
ConnStates == {"free", "accepted", "session", "rejected", "destroyed"}
\* handshakeTimer is armed in "hello"; "asked": paramAgreement was sent.
Handshake == {"none", "hello", "asked", "authenticated"}

Free == [st |-> "free", emu |-> None, mac |-> None, hs |-> "none"]

Connections == [st : ConnStates, emu : Emus \cup {None}, mac : Macs \cup {None}, hs : Handshake]

ControllerTypeOK ==
    /\ server \in [Emus -> ServerStates]
    /\ stopping \in [Emus -> BOOLEAN]
    /\ conn \in [Conns -> Connections]
    /\ \A c \in Conns : conn[c].hs # "none" => conn[c].st = "session"
    /\ sessions \in [Emus -> [Macs -> Conns \cup {None}]]

ControllerInit ==
    /\ server = [e \in Emus |-> "new"] /\ stopping = [e \in Emus |-> FALSE]
    /\ conn = [c \in Conns |-> Free]
    /\ sessions = [e \in Emus |-> [m \in Macs |-> None]]

\* isOnline().
IsOnline(e, m) ==
    /\ e # None /\ m # None
    /\ sessions[e][m] # None /\ conn[sessions[e][m]].hs = "authenticated"

-----------------------------------------------------------------------------
(* The listener. *)

StartServer(e) ==
    /\ server[e] = "new"
    /\ server' = [server EXCEPT ![e] = "opening"]

\* Mutant: the listen callback does not look whether stop() came first.
ListeningStale(e) ==
    /\ server[e] \in {"opening", "stale"}
    /\ server' = [server EXCEPT ![e] = "up"]
    /\ UNCHANGED <<stopping, conn, sessions>>

\* The listen callback; a generation stop() gave up closes itself again.
Listening(e) ==
    /\ server[e] \in {"opening", "stale"}
    /\ server' = [server EXCEPT ![e] = IF @ = "opening" THEN "up" ELSE "down"]
    /\ UNCHANGED <<stopping, conn, sessions>>

\* The port is taken: this.server is cleared and start() rejects.
ListenFails(e) ==
    /\ server[e] \in {"opening", "stale"}
    /\ server' = [server EXCEPT ![e] = "failed"]
    /\ UNCHANGED <<stopping, conn, sessions>>

\* Mutant: the handshake timers of the destroyed sessions are not cleared.
StopLeavesTimers(e) ==
    IF stopping[e] THEN UNCHANGED controller
    ELSE LET gone == {c \in Conns : \E m \in Macs : sessions[e][m] = c}
         IN  /\ stopping' = [stopping EXCEPT ![e] = TRUE]
             /\ conn' = [c \in Conns |-> IF c \in gone
                             THEN [conn[c] EXCEPT !.st = "destroyed",
                                                  !.hs = IF @ = "hello" THEN @ ELSE "none"]
                             ELSE conn[c]]
             /\ sessions' = [sessions EXCEPT ![e] = [m \in Macs |-> None]]
             /\ server' = [server EXCEPT ![e] = IF @ = "opening" THEN "stale"
                                                ELSE IF @ = "up" THEN "closing" ELSE @]

\* stop(): the sessions are destroyed and forgotten, the listener closes.  A
\* stop() in progress is shared.
Stop(e) ==
    IF stopping[e] THEN UNCHANGED controller
    ELSE LET gone == {c \in Conns : \E m \in Macs : sessions[e][m] = c}
         IN  /\ stopping' = [stopping EXCEPT ![e] = TRUE]
             /\ conn' = [c \in Conns |-> IF c \in gone
                             THEN [conn[c] EXCEPT !.st = "destroyed", !.hs = "none"]
                             ELSE conn[c]]
             /\ sessions' = [sessions EXCEPT ![e] = [m \in Macs |-> None]]
             /\ server' = [server EXCEPT ![e] = IF @ = "opening" THEN "stale"
                                                ELSE IF @ = "up" THEN "closing" ELSE @]

\* server.close() calls back when no connection is left.
ServerClosed(e) ==
    /\ server[e] = "closing"
    /\ \A c \in Conns : conn[c].emu # e
    /\ server' = [server EXCEPT ![e] = "down"]
    /\ UNCHANGED <<stopping, conn, sessions>>

\* stop() resolves once the server is gone.
StopResolved(e) ==
    /\ stopping[e] /\ server[e] \in Ended
    /\ stopping' = [stopping EXCEPT ![e] = FALSE]
    /\ UNCHANGED <<server, conn, sessions>>

Stopped(e) == ~stopping[e] /\ server[e] \in Ended

-----------------------------------------------------------------------------
(* Connections. *)

\* A camera connects to the port.
Connect(c, e) ==
    /\ conn[c] = Free /\ server[e] = "up"
    /\ conn' = [conn EXCEPT ![c] = [Free EXCEPT !.st = "accepted", !.emu = e]]
    /\ UNCHANGED <<server, stopping, sessions>>

\* onUpgrade() and handleSession(): the session takes its MAC, the one before
\* it is torn down.  Whether the emulator was stopped meanwhile is not asked.
Upgrade(c, m) ==
    LET e == conn[c].emu
        prev == sessions[e][m]
    IN  /\ conn[c].st = "accepted"
        /\ conn' = [d \in Conns |->
               IF d = c THEN [conn[c] EXCEPT !.st = "session", !.mac = m]
               ELSE IF d = prev THEN [conn[d] EXCEPT !.st = "destroyed", !.hs = "none"]
               ELSE conn[d]]
        /\ sessions' = [sessions EXCEPT ![e][m] = c]
        /\ UNCHANGED <<server, stopping>>

\* rejectUpgrade(): a malformed request is answered with socket.end().  The
\* connection lasts until the camera ends it too.
Reject(c) ==
    /\ conn[c].st = "accepted"
    /\ conn' = [conn EXCEPT ![c].st = "rejected"]
    /\ UNCHANGED <<server, stopping, sessions>>

\* ubnt_avclient_hello: answered, the handshake timer is armed (again).
Hello(c) ==
    /\ conn[c].st = "session" /\ conn[c].hs # "authenticated"
    /\ conn' = [conn EXCEPT ![c].hs = "hello"]
    /\ UNCHANGED <<server, stopping, sessions>>

\* The 500 ms timer: paramAgreement goes out if the session is still the one
\* of its MAC.
HandshakeTimer(c) ==
    /\ conn[c].hs = "hello"
    /\ conn' = [conn EXCEPT ![c].hs =
           IF conn[c].st = "session" /\ sessions[conn[c].emu][conn[c].mac] = c
           THEN "asked" ELSE "none"]
    /\ UNCHANGED <<server, stopping, sessions>>

\* The camera's reply completes the handshake; 'online' is emitted.
Authenticated(c) ==
    /\ conn[c].st = "session" /\ conn[c].hs = "asked"
    /\ conn' = [conn EXCEPT ![c] = [@ EXCEPT !.hs = "authenticated"]]
    /\ UNCHANGED <<server, stopping, sessions>>

\* Mutant: a close ends the session of its MAC, whoever has it.
IsCurrentForMac(c) == conn[c].mac # None /\ sessions[conn[c].emu][conn[c].mac] # None

\* Whether c is the session its MAC has: only its close emits 'offline'.
IsCurrent(c) == conn[c].mac # None /\ sessions[conn[c].emu][conn[c].mac] = c

\* The close event: the camera left, or the socket was destroyed.
Closed(c) ==
    /\ conn[c].st # "free"
    /\ conn' = [conn EXCEPT ![c] = Free]
    /\ sessions' = IF IsCurrent(c)
                   THEN [sessions EXCEPT ![conn[c].emu][conn[c].mac] = None]
                   ELSE sessions
    /\ UNCHANGED <<server, stopping>>

-----------------------------------------------------------------------------
(* Properties of the emulator by itself. *)

\* A session and its socket go together: isOnline() never answers from a socket
\* that is gone or another camera's, and no live socket is left that a later
\* stop() or reconnect would not find.
SessionsAreOwned ==
    /\ \A e \in Emus, m \in Macs : sessions[e][m] # None =>
           LET c == sessions[e][m]
           IN  conn[c].st = "session" /\ conn[c].emu = e /\ conn[c].mac = m
    /\ \A c \in Conns : conn[c].st = "session" => IsCurrent(c)
=============================================================================
