---------------------------- MODULE AudioEndpoint ----------------------------
(***************************************************************************)
(* The stable audio endpoint of src/src/audio-rtsp.ts with the sessions of *)
(* src/src/rtsp-session.ts: one listener for as long as it is wanted, and  *)
(* RTSP sessions that find their camera on DESCRIBE, tap the packets of    *)
(* its current muxer on PLAY, and end with that muxer.                     *)
(*                                                                         *)
(* A session's requests are handled one after the other, also when one of  *)
(* them waits seconds for a camera, and also when the session was closed   *)
(* meanwhile: closing stops the socket, not the chain.                     *)
(***************************************************************************)
EXTENDS Naturals, Sequences, FiniteSets

CONSTANTS
    Gens,       \* net.Server objects; one is free again once it has closed
    Sessions,   \* slots of client sessions
    MaxServe,   \* muxer generations: bound of the exploration
    MaxQueue,   \* requests a client sends ahead
    None

ASSUME AudioConstants == {MaxServe, MaxQueue} \subseteq Nat /\ None \notin Gens \cup Nat

VARIABLES
    listener,   \* Gens -> none, opening, up, closing
    server,     \* this.server
    starting,   \* this.starting: the listener whose start it promises
    stopping,   \* what stop() in progress awaits: a listener, or None
    again,      \* a start() waits for that stop()
    sess,       \* Sessions -> the session's fields
    serve,      \* the newest muxer generation, 0 before the first
    alive,      \* it lives
    taps        \* 1..MaxServe -> the sessions in its audioSubs

endpoint == <<listener, server, starting, stopping, again>>
muxer == <<serve, alive, taps>>
audioVars == <<endpoint, sess, muxer>>

\* The requests that change a session.  PAUSE only mutes it.
Methods == {"DESCRIBE", "PLAY", "TEARDOWN"}
Serves == 1..MaxServe

\* queue: requestChain; busy: its head awaits resolveSource(); tap: unsubscribe.
NoSession == [st |-> "none", queue |-> << >>, busy |-> FALSE, resolved |-> FALSE,
              handle |-> None, tap |-> None, played |-> FALSE]

AudioInit ==
    /\ listener = [g \in Gens |-> "none"]
    /\ server = None /\ starting = None /\ stopping = None /\ again = FALSE
    /\ sess = [s \in Sessions |-> NoSession]
    /\ serve = 0 /\ alive = FALSE /\ taps = [i \in Serves |-> {}]

Open == {s \in Sessions : sess[s].st = "open"}

-----------------------------------------------------------------------------
(* The listener. *)

Listen(g) ==
    /\ listener[g] = "none"
    /\ server' = g /\ starting' = g
    /\ listener' = [listener EXCEPT ![g] = "opening"]

\* start(): a pending or finished start is shared, a stop() is waited for.
Start ==
    /\ IF stopping # None THEN again' = TRUE /\ UNCHANGED <<listener, server, starting>>
       ELSE IF starting # None THEN UNCHANGED <<listener, server, starting, again>>
       ELSE (\E g \in Gens : Listen(g)) /\ UNCHANGED again
    /\ UNCHANGED <<stopping, sess, muxer>>

\* stop() is over; a start() that waited goes on.
Stopped(ports) ==
    /\ stopping' = None /\ again' = FALSE
    /\ IF again
       THEN \E g \in Gens :
                /\ ports[g] = "none"
                /\ server' = g /\ starting' = g
                /\ listener' = [ports EXCEPT ![g] = "opening"]
       ELSE listener' = ports /\ UNCHANGED <<server, starting>>

\* The start of g is settled: a stop() that waits for it is over.
Settled(g, ports) ==
    IF stopping = g THEN Stopped(ports)
    ELSE listener' = ports /\ UNCHANGED <<server, starting, stopping, again>>

\* listen() succeeds.  A listener nobody wants any more closes first.
\* (Mutant: stop() in between is not noticed.)
StillWantedAlways(g) == TRUE
StillWanted(g) == server = g
ListenUp(g) ==
    /\ listener[g] = "opening"
    /\ IF StillWanted(g) THEN Settled(g, [listener EXCEPT ![g] = "up"])
       ELSE /\ listener' = [listener EXCEPT ![g] = "closing"]
            /\ UNCHANGED <<server, starting, stopping, again>>
    /\ UNCHANGED <<sess, muxer>>

\* listen() fails; the next start() may try again.  A stop() that waits for
\* this listener is over.
ListenFails(g) ==
    /\ listener[g] = "opening"
    /\ LET ports == [listener EXCEPT ![g] = "none"]
       IN  IF stopping = g THEN Stopped(ports)
           ELSE /\ listener' = ports
                /\ server' = IF server = g THEN None ELSE server
                /\ starting' = IF starting = g THEN None ELSE starting
                /\ UNCHANGED <<stopping, again>>
    /\ UNCHANGED <<sess, muxer>>

ListenerClosed(g) ==
    /\ listener[g] = "closing"
    /\ Settled(g, [listener EXCEPT ![g] = "none"])
    /\ UNCHANGED <<sess, muxer>>

-----------------------------------------------------------------------------
(* Sessions. *)

\* close() of sessions: the socket is destroyed and the tap taken out.  The
\* requests that were read before stay in the chain.
Closing(S) == [s \in Sessions |-> IF s \in S THEN [sess[s] EXCEPT !.st = "closed", !.tap = None]
                                             ELSE sess[s]]

Untapped(S) == [i \in Serves |-> taps[i] \ {s \in S : sess[s].tap = i}]

CloseSessions(S) ==
    /\ sess' = Closing(S)
    /\ taps' = Untapped(S)
    /\ UNCHANGED <<serve, alive>>

\* stop(): sessions, then the listener, or the pending listen(), is waited for.
Stop ==
    /\ stopping = None /\ starting # None
    /\ CloseSessions(Open)
    /\ stopping' = starting /\ server' = None /\ starting' = None
    /\ listener' = IF listener[starting] = "up" THEN [listener EXCEPT ![starting] = "closing"]
                   ELSE listener
    /\ UNCHANGED again

Connect(s) ==
    /\ \E g \in Gens : listener[g] = "up"
    /\ sess[s].st = "none"
    /\ sess' = [sess EXCEPT ![s].st = "open"]
    /\ UNCHANGED <<endpoint, muxer>>

\* A request is read.  (Mutant: it goes before those that wait.)
QueuedFirst(queue, method) == <<method>> \o queue
Queued(queue, method) == Append(queue, method)
Send(s, method) ==
    /\ s \in Open /\ Len(sess[s].queue) < MaxQueue
    /\ sess' = [sess EXCEPT ![s].queue = Queued(@, method)]
    /\ UNCHANGED <<endpoint, muxer>>

IsHead(s, method) == sess[s].queue # << >> /\ Head(sess[s].queue) = method
IsNext(s, method) == IsHead(s, method) /\ ~sess[s].busy
Handled(c) == [c EXCEPT !.queue = Tail(@)]

\* DESCRIBE: answered at once when resolved, else the camera is looked for.
Describe(s) ==
    /\ IsNext(s, "DESCRIBE")
    /\ sess' = [sess EXCEPT ![s] = IF @.resolved THEN Handled(@) ELSE [@ EXCEPT !.busy = TRUE]]
    /\ UNCHANGED <<endpoint, muxer>>

\* resolveSource() gives the live muxer, creating it if need be, or one
\* without audio.
Resolve(s, audio) ==
    /\ sess[s].busy
    /\ IF alive THEN UNCHANGED <<serve, alive>>
       ELSE serve < MaxServe /\ serve' = serve + 1 /\ alive' = TRUE
    /\ sess' = [sess EXCEPT ![s] = [Handled(@) EXCEPT !.busy = FALSE, !.handle = serve',
                                                      !.resolved = audio]]
    /\ UNCHANGED <<endpoint, taps>>

\* No such camera, or its stream cannot be started.
ResolveFails(s) ==
    /\ sess[s].busy
    /\ \E found \in {sess[s].handle, None} :
           sess' = [sess EXCEPT ![s] = [Handled(@) EXCEPT !.busy = FALSE, !.handle = found]]
    /\ UNCHANGED <<endpoint, muxer>>

Dead(i) == i < serve \/ ~alive

\* subscribeAudio(): a muxer that is dead ends the session at once.
TakesTap(i) == ~Dead(i)

\* PLAY: the first one taps the muxer that DESCRIBE found.
Play(s) ==
    /\ IsNext(s, "PLAY")
    /\ LET c == [Handled(sess[s]) EXCEPT !.played = TRUE]
           i == c.handle
       IN  IF sess[s].played \/ i = None
           THEN sess' = [sess EXCEPT ![s] = c] /\ UNCHANGED taps
           ELSE IF TakesTap(i)
           THEN /\ taps' = [taps EXCEPT ![i] = @ \cup {s}]
                /\ sess' = [sess EXCEPT ![s] = [c EXCEPT !.tap = i]]
           ELSE sess' = [sess EXCEPT ![s] = [c EXCEPT !.st = "closed"]] /\ UNCHANGED taps
    /\ UNCHANGED <<endpoint, serve, alive>>

Teardown(s) ==
    /\ IsNext(s, "TEARDOWN")
    /\ IF s \in Open
       THEN sess' = [Closing({s}) EXCEPT ![s] = Handled(@)] /\ taps' = Untapped({s})
       ELSE sess' = [sess EXCEPT ![s] = Handled(@)] /\ UNCHANGED taps
    /\ UNCHANGED <<endpoint, serve, alive>>

\* The client disconnects, or sends what is no request.
ClientEnds(s) ==
    /\ s \in Open
    /\ CloseSessions({s})
    /\ UNCHANGED endpoint

\* A tapped packet finds the client's backlog too long.
Backlogged(s) ==
    /\ s \in Open /\ sess[s].tap # None
    /\ CloseSessions({s})
    /\ UNCHANGED endpoint

\* A closed session is garbage once its chain is done and no muxer holds it.
Forget(s) ==
    /\ sess[s].st = "closed" /\ sess[s].queue = << >> /\ \A i \in Serves : s \notin taps[i]
    /\ sess' = [sess EXCEPT ![s] = NoSession]
    /\ UNCHANGED <<endpoint, muxer>>

-----------------------------------------------------------------------------
(* The muxer. *)

\* destroy(): everyone who taps is told, and closes.
ServeDies ==
    /\ alive
    /\ alive' = FALSE /\ UNCHANGED serve
    /\ sess' = Closing(taps[serve] \cap Open)
    /\ taps' = [taps EXCEPT ![serve] = {}]
    /\ UNCHANGED endpoint

-----------------------------------------------------------------------------
Listening == \E g \in Gens : ListenUp(g) \/ ListenFails(g) \/ ListenerClosed(g)
Chain(s) ==
    \/ Describe(s) \/ Play(s) \/ Teardown(s)
    \/ ResolveFails(s) \/ \E audio \in BOOLEAN : Resolve(s, audio)
Client(s) == Connect(s) \/ ClientEnds(s) \/ Backlogged(s) \/ \E m \in Methods : Send(s, m)

AudioNext ==
    \/ Start \/ Stop \/ Listening \/ ServeDies
    \/ \E s \in Sessions : Client(s) \/ Chain(s) \/ Forget(s)

AudioSpec == AudioInit /\ [][AudioNext]_audioVars

-----------------------------------------------------------------------------
\* The state is well typed (a theorem, which the run leaves to the proof).
AudioTypeOK ==
    /\ listener \in [Gens -> {"none", "opening", "up", "closing"}]
    /\ {server, starting, stopping} \subseteq Gens \cup {None}
    /\ again \in BOOLEAN /\ alive \in BOOLEAN /\ serve \in 0..MaxServe
    /\ taps \in [Serves -> SUBSET Sessions]
    /\ \A s \in Sessions :
           /\ sess[s].st \in {"none", "open", "closed"}
           /\ sess[s].queue \in Seq(Methods) /\ Len(sess[s].queue) <= MaxQueue
           /\ {sess[s].busy, sess[s].resolved, sess[s].played} \subseteq BOOLEAN
           /\ {sess[s].handle, sess[s].tap} \subseteq Serves \cup {None}

\* One listener at a time has the port, however start() and stop() overlap, and
\* it is the one the endpoint knows or the one stop() waits for: a stop() that
\* is over has released the port.
OneListener ==
    LET bound == {g \in Gens : listener[g] # "none"}
    IN  /\ Cardinality(bound) <= 1
        /\ bound \subseteq {server, stopping}
        /\ server # None => server \in bound

\* A muxer that died holds no session's tap, and an open session holds no tap
\* of a dead one: it was closed, so that its client comes back for the next
\* generation.  The tap a session knows is one the muxer has.
TapsFollowServe ==
    /\ \A i \in Serves : Dead(i) => taps[i] = {}
    /\ \A s \in Sessions, i \in Serves : sess[s].tap = i /\ s \in Open => s \in taps[i]
    /\ \A s \in Open, i \in Serves : s \in taps[i] => sess[s].tap = i

\* A session takes its requests in the order they came, however many it was sent
\* ahead: what it waits for is a DESCRIBE that is its oldest request.
OldestFirst == \A s \in Sessions : sess[s].busy => IsHead(s, "DESCRIBE")

\* The endpoint agrees with itself: with its listener through start() and stop(),
\* with the muxers its sessions are tapped into, and with its clients' order.
EndpointAgrees == OneListener /\ TapsFollowServe /\ OldestFirst

\* "client disconnect unsubscribes the tap" (test/audio-rtsp.test.ts:190).  Not
\* so when a PLAY waits behind a slow DESCRIBE: it is handled after the close(),
\* and the tap it takes stays until the muxer dies.
LeaversHoldNoTap ==
    \A s \in Sessions, i \in Serves : sess[s].st = "closed" => s \notin taps[i]
=============================================================================
