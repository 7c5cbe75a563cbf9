------------------------------- MODULE Ingress -------------------------------
(***************************************************************************)
(* How one DirectStream (src/src/direct-stream.ts) takes in the camera's   *)
(* push: connections are probed, one becomes the candidate, fills a large  *)
(* buffer while it settles, and is handed over to the RTSP muxer through a *)
(* small one.  The socket is paused for up to three reasons at once.       *)
(*                                                                         *)
(* Bytes are parts, <<connection, number>>, what the de-trailer puts out   *)
(* of one write.  A destroyed socket ("closing") emits 'close' later, so   *)
(* that other callbacks come in between; it delivers no more data, as a    *)
(* paused one does not.  Starting, the push commands and the stream maps   *)
(* are StreamLifecycle's; the muxer's inside is Egress's.                  *)
(***************************************************************************)
EXTENDS Naturals, Sequences

CONSTANTS
    Socks,      \* slots of camera connections
    Settle,     \* SETTLE_BUFFER_HWM, in parts
    Steady,     \* STEADY_BUFFER_HWM, in parts
    Batch,      \* parts one data event can carry
    MaxParts,   \* parts a connection delivers: bound of the exploration
    None

ASSUME IngressConstants ==
    /\ {Settle, Steady, Batch} \subseteq Nat \ {0} /\ MaxParts \in Nat
    /\ None \notin Socks

VARIABLES
    st,         \* connection -> none, probing, open, closing (destroyed)
    probe,      \* connection -> parts of the FLV signature it has kept
    parts,      \* connection -> parts taken from it
    camera,     \* cameraSocket
    buf,        \* what this.flv holds
    handing,    \* handoffSource is set
    src,        \* what handoffSource holds
    drain,      \* ingressDrain: a listener waits for buf's drain event
    reasons,    \* ingressPauseReasons
    pausedSock, \* ingressPausedSocket
    paused,     \* the sockets that are paused
    timer,      \* settleTimer is armed
    serve,      \* the muxer: none, starting, up, gone
    stopped,
    pressure,   \* what the muxer last said of its queues
    parsed      \* what the muxer was fed (history)

conns == <<st, probe, parts>>
feed == <<camera, timer>>
bytes == <<buf, handing, src>>
pauses == <<drain, reasons, pausedSock, paused>>
muxer == <<serve, stopped, pressure, parsed>>
vars == <<conns, feed, bytes, pauses, muxer>>

Init ==
    /\ st = [s \in Socks |-> "none"]
    /\ probe = [s \in Socks |-> 0] /\ parts = [s \in Socks |-> 0]
    /\ camera = None /\ timer = FALSE
    /\ buf = << >> /\ handing = FALSE /\ src = << >>
    /\ drain = FALSE /\ reasons = {} /\ pausedSock = None /\ paused = {}
    /\ serve = "none" /\ stopped = FALSE /\ pressure = FALSE /\ parsed = << >>

serveStarted == serve # "none"
Close(f, S) == [s \in Socks |-> IF s \in S /\ f[s] # "none" THEN "closing" ELSE f[s]]

-----------------------------------------------------------------------------
(* Pausing the camera. *)

\* Mutant: whatever reason ends, the socket resumes.
HeldByNew(rs) == rs \ reasons # {}
HeldBy(rs) == rs # {}

\* setIngressPauseReason(): the reasons become rs; s is cameraSocket, and can
\* be paused; ps is ingressPausedSocket.
SetReasons(rs, s, usable, ps) ==
    /\ reasons' = rs
    /\ IF ~usable
       THEN /\ pausedSock' = IF rs = {} THEN None ELSE ps
            /\ UNCHANGED paused
       ELSE IF HeldBy(rs)
       THEN pausedSock' = s /\ paused' = paused \cup {s}
       ELSE /\ pausedSock' = IF ps = s THEN None ELSE ps
            /\ paused' = IF ps = s THEN paused \ {s} ELSE paused

Usable(s) == ~stopped /\ s # None /\ (s # None => st[s] = "open")
Add(r) == SetReasons(reasons \cup {r}, camera, Usable(camera), pausedSock)
Remove(r) == SetReasons(reasons \ {r}, camera, Usable(camera), pausedSock)

\* clearIngressPauses(): the sockets concerned are destroyed, not resumed.
ClearPauses == drain' = FALSE /\ reasons' = {} /\ pausedSock' = None /\ UNCHANGED paused

\* A write() that leaves a buffer this full returns false.  (Mutant: one that
\* is too full already.)
FullPast(b, mark) == Len(b) > mark
Full(b, mark) == Len(b) >= mark
Mark == IF serveStarted THEN Steady ELSE Settle

\* The drain listener of pauseIngress(): once there is room, at the latest
\* when the buffer is empty, the stream says so.
Drained ==
    /\ drain /\ ~Full(buf, Mark)
    /\ drain' = FALSE
    /\ Remove("flv-drain")
    /\ UNCHANGED <<conns, feed, bytes, muxer>>

\* onEgressPressure(): see Egress.
EgressPressure(on) ==
    /\ serve \in {"starting", "up"} /\ ~stopped /\ pressure # on
    /\ pressure' = on
    /\ IF on THEN Add("egress-pressure") ELSE Remove("egress-pressure")
    /\ UNCHANGED <<conns, feed, bytes, drain, serve, stopped, parsed>>

-----------------------------------------------------------------------------
(* The data events of a connection. *)

\* onCamera(), with the stream not stopped.
Accept(s) ==
    /\ ~stopped /\ st[s] = "none"
    /\ st' = [st EXCEPT ![s] = "probing"]
    /\ UNCHANGED <<probe, parts, feed, bytes, pauses, muxer>>

\* The first bytes are not FLV's, or do not come within PROBE_TIMEOUT_MS.
RejectProbe(s) ==
    /\ st[s] = "probing"
    /\ st' = Close(st, {s})
    /\ UNCHANGED <<probe, parts, feed, bytes, pauses, muxer>>

\* A first piece of the signature is kept.
KeepPrefix(s) ==
    /\ st[s] = "probing" /\ probe[s] = 0
    /\ probe' = [probe EXCEPT ![s] = 1]
    /\ UNCHANGED <<st, parts, feed, bytes, pauses, muxer>>

NextParts(s, n) == [i \in 1..n |-> <<s, parts[s] + i>>]

\* An FLV connection replaces an older candidate, never an established feed.
Supersedes == camera # None => ~serveStarted

RejectDuplicate(s) ==
    /\ st[s] = "probing" /\ ~Supersedes
    /\ st' = Close(st, {s})
    /\ UNCHANGED <<probe, parts, feed, bytes, pauses, muxer>>

\* The settle timer after adopt().  (Mutant: the older candidate is discarded
\* only then, which stops the timer.)
SettleTimerStopped == camera = None
SettleTimer == TRUE

\* discardCandidate() of the older candidate, adopt(), and what came with the
\* signature is written to the new buffer.
Adopt(s, n) ==
    /\ st[s] = "probing" /\ Supersedes /\ probe[s] + n <= MaxParts
    /\ LET first == NextParts(s, probe[s] + n)
       IN  /\ buf' = first
           /\ IF Full(first, Settle)
              THEN drain' = TRUE /\ SetReasons({"flv-drain"}, s, TRUE, None)
              ELSE ClearPauses
    /\ parts' = [parts EXCEPT ![s] = probe[s] + n]
    /\ probe' = [probe EXCEPT ![s] = 0]
    /\ st' = [Close(st, {camera}) EXCEPT ![s] = "open"]
    /\ camera' = s /\ timer' = SettleTimer
    /\ UNCHANGED <<handing, src, muxer>>

\* A chunk of the adopted connection: all its parts are written, then the
\* socket is paused if the buffer is full.  No part: the de-trailer waits.
Data(s, n) ==
    /\ st[s] = "open" /\ camera = s /\ s \notin paused
    /\ parts[s] + n <= MaxParts
    /\ buf' = buf \o NextParts(s, n)
    /\ parts' = [parts EXCEPT ![s] = @ + n]
    /\ IF Full(buf', Mark) /\ ~drain
       THEN drain' = TRUE /\ Add("flv-drain")
       ELSE UNCHANGED pauses
    /\ UNCHANGED <<st, probe, feed, handing, src, muxer>>

-----------------------------------------------------------------------------
(* Promotion: the handoff to the muxer. *)

\* What stays of the reasons when the handoff begins: the drain of the old
\* buffer no longer matters.
HandoffReasons == (reasons \ {"flv-drain"}) \cup {"handoff"}

Promote ==
    /\ timer /\ ~serveStarted /\ camera # None
    /\ timer' = FALSE
    /\ serve' = "starting"
    /\ handing' = TRUE /\ src' = buf /\ buf' = << >>
    /\ drain' = FALSE
    /\ SetReasons(HandoffReasons, camera, Usable(camera), pausedSock)
    /\ UNCHANGED <<conns, camera, stopped, pressure, parsed>>

\* The candidate sent nothing for CANDIDATE_IDLE_MS: discardCandidate().
DiscardIdle ==
    /\ timer /\ ~serveStarted /\ camera # None
    /\ timer' = FALSE
    /\ st' = Close(st, {camera})
    /\ camera' = None /\ buf' = << >>
    /\ ClearPauses
    /\ UNCHANGED <<probe, parts, handing, src, muxer>>

\* settleFlv.pipe(steadyFlv) honours the small buffer's mark.
Pipe ==
    /\ handing /\ src # << >> /\ ~Full(buf, Steady)
    /\ buf' = Append(buf, Head(src)) /\ src' = Tail(src)
    /\ UNCHANGED <<conns, feed, handing, pauses, muxer>>

\* The old buffer has come to its end.  (Mutant: or the muxer is up first.)
TransferredOrUp == TRUE
Transferred == src = << >>

HandoffEnds ==
    /\ handing /\ Transferred
    /\ handing' = FALSE /\ src' = << >>
    /\ Remove("handoff")
    /\ UNCHANGED <<conns, feed, buf, drain, muxer>>

\* startNativeServe() resolves; a stream stopped meanwhile destroys the muxer.
ServeUp ==
    /\ serve = "starting" /\ ~handing
    /\ serve' = IF stopped THEN "gone" ELSE "up"
    /\ UNCHANGED <<conns, feed, bytes, pauses, stopped, pressure, parsed>>

\* The muxer's parser reads as data comes.
Parse ==
    /\ serve \in {"starting", "up"} /\ buf # << >>
    /\ parsed' = Append(parsed, Head(buf)) /\ buf' = Tail(buf)
    /\ UNCHANGED <<conns, feed, handing, src, pauses, serve, stopped, pressure>>

-----------------------------------------------------------------------------
(* Ends. *)

\* stop(), given what becomes of the muxer.  The continuation of promote()
\* that the destroyed handoffSource wakes finds nothing left to do.
StopWith(muxerThen) ==
    /\ stopped' = TRUE /\ serve' = muxerThen /\ pressure' = FALSE
    /\ st' = Close(st, Socks)
    /\ camera' = None /\ timer' = FALSE
    /\ buf' = << >> /\ handing' = FALSE /\ src' = << >>
    /\ ClearPauses
    /\ UNCHANGED <<probe, parts, parsed>>

\* stop() by the owner, or by start() timing out.
Stop == ~stopped /\ StopWith(IF serve = "up" THEN "gone" ELSE serve)

\* The muxer fails to start, or ends and closes the small buffer: stop().
ServeDies == ~stopped /\ serve \in {"starting", "up"} /\ StopWith("gone")

\* The camera closes or resets a connection.
PeerCloses(s) ==
    /\ st[s] \in {"probing", "open"}
    /\ st' = Close(st, {s})
    /\ UNCHANGED <<probe, parts, feed, bytes, pauses, muxer>>

Gone(s) ==
    /\ probe' = [probe EXCEPT ![s] = 0]
    /\ parts' = [parts EXCEPT ![s] = 0]

\* The 'close' event of a connection that is not, or no longer, the adopted one.
StrayClosed(s) ==
    /\ st[s] = "closing" /\ camera # s
    /\ st' = [st EXCEPT ![s] = "none"]
    /\ Gone(s) /\ paused' = paused \ {s}
    /\ UNCHANGED <<feed, bytes, drain, reasons, pausedSock, muxer>>

\* onSocketClose() of a candidate: the next connection may be adopted.
CandidateClosed(s) ==
    /\ st[s] = "closing" /\ camera = s /\ ~serveStarted
    /\ st' = [st EXCEPT ![s] = "none"]
    /\ Gone(s) /\ paused' = paused \ {s}
    /\ drain' = FALSE /\ reasons' = reasons \ {"flv-drain"}
    /\ pausedSock' = IF reasons' = {} THEN None ELSE pausedSock
    /\ camera' = None /\ timer' = FALSE /\ buf' = << >>
    /\ UNCHANGED <<handing, src, muxer>>

\* onSocketClose() of the established connection: the generation ends.
FeedClosed(s) ==
    /\ st[s] = "closing" /\ camera = s /\ serveStarted
    /\ StopWith(IF serve = "up" THEN "gone" ELSE serve)

-----------------------------------------------------------------------------
Camera ==
    \E s \in Socks :
        \/ Accept(s) \/ KeepPrefix(s) \/ RejectProbe(s) \/ RejectDuplicate(s) \/ PeerCloses(s)
        \/ \E n \in 0..Batch : Adopt(s, n) \/ Data(s, n)
Closed(s) == StrayClosed(s) \/ CandidateClosed(s) \/ FeedClosed(s)
Settled == Promote \/ DiscardIdle
Handing == Pipe \/ HandoffEnds
Muxer == ServeUp \/ ServeDies \/ \E on \in BOOLEAN : EgressPressure(on)

Next ==
    \/ Camera \/ \E s \in Socks : Closed(s)
    \/ Settled \/ Handing \/ Muxer \/ Parse \/ Drained \/ Stop

Spec == Init /\ [][Next]_vars

\* Streams flow, timers fire and sockets close.  That pressure ends is what
\* Egress promises (PacketsLeave, PauseEnds).
Fairness ==
    /\ WF_vars(Settled) /\ WF_vars(Handing) /\ WF_vars(Parse) /\ WF_vars(Drained)
    /\ WF_vars(EgressPressure(FALSE)) /\ \A s \in Socks : WF_vars(Closed(s))
FairSpec == Spec /\ Fairness

-----------------------------------------------------------------------------
Reasons == {"flv-drain", "egress-pressure", "handoff"}
Parts == Socks \X (Nat \ {0})

\* The state is well typed, and what a stream retains is bounded by the mark
\* of its buffer and what one data event adds.
TypeOK ==
    /\ st \in [Socks -> {"none", "probing", "open", "closing"}]
    /\ probe \in [Socks -> 0..1] /\ parts \in [Socks -> 0..MaxParts]
    /\ camera \in Socks \cup {None} /\ pausedSock \in Socks \cup {None}
    /\ {buf, src, parsed} \subseteq Seq(Parts)
    /\ Len(buf) <= Mark + Batch /\ Len(src) <= Settle + Batch
    /\ {handing, drain, timer, stopped, pressure} \subseteq BOOLEAN
    /\ reasons \subseteq Reasons /\ paused \subseteq Socks
    /\ serve \in {"none", "starting", "up", "gone"}

\* What the muxer was fed, and what waits for it in either buffer, is all that
\* the adopted connection has delivered, in order, from its signature on.
InOrder ==
    camera # None => parsed \o buf \o src = [i \in 1..parts[camera] |-> <<camera, i>>]

\* One connection feeds a muxer: what it was fed is one connection's beginning,
\* also when the connection is gone.
OneFeed == \A i \in DOMAIN parsed : parsed[i] = <<parsed[1][1], i>>

\* A stopped stream keeps no connection open and no byte.
StoppedHoldsNothing ==
    stopped => buf = << >> /\ src = << >> /\ \A s \in Socks : st[s] \in {"none", "closing"}

\* The muxer gets one connection's stream whole and in order, and nothing of
\* the stream survives stop().
FeedIsWhole == InOrder /\ OneFeed /\ StoppedHoldsNothing

\* The adopted socket is paused exactly while there is a reason, and a reason
\* stands exactly while its cause does: a listener waiting for the drain, a
\* handoff, pressure.  No end of one cause resumes a socket another one holds.
PausesHaveReasons ==
    /\ "flv-drain" \in reasons <=> drain
    /\ "handoff" \in reasons <=> handing
    /\ "egress-pressure" \in reasons <=> pressure
    /\ camera # None /\ st[camera] = "open" => (camera \in paused <=> reasons # {})

\* A paused camera is resumed, or its connection ends: no pause is forgotten.
IngressResumes ==
    \A s \in Socks : s \in paused /\ camera = s ~> s \notin paused \/ camera # s
=============================================================================
