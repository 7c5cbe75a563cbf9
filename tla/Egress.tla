------------------------------- MODULE Egress -------------------------------
(***************************************************************************)
(* One generation of the RTSP server of src/src/native-rtsp.ts: access     *)
(* units arrive as they come, wait in the paced queues, and leave on the   *)
(* schedule of their media time; the packets since the last keyframe are   *)
(* kept for clients that join, and a queue too long pauses the camera.     *)
(*                                                                         *)
(* Time is relative to now: epoch is how long from now the packets of      *)
(* media time 0 leave, timer how long until the drain timer fires.  A      *)
(* timer may fire late.  Loops that run within one callback are steps of   *)
(* mode; every other event waits until they end.  An access unit is one    *)
(* packet or, spread, two: its first and its marker.  The model begins     *)
(* when the H.264 sequence header has come: frames before it are dropped.  *)
(***************************************************************************)
EXTENDS Integers, Sequences, FiniteSets

CONSTANTS
    Sessions,       \* slots of RTSP clients
    Delay,          \* EGRESS_DELAY_MS
    Nap,            \* the longest drain timer
    MaxLate, MaxFuture,
    High, Low, MaxQueue,
    MaxGop,         \* MAX_GOP_BYTES, in packets
    Deltas,         \* steps of the camera's video timestamps
    Spreads,        \* values of videoAuSpreadMs()
    MaxFrames, MaxAudio,        \* bounds of the exploration
    None

ASSUME EgressConstants ==
    /\ {Delay, Nap, MaxLate, MaxFuture, MaxGop} \subseteq Nat \ {0}
    /\ {High, Low, MaxQueue, MaxFrames, MaxAudio} \subseteq Nat
    /\ Low < High /\ High <= MaxQueue /\ Delay <= MaxFuture
    /\ Deltas \subseteq Int /\ Spreads \subseteq Nat
    /\ None \notin Int

VARIABLES
    phase,      \* discover, binding, serving: how far startNativeServe() is
    dead, restart,
    server,     \* the RTSP listener: none, binding, open, closed
    mode,       \* the loop that runs: idle, drain, handoff
    vq, aq,     \* videoEgress, audioEgress
    epoch, timer,
    media,      \* previousVideoMediaMs
    clock,      \* the audio clock, in media time
    frames,     \* video packets built (RtpTrack.seq)
    audios,     \* audio packets built
    pressure,   \* pressurePaused, as the owner of the feed was last told
    gop, overflow,
    batch,      \* what this drain() takes out
    until,      \* handoffDue
    stamped,    \* the video track has a wall-clock stamp
    owed,       \* pendingJoinSr
    sess

queues == <<vq, aq>>
input == <<media, clock, frames, audios>>
pace == <<epoch, timer>>
history == <<gop, overflow>>
life == <<phase, dead, restart, server>>
clients == <<stamped, owed, sess>>
vars == <<life, mode, queues, pace, input, pressure, history, batch, until, clients>>

NoSession == [st |-> "none", from |-> None, upto |-> None, count |-> 0,
              broke |-> FALSE, sr |-> FALSE]

Init ==
    /\ phase = "discover" /\ dead = FALSE /\ restart = FALSE /\ server = "none"
    /\ mode = "idle"
    /\ vq = << >> /\ aq = << >> /\ epoch = None /\ timer = None
    /\ media = 0 /\ clock = 0 /\ frames = 0 /\ audios = 0
    /\ pressure = FALSE
    /\ gop = << >> /\ overflow = FALSE /\ batch = << >> /\ until = None
    /\ stamped = FALSE /\ owed = FALSE
    /\ sess = [s \in Sessions |-> NoSession]

\* Between callbacks; the microtask of a restart runs before the next one.
Idle == mode = "idle" /\ (restart => dead)

-----------------------------------------------------------------------------
(* The queues. *)

Queued == Len(vq) + Len(aq)

\* The queue that goes first; video wins a tie.
VideoFirst(v, a) ==
    /\ v # << >>
    /\ a = << >> \/ Head(v).due <= Head(a).due
Front(v, a) == IF VideoFirst(v, a) THEN Head(v) ELSE Head(a)

\* updatePressure() with n packets queued.
Pressure(n) == IF pressure THEN n > Low ELSE n >= High

\* requestRestart(): what it does at once.
Restart ==
    /\ restart' = TRUE /\ timer' = None
    /\ vq' = << >> /\ aq' = << >>
    /\ pressure' = FALSE

\* scheduleDrain(), no timer armed: at most Nap from now, and a schedule too
\* far ahead starts anew.  (Mutant: it stands, however far.)
AnchoredForever(due) == IF epoch = None THEN Delay - due ELSE epoch
Anchored(due) == IF epoch = None THEN Delay - due
                 ELSE IF epoch + due > MaxFuture THEN Delay - due ELSE epoch
Wake(x) == IF x < 0 THEN 0 ELSE IF x > Nap THEN Nap ELSE x
Schedule(v, a) ==
    IF v = << >> /\ a = << >>
    THEN UNCHANGED epoch /\ timer' = None
    ELSE LET due == Front(v, a).due
         IN  epoch' = Anchored(due) /\ timer' = Wake(Anchored(due) + due)

\* A timer armed for a later packet than the front of the queues is armed
\* again.  (Mutant: the armed timer stays.)
TimerStays(v, a) == timer # None
TimerStands(v, a) == timer # None /\ Front(v, a).due >= Front(vq, aq).due

\* n packets are more than the queues may hold.  (Mutant: they never are.)
FullNever(n) == FALSE
Full(n) == n > MaxQueue

\* enqueue(), with what the queues then hold.
Enqueue(v, a) ==
    LET n == Len(v) + Len(a)
    IN  IF Full(n)
        THEN Restart /\ UNCHANGED epoch
        ELSE /\ vq' = v /\ aq' = a
             /\ pressure' = Pressure(n)
             /\ IF TimerStands(v, a) THEN UNCHANGED pace ELSE Schedule(v, a)
             /\ UNCHANGED restart

Packet(track, seq, due, key, first, last) ==
    [track |-> track, seq |-> seq, due |-> due,
     start |-> key /\ first, marker |-> last, keymarker |-> key /\ last]

AccessUnit(t, spread, key) ==
    IF spread = 0 THEN <<Packet("video", frames, t, key, TRUE, TRUE)>>
    ELSE <<Packet("video", frames, t - spread, key, TRUE, FALSE),
           Packet("video", frames + 1, t, key, FALSE, TRUE)>>

\* handleVideoTag(): an access unit.
Frame(delta, spread, key) ==
    /\ Idle /\ ~dead /\ frames < MaxFrames
    /\ LET t == IF media + delta < 0 THEN 0 ELSE media + delta
           au == AccessUnit(t, spread, key)
       IN  /\ media' = t
           /\ frames' = frames + Len(au)
           /\ Enqueue(vq \o au, aq)
    /\ UNCHANGED <<phase, dead, server, mode, clock, audios, history, batch, until, clients>>

\* handleAacTag(), handleOpusTag(): a packet of a track that is served.  Its
\* clock takes one step, or follows the camera over a gap.
Audio(follow) ==
    /\ Idle /\ ~dead /\ phase # "discover" /\ audios < MaxAudio
    /\ clock' = IF follow /\ media > clock THEN media ELSE clock + 1
    /\ audios' = audios + 1
    /\ Enqueue(vq, Append(aq, Packet("audio", audios, clock', FALSE, TRUE, TRUE)))
    /\ UNCHANGED <<phase, dead, server, mode, media, frames, history, batch, until, clients>>

\* The stream no longer is what the SDP says: new parameter sets, another
\* audio profile, Opus after a video-only SDP.
ContractBreaks ==
    /\ Idle /\ ~dead
    /\ Restart
    /\ UNCHANGED <<phase, dead, server, mode, epoch, input, history, batch, until, clients>>

-----------------------------------------------------------------------------
(* drain() and the handoff: packets leave. *)

\* The packets since the last keyframe, once packet p has left.
Remember(p) ==
    LET kept == IF p.start THEN << >> ELSE gop
        full == overflow /\ ~p.start
        takes == ~full /\ (p.track = "video" \/ kept # << >>)
        grown == IF takes THEN Append(kept, p) ELSE kept
    IN  IF Len(grown) > MaxGop
        THEN gop' = << >> /\ overflow' = TRUE
        ELSE gop' = grown /\ overflow' = full

Shift ==
    IF VideoFirst(vq, aq)
    THEN vq' = Tail(vq) /\ UNCHANGED aq
    ELSE aq' = Tail(aq) /\ UNCHANGED vq

\* The timer fires.
Drain ==
    /\ Idle /\ timer = 0
    /\ LET due == Front(vq, aq).due
       IN  IF epoch + due < -MaxLate
           THEN Restart /\ UNCHANGED <<epoch, mode>>
           ELSE /\ epoch' = Anchored(due)
                /\ timer' = None /\ mode' = "drain"
                /\ UNCHANGED <<queues, pressure, restart>>
    /\ batch' = << >>
    /\ UNCHANGED <<phase, dead, server, input, history, until, clients>>

DrainDue == Queued > 0 /\ epoch + Front(vq, aq).due <= 0

DrainPacket ==
    /\ mode = "drain" /\ DrainDue
    /\ batch' = Append(batch, Front(vq, aq))
    /\ Remember(Front(vq, aq))
    /\ Shift
    /\ UNCHANGED <<life, mode, pace, input, pressure, until, clients>>

\* Where the video is among packets, and the ends of a set of places.
Video(packets) == {i \in DOMAIN packets : packets[i].track = "video"}
Last(S) == CHOOSE i \in S : \A j \in S : j <= i
First(S) == CHOOSE i \in S : \A j \in S : i <= j

\* A client is sent packets, if it plays.
Sent(c, packets) ==
    LET v == Video(packets)
    IN  IF c.st # "playing" \/ v = {} THEN c
        ELSE [c EXCEPT !.from = IF @ = None THEN packets[First(v)].seq ELSE @,
                       !.upto = packets[Last(v)].seq,
                       !.count = @ + Cardinality(v)]
Reported(c) == IF c.st = "playing" THEN [c EXCEPT !.sr = TRUE] ELSE c

\* The batch goes to every client, with the report clients are owed.
FanOut ==
    LET now == stamped \/ Video(batch) # {}
        report == batch # << >> /\ owed /\ now
    IN  /\ stamped' = now
        /\ owed' = (owed /\ ~report)
        /\ sess' = [s \in Sessions |-> IF report THEN Reported(Sent(sess[s], batch))
                                       ELSE Sent(sess[s], batch)]

\* The loop ends.  (Mutant: no timer is armed for what stays.)
DrainEndUnarmed ==
    /\ mode = "drain" /\ ~DrainDue
    /\ mode' = "idle" /\ batch' = << >>
    /\ pressure' = Pressure(Queued)
    /\ FanOut
    /\ UNCHANGED <<life, queues, pace, input, history, until>>
DrainEnd ==
    /\ mode = "drain" /\ ~DrainDue
    /\ mode' = "idle" /\ batch' = << >>
    /\ pressure' = Pressure(Queued)
    /\ FanOut
    /\ Schedule(vq, aq)
    /\ UNCHANGED <<life, queues, input, history, until>>

\* The handoff keeps the newest Delay of the backlog and cuts before it, at
\* the end of an access unit that a complete keyframe precedes.
Markers(q) == {i \in DOMAIN q : q[i].marker}
Cut ==
    IF Markers(vq) = {} THEN None
    ELSE LET target == vq[Last(Markers(vq))].due - Delay
             keys == {i \in DOMAIN vq : vq[i].keymarker /\ vq[i].due <= target}
         IN  IF keys = {} THEN None
             ELSE vq[Last({i \in Markers(vq) : /\ vq[i].due <= target
                                               /\ vq[i].due >= vq[First(keys)].due})].due

\* Discovery ends: the SDP is fixed.
Handoff ==
    /\ Idle /\ ~dead /\ phase = "discover"
    /\ until' = Cut
    /\ mode' = "handoff" /\ timer' = None
    /\ UNCHANGED <<life, queues, epoch, input, pressure, history, batch, clients>>

HandoffDue == Queued > 0 /\ until # None /\ Front(vq, aq).due <= until

HandoffPacket ==
    /\ mode = "handoff" /\ HandoffDue
    /\ Remember(Front(vq, aq))
    /\ Shift
    /\ UNCHANGED <<life, mode, pace, input, pressure, batch, until, clients>>

\* What is kept leaves from now on, while the listener comes up.
HandoffEnd ==
    /\ mode = "handoff" /\ ~HandoffDue
    /\ mode' = "idle" /\ until' = None
    /\ pressure' = Pressure(Queued)
    /\ IF Queued = 0 THEN UNCHANGED pace
       ELSE epoch' = -Front(vq, aq).due /\ timer' = 0
    /\ phase' = "binding" /\ server' = "binding"
    /\ UNCHANGED <<dead, restart, queues, input, history, batch, clients>>

-----------------------------------------------------------------------------
(* The life of the generation. *)

\* destroy().  A listener that is still binding cannot be closed yet.  What
\* nothing reads any more (the clocks, the history) is forgotten.
Destroy ==
    /\ dead' = TRUE
    /\ timer' = None /\ vq' = << >> /\ aq' = << >> /\ pressure' = FALSE
    /\ epoch' = None /\ gop' = << >> /\ overflow' = FALSE /\ stamped' = FALSE /\ owed' = FALSE
    /\ media' = 0 /\ clock' = 0
    /\ server' = IF server = "open" THEN "closed" ELSE server
    /\ sess' = [s \in Sessions |-> NoSession]
    /\ UNCHANGED <<phase, restart, mode, frames, audios, batch, until>>

\* The microtask of requestRestart().
RestartEnds == restart /\ ~dead /\ Destroy

\* The feed closes, its owner stops it, or discovery times out.
FeedCloses == Idle /\ ~dead /\ Destroy

\* The listener is up; a destroy() in between is noticed.
ListenUp ==
    /\ Idle /\ server = "binding"
    /\ server' = IF dead THEN "closed" ELSE "open"
    /\ phase' = IF dead THEN phase ELSE "serving"
    /\ UNCHANGED <<dead, restart, mode, queues, pace, input, pressure, history, batch, until, clients>>

\* No video left for RTP_STALL_MS, however long that is.
Stalls ==
    /\ Idle /\ ~dead
    /\ Restart
    /\ UNCHANGED <<phase, dead, server, mode, epoch, input, history, batch, until, clients>>

\* Time passes.  The epoch is followed as long as lateness makes a difference.
Dues(q) == {q[i].due : i \in DOMAIN q}
TooLate == \A t \in {media, clock} \cup Dues(vq) \cup Dues(aq) : epoch + t < -MaxLate
Tick ==
    /\ Idle /\ ~dead
    /\ epoch' = IF epoch = None THEN None ELSE IF TooLate THEN epoch ELSE epoch - 1
    /\ timer' = IF timer = None THEN None ELSE IF timer > 0 THEN timer - 1 ELSE 0
    /\ UNCHANGED <<life, mode, queues, input, pressure, history, batch, until, clients>>

-----------------------------------------------------------------------------
(* RTSP clients. *)

Client(s, c) ==
    /\ Idle
    /\ sess' = [sess EXCEPT ![s] = c]
    /\ UNCHANGED <<life, mode, queues, pace, input, pressure, history, batch, until>>

Connect(s) ==
    /\ server = "open" /\ sess[s].st = "none"
    /\ Client(s, [NoSession EXCEPT !.st = "ready"])
    /\ UNCHANGED <<stamped, owed>>

\* What a joining client is sent.  (Mutant: also what still waits.)
BootstrapToNow == gop \o vq
Bootstrap == gop

\* The first PLAY: the history, then a sender report, now or when there is one.
Play(s) ==
    /\ sess[s].st = "ready"
    /\ LET c == Sent([sess[s] EXCEPT !.st = "playing"], Bootstrap)
           now == stamped \/ Video(Bootstrap) # {}
       IN  /\ Client(s, IF now THEN Reported(c) ELSE c)
           /\ stamped' = now
           /\ owed' = (owed \/ ~now)

\* PAUSE, and a PLAY after it.
Pause(s) ==
    /\ sess[s].st = "playing"
    /\ Client(s, [sess[s] EXCEPT !.st = "paused", !.broke = TRUE])
    /\ UNCHANGED <<stamped, owed>>
Unpause(s) ==
    /\ sess[s].st = "paused"
    /\ Client(s, [sess[s] EXCEPT !.st = "playing"])
    /\ UNCHANGED <<stamped, owed>>

\* TEARDOWN, a broken connection, or a client too slow.
Leave(s) ==
    /\ sess[s].st # "none"
    /\ Client(s, NoSession)
    /\ UNCHANGED <<stamped, owed>>

\* The periodic sender reports.
Report ==
    /\ Idle /\ ~dead /\ stamped
    /\ sess' = [s \in Sessions |-> Reported(sess[s])]
    /\ UNCHANGED <<life, mode, queues, pace, input, pressure, history, batch, until, stamped, owed>>

-----------------------------------------------------------------------------
FeedNext ==
    \/ \E d \in Deltas, w \in Spreads, key \in BOOLEAN : Frame(d, w, key)
    \/ \E follow \in BOOLEAN : Audio(follow)
    \/ ContractBreaks \/ FeedCloses
PaceNext == Drain \/ DrainPacket \/ DrainEnd \/ Handoff \/ HandoffPacket \/ HandoffEnd
LifeNext == RestartEnds \/ ListenUp \/ Stalls \/ Tick
ClientNext ==
    \/ \E s \in Sessions : Connect(s) \/ Play(s) \/ Pause(s) \/ Unpause(s) \/ Leave(s)
    \/ Report

Next == FeedNext \/ PaceNext \/ LifeNext \/ ClientNext
Spec == Init /\ [][Next]_vars

\* Callbacks that are due run, time passes, and listen() settles.
Fairness ==
    /\ WF_vars(PaceNext /\ phase # "discover")
    /\ WF_vars(RestartEnds) /\ WF_vars(ListenUp) /\ WF_vars(Tick)
FairSpec == Spec /\ Fairness

-----------------------------------------------------------------------------
Packets == [track : {"video", "audio"}, seq : Nat, due : Int,
            start : BOOLEAN, marker : BOOLEAN, keymarker : BOOLEAN]

\* The state is well typed, and no queue or history outgrows its bound.
TypeOK ==
    /\ phase \in {"discover", "binding", "serving"} /\ dead \in BOOLEAN /\ restart \in BOOLEAN
    /\ server \in {"none", "binding", "open", "closed"}
    /\ mode \in {"idle", "drain", "handoff"}
    /\ {vq, aq, gop, batch} \subseteq Seq(Packets)
    /\ Queued <= MaxQueue /\ Len(gop) <= MaxGop
    /\ epoch \in Int \cup {None} /\ timer \in 0..Nap \cup {None} /\ until \in Int \cup {None}
    /\ {media, clock, frames, audios} \subseteq Nat
    /\ {pressure, overflow, stamped, owed} \subseteq BOOLEAN
    /\ sess \in [Sessions -> [st : {"none", "ready", "playing", "paused"},
                              from : Nat \cup {None}, upto : Nat \cup {None}, count : Nat,
                              broke : BOOLEAN, sr : BOOLEAN]]

\* While packets wait, a timer is armed, and for no later than the first of
\* them on either track is due (enqueue()'s re-arming, native-rtsp.ts:919).
WakesInTime ==
    Idle /\ Queued > 0 => /\ timer # None
                          /\ epoch # None
                          /\ timer <= Wake(epoch + Front(vq, aq).due)

\* The camera is paused from the high mark to the low mark and never beyond,
\* also when a restart empties the queues: no pause outlives its cause.
PauseEnds == Idle => /\ pressure => Queued > Low
                     /\ ~pressure => Queued < High

\* The history begins with video and holds at most one keyframe start, at its
\* head (onSessionPlay() replays it as it is).
OneGop ==
    gop # << >> => /\ gop[1].track = "video"
                   /\ \A i \in 2..Len(gop) : ~gop[i].start

\* From the first packet a client is replayed to the last it was sent live,
\* nothing is missing and nothing comes twice, unless the client paused.
NoGapNoRepeat ==
    \A s \in Sessions :
        LET c == sess[s]
        IN  c.count > 0 => /\ c.count <= c.upto - c.from + 1
                           /\ ~c.broke => c.count = c.upto - c.from + 1

\* History and live packets splice: a client joins with one group of pictures
\* and goes on where it ends.
Splices == OneGop /\ NoGapNoRepeat

\* A client that was sent video was sent the report that maps its clock,
\* also if it joined before any packet had left.
ReportFollows ==
    Idle => \A s \in Sessions :
        sess[s].st = "playing" /\ ~sess[s].broke /\ sess[s].count > 0 => sess[s].sr

\* A generation that was destroyed has let go of everything: no timer, no
\* packet, no pause of the camera, no client, and no listener that takes one.
DeadLetsGo ==
    dead => /\ timer = None /\ Queued = 0 /\ ~pressure
            /\ server # "open"
            /\ \A s \in Sessions : sess[s].st = "none"

\* The pacer holds on to nothing: it wakes in time for what waits, takes back the
\* pause of the camera, and lets go of everything when its generation dies.
PacerLetsGo == WakesInTime /\ PauseEnds /\ DeadLetsGo

\* However far the camera's clock jumps, the packet in front leaves within
\* MAX_FUTURE_MS: "waiting seconds while valid packets arrive is a frozen live
\* view" (native-rtsp.ts:937), which no timer and no stall shows at once.
WaitIsBounded == Idle /\ Queued > 0 => epoch + Front(vq, aq).due <= MaxFuture

\* A client joins and stays joined: history and live packets splice, and the
\* report it is owed follows.
JoinsCleanly == Splices /\ ReportFollows

\* Packets that wait leave, or the generation ends, whatever the camera's
\* clock does.
PacketsLeave == Queued > 0 /\ phase # "discover" ~> Queued = 0 \/ dead
=============================================================================
